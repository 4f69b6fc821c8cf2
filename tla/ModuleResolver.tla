----------------------------- MODULE ModuleResolver -----------------------------
(***************************************************************************)
(* The include/import pass of the compiler (resolver.rs): a depth-first    *)
(* walk that replaces every directive of a document by the nodes of the    *)
(* module it names, resolved in the same way.  The recursion of            *)
(* resolve_includes is a stack of frames, one per module being resolved;   *)
(* `visited` is the one set that all frames share.                         *)
(*                                                                         *)
(* A module is a sequence of top-level nodes, a node the sequence of the   *)
(* directives in it: `?` inside a node gives up the rest of that node,     *)
(* between nodes the errors are collected.  Renaming by an alias and the   *)
(* hoisting of directives out of generic templates move and rename nodes   *)
(* and decide nothing here.                                                *)
(***************************************************************************)
EXTENDS Naturals, Sequences, FiniteSets

CONSTANTS
  Modules,    \* canonical paths and catalog entries
  Root,       \* the module that is compiled
  Documents   \* the texts and states of the modules in a compilation

(* `wanted` holds the nodes of the target that the directive's names pick, *)
(* or that are not rules; `valid` is FALSE if a name lacks its alias.      *)
Directive == [kind : {"import", "include"}, target : Modules \cup {"nowhere"},
              named : BOOLEAN, wanted : SUBSET Nat, valid : BOOLEAN]

(* A module may not parse, or be gone when it is read the second time.     *)
Condition == {"good", "unparsable", "unreadable"}
Document  == [body : [Modules -> Seq(Seq(Directive))], condition : [Modules -> Condition]]

ASSUME ResolverAssumption == Root \in Modules /\ Documents \subseteq Document

VARIABLES
  doc,       \* the modules as they are on disk
  stack,     \* the frames, the innermost last
  visited,   \* the modules no directive may name now
  errors,    \* diagnostics, as <<code, place of the directive>>
  copies,    \* the resolved copies of modules that have been spliced
  libraries, \* the modules recorded as direct imports of the document
  result     \* "running", "ok" or "err"

vars == <<doc, stack, visited, errors, copies, libraries, result>>

(* A place is the path of directives that leads to it, from the root; a    *)
(* step of a path is a module, a node of it and a directive in that.       *)
Place == Seq([module : Modules, node : Nat, dir : Nat])

(* A frame: the module, where in the tree it is, the directive it is at,   *)
(* and whether any of its directives failed.                               *)
Frame == [module : Modules, place : Place, node : Nat, dir : Nat, failed : BOOLEAN]

(* A copy of a module, and its nodes that later passes may prune.          *)
Copy == [module : Modules, place : Place, prunable : SUBSET Nat]

Codes == {"E002", "E009", "E010", "E011"}
Nodes(m) == 1..Len(doc.body[m])
--------------------------------------------------------------------------------
Top == stack[Len(stack)]
Below == stack[Len(stack) - 1]
ReplaceTop(frame) == [stack EXCEPT ![Len(stack)] = frame]

InNode(f) == f.node \in Nodes(f.module) /\ f.dir \in 1..Len(doc.body[f.module][f.node])
Current(f) == doc.body[f.module][f.node][f.dir]
PlaceOf(f) == Append(f.place, [module |-> f.module, node |-> f.node, dir |-> f.dir])

(* Mutant: one directive of a node is enough.                              *)
PastDirectiveOnly(f) == [f EXCEPT !.node = @ + 1, !.dir = 1]

(* A frame past the directive it is at.                                    *)
PastDirective(f) == [f EXCEPT !.dir = @ + 1]

(* A frame past the node whose directive failed.                           *)
PastFailedNode(f) == [f EXCEPT !.node = @ + 1, !.dir = 1, !.failed = TRUE]

TypeOK ==
  /\ doc \in Document
  /\ stack \in Seq(Frame)
  /\ visited \subseteq Modules
  /\ errors \subseteq Codes \X Place
  /\ copies \subseteq Copy
  /\ libraries \in Seq(Modules)
  /\ result \in {"running", "ok", "err"}

(* `compile`: the root itself has been read, and is visited.               *)
Init ==
  /\ doc \in Documents
  /\ stack = <<[module |-> Root, place |-> <<>>, node |-> 1, dir |-> 1, failed |-> FALSE]>>
  /\ visited = {Root}
  /\ errors = {}
  /\ copies = {}
  /\ libraries = <<>>
  /\ result = "running"

AtDirective == result = "running" /\ InNode(Top)

(* The directive fails: a diagnostic, and the rest of the node is left.    *)
FailHere(code) ==
  /\ errors' = errors \cup {<<code, PlaceOf(Top)>>}
  /\ stack' = ReplaceTop(PastFailedNode(Top))
  /\ UNCHANGED <<doc, copies, libraries, result>>

Unresolvable(d) == ~d.valid \/ d.target = "nowhere"

(* Mutant: imports are not checked.                                        *)
SeenIncludesOnly(d) == d.kind = "include" /\ d.target \in visited

(* `check_visited`.                                                        *)
Seen(d) == d.target \in visited

(* A name without its alias, or no such file or catalog entry.             *)
RejectUnresolvable ==
  /\ AtDirective /\ Unresolvable(Current(Top))
  /\ FailHere("E009")
  /\ UNCHANGED visited

RejectSeen ==
  /\ AtDirective /\ ~Unresolvable(Current(Top)) /\ Seen(Current(Top))
  /\ FailHere("E010")
  /\ UNCHANGED visited

(* The module cannot be read again or parsed: it stays visited.            *)
RejectBroken ==
  /\ AtDirective
  /\ LET d == Current(Top)
     IN /\ ~Unresolvable(d) /\ ~Seen(d) /\ doc.condition[d.target] # "good"
        /\ visited' = visited \cup {d.target}
        /\ FailHere(IF doc.condition[d.target] = "unreadable" THEN "E011" ELSE "E002")

Descend ==
  /\ AtDirective
  /\ LET d == Current(Top)
     IN /\ ~Unresolvable(d) /\ ~Seen(d) /\ doc.condition[d.target] = "good"
        /\ visited' = visited \cup {d.target}
        /\ stack' = Append(stack, [module |-> d.target, place |-> PlaceOf(Top),
                                   node |-> 1, dir |-> 1, failed |-> FALSE])
  /\ UNCHANGED <<doc, errors, copies, libraries, result>>

NextNode ==
  /\ result = "running" /\ ~InNode(Top) /\ Top.node \in Nodes(Top.module)
  /\ stack' = ReplaceTop([Top EXCEPT !.node = @ + 1, !.dir = 1])
  /\ UNCHANGED <<doc, visited, errors, copies, libraries, result>>

(* The nodes of module m that directive d keeps: the ones it names, or all *)
(* of an include and none of an import.                                    *)
Kept(d, m) == IF d.named THEN d.wanted \cap Nodes(m)
              ELSE IF d.kind = "include" THEN Nodes(m) ELSE {}

Within(place, outer) == Len(place) > Len(outer)
                        /\ SubSeq(place, 1, Len(outer)) = outer

(* `tag_tree_prunable` of the nodes of m, spliced at outer, that are not   *)
(* kept: what was spliced into them is tagged as a whole.                  *)
Tagged(d, m, outer) ==
  {IF Within(c.place, outer) /\ c.place[Len(outer) + 1].node \notin Kept(d, m)
     THEN [c EXCEPT !.prunable = Nodes(c.module)] ELSE c : c \in copies}

FrameDone == result = "running" /\ Top.node \notin Nodes(Top.module)

(* Mutant: the entry of an import stays.                                   *)
LeaveNothing(d, m) == visited

(* An import takes its entry out of `visited` again, failed or not.        *)
Leave(d, m) == IF d.kind = "import" THEN visited \ {m} ELSE visited

(* Back from a module all of whose directives were resolved: its nodes     *)
(* replace the directive.  Only the root's list of libraries is kept.      *)
Splice ==
  /\ FrameDone /\ Len(stack) > 1 /\ ~Top.failed
  /\ LET d == Current(Below)
         m == Top.module
         outer == Top.place
     IN /\ visited' = Leave(d, m)
        /\ copies' = Tagged(d, m, outer)
                     \cup {[module |-> m, place |-> outer, prunable |-> Nodes(m) \ Kept(d, m)]}
        /\ libraries' = IF Len(stack) = 2 THEN Append(libraries, m) ELSE libraries
  /\ stack' = Append(SubSeq(stack, 1, Len(stack) - 2), PastDirective(Below))
  /\ UNCHANGED <<doc, errors, result>>

(* Mutant: a failure inside the module is forgotten.                       *)
GiveUpQuietly ==
  /\ FrameDone /\ Len(stack) > 1 /\ Top.failed
  /\ visited' = Leave(Current(Below), Top.module)
  /\ copies' = {c \in copies : ~Within(c.place, Top.place)}
  /\ stack' = Append(SubSeq(stack, 1, Len(stack) - 2), PastDirective(Below))
  /\ UNCHANGED <<doc, errors, libraries, result>>

(* Back from a module with errors: the directive fails with them, and what *)
(* had been spliced into the module is dropped with it.                    *)
GiveUp ==
  /\ FrameDone /\ Len(stack) > 1 /\ Top.failed
  /\ visited' = Leave(Current(Below), Top.module)
  /\ copies' = {c \in copies : ~Within(c.place, Top.place)}
  /\ stack' = Append(SubSeq(stack, 1, Len(stack) - 2), PastFailedNode(Below))
  /\ UNCHANGED <<doc, errors, libraries, result>>

Finish ==
  /\ FrameDone /\ Len(stack) = 1
  /\ result' = IF Top.failed THEN "err" ELSE "ok"
  /\ UNCHANGED <<doc, stack, visited, errors, copies, libraries>>

Next == \/ RejectUnresolvable \/ RejectSeen \/ RejectBroken \/ Descend
        \/ NextNode \/ Splice \/ GiveUp \/ Finish

Spec == Init /\ [][Next]_vars
--------------------------------------------------------------------------------
(* No module is resolved inside itself, however its imports re-enter and   *)
(* leave `visited`: a module being resolved is in the set exactly while it *)
(* is on the stack.  This bounds the recursion by the number of modules.   *)
NoRecursion ==
  /\ \A j, k \in 1..Len(stack) : stack[j].module = stack[k].module => j = k
  /\ \A k \in 1..Len(stack) : stack[k].module \in visited

(* The directive that a place which is not the root ends with, and the     *)
(* module it names.                                                        *)
DirectiveAt(p) == LET last == p[Len(p)] IN doc.body[last.module][last.node][last.dir]
ModuleAt(p) == DirectiveAt(p).target

(* A file is spliced at most once by `include` (resolver.rs:305-307),      *)
(* whatever imports of it come before.                                     *)
IncludedOnce ==
  \A c, d \in copies :
    /\ c.module = d.module /\ c.place # d.place
    => ~(DirectiveAt(c.place).kind = "include" /\ DirectiveAt(d.place).kind = "include")

(* Success means all of it: every directive of the document, and of every  *)
(* module spliced anywhere in it, has its copy, and the libraries are the  *)
(* modules the document names, in order.                                   *)
DirectivesOf(m, place) ==
  UNION {{Append(place, [module |-> m, node |-> n, dir |-> k]) :
            k \in 1..Len(doc.body[m][n])} : n \in Nodes(m)}
OkIsComplete ==
  result = "ok" =>
    /\ errors = {}
    /\ {c.place : c \in copies} =
         UNION ({DirectivesOf(c.module, c.place) : c \in copies}
                \cup {DirectivesOf(Root, <<>>)})
    /\ Len(libraries) = Cardinality(DirectivesOf(Root, <<>>))

(* And an error is never lost on the way out of the recursion.             *)
ErrorsSurvive == result # "running" => (result = "err" <=> errors # {})

(* A node of a copy is safe from pruning exactly if every directive on the *)
(* way to it keeps it: nothing below a bare import is kept by a name       *)
(* picked further in.                                                      *)
KeptThroughout(c, n) ==
  \A k \in 1..Len(c.place) :
    LET p == SubSeq(c.place, 1, k)
        node == IF k = Len(c.place) THEN n ELSE c.place[k + 1].node
    IN node \in Kept(DirectiveAt(p), ModuleAt(p))
PrunableExactly ==
  result = "ok" => \A c \in copies : \A n \in Nodes(c.module) :
    n \notin c.prunable <=> KeptThroughout(c, n)

(* Importing alone fails only on a cycle, however often and wherever a     *)
(* module is imported: of a document with sound imports and nothing else,  *)
(* the walk tells exactly whether its imports have a cycle.                *)
DirectivesIn(m) == {DirectiveAt(p) : p \in DirectivesOf(m, <<>>)}
Targets(m) == {d.target : d \in DirectivesIn(m)} \cap Modules
Closed(S) == \A m \in S : Targets(m) \subseteq S
Reachable(m) ==   \* by one directive or more
  {t \in Modules : \A S \in SUBSET Modules : Targets(m) \subseteq S /\ Closed(S) => t \in S}
OnlySoundImports ==
  \A m \in Reachable(Root) \cup {Root} :
    /\ m # Root => doc.condition[m] = "good"
    /\ \A d \in DirectivesIn(m) : d.kind = "import" /\ ~Unresolvable(d)
Cyclic == \E m \in Reachable(Root) \cup {Root} : m \in Reachable(m)
ImportsFailOnCyclesOnly ==
  result # "running" /\ OnlySoundImports => (result = "err" <=> Cyclic)

(* The set of visited files, shared by all scopes, refuses what it should: *)
(* a second inclusion always, an import only when it closes a cycle.       *)
VisitedExactly == IncludedOnce /\ ImportsFailOnCyclesOnly

(* A resolved document has every module it names, at its place, and of     *)
(* each module exactly the nodes that may be pruned are marked.            *)
SplicedExactly == OkIsComplete /\ PrunableExactly

================================================================================
