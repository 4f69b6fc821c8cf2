------------------------------ MODULE Finalization ------------------------------
(***************************************************************************)
(* The passes of finalize_compiled (finalize.rs) that decide which         *)
(* definitions a compilation keeps: reachability and pruning, the          *)
(* strengths of definitions of the same name, and the injection of the     *)
(* standard postlude.  The work list of the first starts from a hash set,  *)
(* and any name in it may be next; the walk over the strengths takes the   *)
(* nodes in the order of the text; the injection repeats whole passes.     *)
(* The constant pass between strengths and injection is ConstantResolution *)
(* and changes no definition.                                              *)
(***************************************************************************)
EXTENDS DefinitionTree

CONSTANTS
  Postlude,         \* the names it defines
  PostludeRefs,     \* what each of them refers to
  PostludeSig,      \* and its right-hand side
  Documents         \* a tree, and what its file declares

Document == [tree : Tree, library : BOOLEAN, externs : SUBSET Names]

ASSUME PostludeAssumption ==
  /\ Postlude \subseteq Names /\ Postlude \cap Sockets = {} /\ Sockets \subseteq Names
  /\ PostludeRefs \in [Postlude -> SUBSET Postlude]
  /\ PostludeSig \in [Postlude -> Signatures]
ASSUME DocumentAssumption == \A d \in Documents : d \in Document

VARIABLES
  doc,      \* the document
  phase,    \* the pass under way
  work,     \* names to visit
  reached,  \* names visited
  kept,     \* nodes not pruned
  at,       \* the node the strength walk is at
  skipped,  \* nodes the walk does not look at
  seen,     \* the definition of a name that others are compared with, or 0
  drop,     \* keys to prune when the walk is over
  reports,  \* diagnostics, as <<code, node or name>>
  injected  \* postlude definitions appended to the document

vars == <<doc, phase, work, reached, kept, at, skipped, seen, drop, reports, injected>>
walk == <<at, skipped, seen, drop>>

T == doc.tree
Nodes == DOMAIN T
TopRules == {n \in Rules(T) : T[n].above = {}}

TypeOK ==
  /\ doc \in Document
  /\ phase \in {"reach", "strength", "declare", "inject", "unused", "done"}
  /\ work \subseteq Names /\ reached \subseteq Names
  /\ kept \subseteq Nodes /\ skipped \subseteq Nodes
  /\ at \in 1..(Len(T) + 1)
  /\ seen \in [Names -> {0} \cup Rules(T)]
  /\ drop \subseteq Names \X Files \X Nat
  /\ reports \subseteq {"W001", "W004", "E014"} \X Nodes
                       \cup {"E016", "E019", "W005"} \X Names
  /\ injected \subseteq Postlude

Init ==
  /\ doc \in Documents
  /\ phase = "reach"
  /\ work = Roots(T)
  /\ reached = {}
  /\ kept = Nodes
  /\ at = 1
  /\ skipped = {}
  /\ seen = [x \in Names |-> 0]
  /\ drop = {}
  /\ reports = {}
  /\ injected = {}
--------------------------------------------------------------------------------
(* Mutant: only one rule of a name is looked at.                           *)
VisitFirst ==
  /\ phase = "reach"
  /\ \E x \in work :
       /\ reached' = reached \cup {x}
       /\ LET first == {n \in Rules(T) : T[n].name = x /\ \A k \in Rules(T) : T[k].name = x => n <= k}
          IN work' = (work \cup ((UNION {T[n].refs : n \in first}) \cap Defined(T))) \ reached'
  /\ UNCHANGED <<doc, phase, kept, walk, reports, injected>>

(* `reachable_definition_names`.                                           *)
Visit ==
  /\ phase = "reach"
  /\ \E x \in work :
       /\ reached' = reached \cup {x}
       /\ work' = (work \cup (References(T, x) \cap Defined(T))) \ reached'
  /\ UNCHANGED <<doc, phase, kept, walk, reports, injected>>

Unreached(n) == n \in Rules(T) /\ T[n].prunable /\ T[n].name \notin reached

(* `prune_nodes_with_keys`: an unreached rule goes, and what is below it.  *)
Prune ==
  /\ phase = "reach" /\ work = {}
  /\ kept' = {n \in Nodes : \A m \in T[n].above \cup {n} : ~Unreached(m)}
  /\ phase' = "strength"
  /\ UNCHANGED <<doc, work, reached, walk, reports, injected>>
--------------------------------------------------------------------------------
(* What the consumer names itself: on either side of its rules, with what  *)
(* stands before the last dot and without, and in its lists of names,      *)
(* without the alias.                                                      *)
ConsumerNames ==
  LET names == UNION {{T[n].name} \cup T[n].refs : n \in TopRules \cap kept}
  IN names \cup {Bare[x] : x \in names}
ListedNames ==
  UNION {Normalized(T[d]) : d \in {n \in Nodes : T[n].file = Consumer /\ Selects(T[n])}}
OnSurface(x) == x \in ConsumerNames \cup ListedNames

(* Mutant: it does not matter what the consumer uses.                      *)
IndependentFiles(m, n) ==
  Consumer \notin {T[m].file, T[n].file} /\ T[m].file # T[n].file

(* Definitions that two imported files do not know of each other.          *)
Independent(m, n) ==
  /\ Consumer \notin {T[m].file, T[n].file}
  /\ ~OnSurface(T[n].name)
  /\ T[m].file # T[n].file

Walking == phase = "strength" /\ at \in Nodes
Site == at \in (Rules(T) \cap kept) \ skipped /\ T[at].define
Previous == seen[T[at].name]
Rival == Site /\ Previous # 0 /\ Key(T[Previous]) # Key(T[at])
Advance == at' = at + 1 /\ UNCHANGED <<doc, phase, work, reached, kept, injected>>

PassBy ==
  /\ Walking /\ (Site => Previous # 0) /\ ~Rival
  /\ Advance /\ UNCHANGED <<skipped, seen, drop, reports>>

First ==
  /\ Walking /\ Site /\ Previous = 0
  /\ seen' = [seen EXCEPT ![T[at].name] = at]
  /\ Advance /\ UNCHANGED <<skipped, drop, reports>>

(* The children are not walked either.                                     *)
LeaveBoth ==
  /\ Walking /\ Rival /\ Independent(Previous, at)
  /\ skipped' = skipped \cup Below(T, at)
  /\ Advance /\ UNCHANGED <<seen, drop, reports>>

(* Mutant: a definition of the same strength goes without a word.          *)
CollideQuietly ==
  /\ Walking /\ Rival /\ ~Independent(Previous, at)
  /\ drop' = drop \cup {Key(T[at])}
  /\ Advance /\ UNCHANGED <<skipped, seen, reports>>

(* The matrix of `collect_definition_strength_actions`: of two strengths   *)
(* the prunable definition goes, of one the later, with a diagnostic.  The *)
(* actions are applied when the walk is over and decide nothing in it.     *)
Collide ==
  /\ Walking /\ Rival /\ ~Independent(Previous, at)
  /\ LET mixed == T[Previous].prunable # T[at].prunable
         overruled == mixed /\ T[Previous].prunable
         loser == IF overruled THEN Previous ELSE at
         code == IF T[Previous].sig = T[at].sig THEN "W001" ELSE "E014"
     IN /\ drop' = drop \cup {Key(T[loser])}
        /\ reports' = IF mixed THEN reports ELSE reports \cup {<<code, at>>}
        /\ seen' = IF overruled THEN [seen EXCEPT ![T[at].name] = at] ELSE seen
  /\ Advance /\ UNCHANGED skipped

Dropped(n) == n \in Rules(T) /\ Key(T[n]) \in drop

(* `prune_definition_keys`: every copy of a definition, and what is below. *)
Apply ==
  /\ phase = "strength" /\ at \notin Nodes
  /\ kept' = {n \in kept : \A m \in T[n].above \cup {n} : ~Dropped(m)}
  /\ phase' = "declare"
  /\ UNCHANGED <<doc, work, reached, walk, reports, injected>>
--------------------------------------------------------------------------------
KeptRules == Rules(T) \cap kept
KeptNames == {T[n].name : n \in KeptRules}
(* What is found first for the names it defines.                           *)
FirstKept == {n \in KeptRules : \A m \in KeptRules : T[m].name = T[n].name => n <= m}

(* `validate_extern_declarations` and                                      *)
(* `compare_user_and_postlude_definitions`.                                *)
Declare ==
  /\ phase = "declare"
  /\ reports' = reports
       \cup {<<"E019", x>> : x \in (doc.externs \ Sockets) \cap (KeptNames \cup Postlude)}
       \cup {<<IF T[n].sig = PostludeSig[T[n].name] THEN "W001" ELSE "E014", n>> :
               n \in {m \in FirstKept : T[m].name \in Postlude}}
  /\ phase' = "inject"
  /\ UNCHANGED <<doc, work, reached, kept, walk, injected>>

(* The references in the document as it is now.                            *)
CompleteRefs == (UNION {T[n].refs : n \in KeptRules}) \cup (UNION {PostludeRefs[x] : x \in injected})

(* Mutant: the source defines what has not been pruned.                    *)
ForeignToKept == CompleteRefs \ (KeptNames \cup Sockets)

(* The ones that the source does not define.                               *)
Foreign == CompleteRefs \ (Defined(T) \cup Sockets)

(* A library need not define what it declares extern.                      *)
Excused == IF doc.library THEN doc.externs ELSE {}

(* Mutant: the references of what is injected are not scanned.             *)
InjectOnce ==
  /\ phase = "inject"
  /\ injected' = Foreign \cap Postlude
  /\ reports' = reports \cup {<<"E016", x>> : x \in Foreign \ (Postlude \cup Excused)}
  /\ phase' = "unused"
  /\ UNCHANGED <<doc, work, reached, kept, walk>>

(* One pass of the injection over a snapshot of the document; the last     *)
(* pass is the one that injects nothing.  What is defined nowhere is an    *)
(* error, in a library a warning.                                          *)
Inject ==
  /\ phase = "inject"
  /\ injected' = injected \cup (Foreign \cap Postlude)
  /\ reports' = reports \cup {<<"E016", x>> : x \in Foreign \ (Postlude \cup Excused)}
  /\ phase' = IF injected' = injected THEN "unused" ELSE "inject"
  /\ UNCHANGED <<doc, work, reached, kept, walk>>

BroughtIn(d) == IF Selects(T[d]) THEN Normalized(T[d])
                ELSE {T[n].name : n \in Below(T, d) \cap Rules(T)}

(* What a list of names selects and the consumer does not name: an alias   *)
(* is left out before the comparison.                                      *)
UnusedSelections(d) ==
  {x \in T[d].wanted : (IF T[d].aliased THEN Bare[x] ELSE x) \notin ConsumerNames}

(* `detect_unused_directives`, over the top level of the document.         *)
Unused ==
  /\ phase = "unused"
  /\ LET own == {d \in Nodes \ Rules(T) : T[d].above = {}}
     IN reports' = reports
          \cup {<<"W004", d>> : d \in {e \in own :
                  BroughtIn(e) # {} /\ BroughtIn(e) \cap ConsumerNames = {}}}
          \cup {<<"W005", x>> : x \in UNION {UnusedSelections(d) : d \in {e \in own : Selects(T[e])}}}
  /\ phase' = "done"
  /\ UNCHANGED <<doc, work, reached, kept, walk, injected>>

Next == \/ Visit \/ Prune
        \/ PassBy \/ First \/ LeaveBoth \/ Collide \/ Apply
        \/ Declare \/ Inject \/ Unused

Spec == Init /\ [][Next]_vars
--------------------------------------------------------------------------------
(* A set of names that has the roots and what its members refer to.        *)
Closed(S) == /\ Roots(T) \subseteq S
             /\ \A x \in S : References(T, x) \cap Defined(T) \subseteq S

(* `reachable_definition_names` computes the closure of the roots under    *)
(* the references of every arm of a name, in whatever order the hash sets  *)
(* are read: nothing more is kept, and nothing less.                       *)
ReachedExactly ==
  phase = "declare" => /\ Closed(reached)
                       /\ \A S \in SUBSET Names : Closed(S) => reached \subseteq S

(* A definition that went with the rule line its module is a child of.     *)
LostBelow(n) == \E m \in T[n].above : Unreached(m) \/ Dropped(m)
(* The definitions whose strengths are compared.                           *)
Compared(n) == /\ n \in Rules(T) \ skipped /\ T[n].define
               /\ \A m \in T[n].above \cup {n} : ~Unreached(m)
(* The places where a definition is spliced in: a file that is reached     *)
(* twice, by lists with different names or by an import and an include,    *)
(* may be tagged at one of them and not at the other.                      *)
Copies(n) == {k \in Rules(T) : Key(T[k]) = Key(T[n])}
Twofold(n) == \E k \in Copies(n) : T[k].prunable # T[n].prunable
Noted(n) == \E k \in Copies(n), code \in {"W001", "E014"} : <<code, k>> \in reports

Resolved == phase = "declare"

(* Pruning and the strengths together never take the last definition of a  *)
(* name that a reached rule refers to, whatever the order of definitions,  *)
(* but for two cases the code does not notice: definitions that go with a  *)
(* rule line above them, and a definition that is weak at one place and    *)
(* strong at another, which can be dropped for its weak copy and then be   *)
(* what others are dropped for.  The second leaves a diagnostic.           *)
NamesSurvive ==
  Resolved =>
    \A n \in KeptRules : T[n].name \in reached =>
      \A x \in T[n].refs \cap Defined(T) :
        \/ x \in KeptNames
        \/ \E m \in Rules(T) : T[m].name = x /\ (LostBelow(m) \/ (Twofold(m) /\ Noted(m)))

(* Of the definitions of a name the consumer uses one place is left at     *)
(* most, and it is strong, there or at a copy, if any of them is.  Of      *)
(* strong ones that are equal the later goes as well, which is not what    *)
(* the comment on `collect_definition_strength_actions` says (`neither is  *)
(* auto-pruned`): `normalize_definition_strengths` prunes what it warns of.*)
StrengthsResolved ==
  Resolved =>
    \A m, n \in {k \in Rules(T) : Compared(k) /\ OnSurface(T[k].name)} :
      T[m].name = T[n].name /\ n \in kept =>
        /\ m \in kept => Key(T[m]) = Key(T[n])
        /\ ~T[m].prunable => \E k \in Copies(n) : ~T[k].prunable

(* A definition that must not be pruned disappears without a diagnostic on *)
(* it only with a rule line above it, or because a copy of it is weak and  *)
(* gave way to another definition that must not be pruned: two strong      *)
(* definitions, of which the comment says that they must be reported.      *)
NoSilentLoss ==
  Resolved =>
    \A n \in Rules(T) : ~T[n].prunable /\ n \notin kept =>
      \/ LostBelow(n) \/ Noted(n)
      \/ /\ Twofold(n)
         /\ \E k \in Rules(T) : T[k].name = T[n].name /\ ~T[k].prunable /\ Key(T[k]) # Key(T[n])

(* Definitions of the same strength that differ are an error, wherever     *)
(* they stand; a strong definition settles differences of weak ones, and a *)
(* definition with a weak copy counts as weak.                             *)
ConflictsReported ==
  Resolved =>
    \A m, n \in {k \in Rules(T) : Compared(k) /\ OnSurface(T[k].name)} :
      /\ T[m].name = T[n].name /\ T[m].sig # T[n].sig
      /\ \A k \in {m, n} :
           \/ \A j \in Copies(k) : ~T[j].prunable
           \/ \A j \in Rules(T) : Compared(j) /\ T[j].name = T[k].name => T[j].prunable
      => \E k \in Rules(T) : T[k].name = T[m].name /\ <<"E014", k>> \in reports

(* Whatever the order of definitions, a name that is used keeps one        *)
(* definition, the strongest, and differences between equals are reported, *)
(* with the exceptions that the three parts name.                          *)
NamesResolved == NamesSurvive /\ StrengthsResolved /\ ConflictsReported

(* Every reference of the finished document is accounted for, those of the *)
(* injected definitions too, and an undefined name is an error only if it  *)
(* is defined neither in the source, pruned or not, nor in the postlude.   *)
ReferencesAccounted ==
  phase = "done" =>
    /\ CompleteRefs \subseteq Defined(T) \cup Sockets \cup injected \cup Excused
                              \cup {x \in Names : <<"E016", x>> \in reports}
    /\ \A x \in Names : <<"E016", x>> \in reports => x \in CompleteRefs
    /\ \A x \in Names : <<"E016", x>> \in reports => x \notin Defined(T) \cup Postlude

(* A part of the postlude that has what the document and the part itself   *)
(* refer to and the source does not define.                                *)
Suffices(S) ==
  ((UNION {T[n].refs : n \in KeptRules}) \cup (UNION {PostludeRefs[x] : x \in S}))
    \cap (Postlude \ Defined(T)) \subseteq S

(* What the document leads to is injected however deep in the postlude it  *)
(* is, no more than that, and nothing over a definition of the source.     *)
InjectedExactly ==
  phase = "done" => /\ Suffices(injected)
                    /\ \A S \in SUBSET Postlude : Suffices(S) => injected \subseteq S

================================================================================
