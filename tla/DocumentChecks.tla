----------------------------- MODULE DocumentChecks -----------------------------
(***************************************************************************)
(* What the compiler checks of a document once its files and their         *)
(* directives are read (compiled.rs, finalize.rs): definitions nothing     *)
(* refers to, sockets, groups that include each other, uses of names a     *)
(* library does not export, and the last step of it all, the removal of    *)
(* duplicate diagnostics.                                                  *)
(***************************************************************************)
EXTENDS ExportDirectives, Components, FiniteSetsExt, SequencesExt

CONSTANTS
  TypeSockets, GroupSockets   \* the names that begin with $, with $$

ASSUME NamesAreWords == \A n \in Names : n \in Seq(ToSet(n)) \ {<<>>}

-----------------------------------------------------------------------------
(* Definitions that nothing refers to, in the rules of the file itself.    *)

Doc == texts[Main]
Sites == {i \in Rules(Doc) : /\ Doc[i].assign = "="
                             /\ \A j \in Rules(Doc) : Doc[j].assign = "=" /\ Doc[j].name = Doc[i].name => i <= j}
SiteOf(n) == CHOOSE i \in Sites : Doc[i].name = n
Defined == {Doc[i].name : i \in Sites}

References == [n \in Names |-> UNION {Doc[i].written \ Doc[i].params : i \in {r \in Rules(Doc) : Doc[r].name = n}}]

ReachedFrom(g, n) == {m \in Names : Leads(g, Names, n, m)}

Unreachable == {n \in Defined : n \notin TypeSockets \cup GroupSockets}
               \ ReachedFrom(References, Doc[Min(Sites)].name)

FindUnreferenced ==
  /\ stage = "unreferenced"
  /\ IF Cardinality(Sites) <= 1
     THEN stage' = "finalize" /\ UNCHANGED searchVars
     ELSE stage' = "components" /\ Begin(References, Unreachable)
  /\ UNCHANGED <<texts, file, used, at, pending, tagged, surface, found, warnings>>

Search ==
  /\ stage \in {"components", "cycles"}
  /\ SearchStep
  /\ UNCHANGED docVars

(* Mutant: a component that refers to itself counts as referred to.        *)
EnteredByAny(c) == \E d \in result : \E n \in d : edges[n] \cap c # {}

(* Of each component that no other one refers to, the first name.          *)
Entered(c) == \E d \in result \ {c} : \E n \in d : edges[n] \cap c # {}
Earliest(c) == CHOOSE n \in c : \A m \in c : SiteOf(n) <= SiteOf(m)

ReportUnreferenced ==
  /\ stage = "components" /\ Finished
  /\ warnings' = warnings \cup {Finding("E020", Main, SiteOf(n), {n}) :
                                  n \in {Earliest(c) : c \in {d \in result : ~Entered(d)}}}
  /\ stage' = "finalize"
  /\ UNCHANGED <<texts, file, used, at, pending, tagged, surface, found, searchVars>>

-----------------------------------------------------------------------------
(* The finalization: the rules in the order of the tree, each with the     *)
(* file it is from.                                                        *)

WithAlias(alias, n) == IF alias = <<>> \/ Len(n) > 1 \/ n = alias THEN n ELSE alias \o n

TreeOf[f \in Files] ==
  LET Part(line) ==
        IF line.kind = "rule" THEN <<[name |-> line.name, file |-> f]>>
        ELSE IF line.kind = "use"
        THEN LET below == TreeOf[line.file]
             IN [k \in DOMAIN below |-> [below[k] EXCEPT !.name = WithAlias(line.alias, @)]]
        ELSE <<>>
  IN FlattenSeq([i \in DOMAIN texts[f] |-> Part(texts[f][i])])

InTree[f \in Files] == {f} \cup UNION {InTree[texts[f][i].file] : i \in Uses(texts[f])}

(* A socket is only ever extended.                                         *)
SocketRight(rule) == /\ rule.name \in TypeSockets => rule.assign = "/="
                     /\ rule.name \in GroupSockets => rule.assign = "//="

SocketFindings(f) == {Finding("E017", f, i, {texts[f][i].name}) :
                        i \in {r \in Rules(texts[f]) : ~SocketRight(texts[f][r])}}

(* Bare entries of one group that name another rule.                       *)
Inclusions == [n \in Names |-> UNION {Doc[i].groups \ {n} :
                                        i \in {r \in Rules(Doc) : Doc[r].assign = "=" /\ Doc[r].name = n}}]

Finalize ==
  /\ stage = "finalize"
  /\ warnings' = warnings \cup UNION {SocketFindings(f) : f \in InTree[Main]}
  /\ Begin(Inclusions, Defined)
  /\ stage' = "cycles"
  /\ UNCHANGED <<texts, file, used, at, pending, tagged, surface, found>>

ReportCycles ==
  /\ stage = "cycles" /\ Finished
  /\ warnings' = warnings \cup {Finding("E030", "none", 0, c) : c \in {d \in result : Cardinality(d) > 1}}
  /\ stage' = "uses"
  /\ UNCHANGED <<texts, file, used, at, pending, tagged, surface, found, searchVars>>

(* Aliases are stripped, from definitions and from references.  The first  *)
(* definition of a name in the tree is taken for the one that is meant.    *)
Bare(n) == <<Last(n)>>
UsedFiles == {Doc[i].file : i \in Uses(Doc)}
HomeOf(tree, n) == LET homes == {k \in DOMAIN tree : Bare(tree[k].name) = n}
                   IN IF homes = {} THEN Main ELSE tree[Min(homes)].file
OnSurface(f, n) == n \in surface[f].exported \cup surface[f].extern

(* Mutant: what generic expansion brought in counts as written.            *)
InTreeOrSource(rule, n) == \E w \in rule.written \cup rule.pulled \cup {rule.name} : n[1] \in ToSet(w)

(* The text of the rule has the name as a word.                            *)
InSource(rule, n) == \E w \in rule.written \cup {rule.name} : n[1] \in ToSet(w)

(* The names a rule refers to, as the walk reads them: none below a node   *)
(* whose text has a `<`, for that is taken for one generic name.           *)
ReadNames(rule) == IF rule.angle THEN {}
                   ELSE {Bare(n) : n \in (rule.written \cup rule.pulled) \ (TypeSockets \cup GroupSockets)}

Violating(tree, rule) ==
  {n \in ReadNames(rule) \ (surface[Main].extern \cup rule.params) :
     /\ InSource(rule, n)
     /\ HomeOf(tree, n) \in UsedFiles
     /\ ~OnSurface(HomeOf(tree, n), n)}

UseFindings(tree) == UNION {{Finding("W003", Main, 0, {n, <<HomeOf(tree, n)>>}) : n \in Violating(tree, Doc[i])}
                              : i \in Rules(Doc)}

(* detect_direct_export_violations, detect_non_library_imports             *)
CheckUses ==
  /\ stage = "uses"
  /\ warnings' = warnings \cup UseFindings(TreeOf[Main])
                   \cup {Finding("W007", Main, 0, {<<f>>}) : f \in {g \in UsedFiles : ~surface[g].library}}
  /\ stage' = "deduplicate"
  /\ UNCHANGED <<texts, file, used, at, pending, tagged, surface, found, searchVars>>

(* One diagnostic is kept for each code, file and place; the rank that     *)
(* decides which is the length of the message.                             *)
Spot(d) == <<d.code, d.file, d.at>>
Deduplicate ==
  /\ stage = "deduplicate"
  /\ \E kept \in SUBSET warnings :
       /\ \A d \in warnings : \E k \in kept : Spot(k) = Spot(d)
       /\ \A c, d \in kept : Spot(c) = Spot(d) => c = d
       /\ warnings' = kept
  /\ stage' = "done"
  /\ UNCHANGED <<texts, file, used, at, pending, tagged, surface, found, searchVars>>

-----------------------------------------------------------------------------

InitFrom(documents) == ReadingInit(documents) /\ SearchInit

Next ==
  \/ Scan /\ UNCHANGED searchVars
  \/ MarkComment /\ UNCHANGED searchVars
  \/ MarkUse /\ UNCHANGED searchVars
  \/ MarkRule /\ UNCHANGED searchVars
  \/ MarkEnd /\ UNCHANGED searchVars
  \/ ReadNext /\ UNCHANGED searchVars
  \/ FindUnreferenced \/ Search \/ ReportUnreferenced
  \/ Finalize \/ ReportCycles \/ CheckUses \/ Deduplicate

vars == <<docVars, searchVars>>

(* Any files of any length.                                                *)
DocumentSpec == InitFrom([Files -> Text]) /\ [][Next]_vars

(* Those that the resolver lets pass: no file is inside itself.            *)
Descends(t, depth) == \A f \in Files : \A i \in Uses(t[f]) : depth[t[f][i].file] < depth[f]
Trees == {t \in [Files -> Text] : \E most \in Nat : \E depth \in [Files -> 0..most] : Descends(t, depth)}
TreeSpec == InitFrom(Trees) /\ [][Next]_vars

-----------------------------------------------------------------------------
Codes(code) == {d \in warnings : d.code = code}
Named == {d.about : d \in Codes("E020")}
Below(ns) == {m \in Unreachable : \E n \in ns : Leads(References, Unreachable, n, m)}

(* The user is told of enough definitions (E020) and no more: each one     *)
(* that the first rule does not lead to is below one that is named, and    *)
(* none of those is below another.                                         *)
UnreferencedCovered ==
  stage = "done" /\ Cardinality(Sites) > 1 =>
    /\ UNION Named \subseteq Unreachable
    /\ Below(UNION Named) = Unreachable
    /\ \A c, d \in Named : c # d => Below(c) \cap d = {}

Circles == {Mutual(Inclusions, Defined, n) : n \in Defined}

(* E030 names exactly the sets of rules that include each other.           *)
CyclesFound == stage = "uses" => {d.about : d \in Codes("E030")} = {c \in Circles : Cardinality(c) > 1}

(* What the sources say of the names that the file's own rules write: the  *)
(* file whose rule is meant, aliases included, and whether that file       *)
(* declares the name or has an Export for it.                              *)
Tree == TreeOf[Main]
Home(n) == LET same == {k \in DOMAIN Tree : Tree[k].name = n}
           IN IF same = {} THEN Main ELSE Tree[Min(same)].file
Own == {Doc[i] : i \in Rules(Doc)}
Words(rule) == UNION {ToSet(w) : w \in rule.written \cup {rule.name}}
Source == (UNION {rule.written : rule \in Own}) \ (TypeSockets \cup GroupSockets)
Offered(t) == Declared(t) \cup {t[r].name : r \in {s \in Rules(t) : \E e \in Exports(t) : Binds(t, e, s)}}
Hidden == {n \in Source : /\ Home(n) \in UsedFiles
                          /\ Bare(n) \notin Offered(texts[Home(n)]) \cup Declared(Doc)}

(* The check can be held to that where a name means the same without its   *)
(* alias, no `<` hides the names of a rule and no parameter has the name   *)
(* of one, and no prefix nor defined name is also what expansion brought.  *)
Plainly ==
  /\ \A n \in Source, k \in DOMAIN Tree : Bare(Tree[k].name) = Bare(n) => Tree[k].file = Home(n)
  /\ \A rule \in Own :
       /\ ~rule.angle
       /\ \A n \in rule.written : Bare(n) \notin rule.params
       /\ \A m \in rule.pulled : Last(m) \in Words(rule) => \E n \in rule.written \cap Source : Bare(n) = Bare(m)

Reported(code) == {d.about : d \in Codes(code)}

UseOf(n) == {Bare(n), <<Home(n)>>}

(* The contract, as finalize.rs:3275-3284 states it, is with the libraries *)
(* that the file imports.                                                  *)
Imported == {Doc[i].file : i \in {u \in Uses(Doc) : ~Doc[u].include}}
Contract == {n \in Hidden : Home(n) \in Imported /\ IsLibrary(texts[Home(n)])}

(* Uses of what is only included or is no library, and uses of several     *)
(* names, which differ in nothing but the text of their message.           *)
Uncontracted == Hidden # Contract
SeveralBlamed == \E m, n \in Contract : UseOf(m) # UseOf(n)

(* W003: whatever is reported is a name of the file that is blamed, which  *)
(* neither declares nor exports it, and a word of the source of one of the *)
(* file's own rules.  Nothing else is: where the sources are plain, the    *)
(* hidden names that they themselves take are found, all of them, and      *)
(* neither what generic expansion brought in nor what a library does for   *)
(* itself.  What reaches the user is what the comment says, one warning    *)
(* for every hidden name of an imported library that is used, but for two  *)
(* cases: files that are included and files that are no libraries are held *)
(* to a contract as well (finalize.rs:3647, against 3281-3284), and of the *)
(* uses of several names the removal of duplicates leaves some, one at     *)
(* least (compiled.rs:821, against 3275-3278).                             *)
SurfaceGuarded ==
  /\ stage \in {"deduplicate", "done"} =>
       \A w \in Reported("W003") :
         \E f \in Files, n \in {Bare(m) : m \in Names} :
           /\ w = {n, <<f>>}
           /\ \E k \in DOMAIN Tree : Tree[k].file = f /\ Bare(Tree[k].name) = n
           /\ n \notin Offered(texts[f])
           /\ \E rule \in Own : n[1] \in Words(rule)
  /\ stage = "deduplicate" /\ Plainly => Reported("W003") = {UseOf(n) : n \in Hidden}
  /\ stage = "done" /\ Plainly =>
       /\ ~Uncontracted /\ ~SeveralBlamed => Reported("W003") = {UseOf(n) : n \in Contract}
       /\ Reported("W003") = {} <=> Hidden = {}

===============================================================================
