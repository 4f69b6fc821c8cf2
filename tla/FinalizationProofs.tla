--------------------------- MODULE FinalizationProofs ---------------------------
(***************************************************************************)
(* Theorems about Finalization for every set of names, files and           *)
(* documents: the least sets that reachability and injection compute, the  *)
(* references of the finished document, and what the walk over strengths   *)
(* leaves.  The argument for the walk is that a definition it has compared *)
(* is at the place of the one that it now holds for the name, or is to be  *)
(* dropped; that one is to be dropped only for a weak copy, on which there *)
(* is a diagnostic, and is weak only if all others are (WalkInv).          *)
(***************************************************************************)
EXTENDS Finalization, TLAPS

(* A node of a tree that is a rule has the fields of a rule.               *)
LEMMA RuleNodes == ASSUME NEW t \in Tree, NEW n \in Rules(t)
                   PROVE  /\ n \in DOMAIN t /\ t[n] \in Rule
                          /\ t[n].name \in Names /\ t[n].refs \subseteq Names
                          /\ Key(t[n]) \in Names \X Files \X Nat
<1>1. n \in DOMAIN t /\ t[n] \in Node /\ t[n].kind = "rule"
  BY DEF Tree, Rules
<1>2. t[n] \notin Directive
  BY <1>1 DEF Directive
<1>3. t[n] \in Rule
  BY <1>1, <1>2 DEF Node
<1> QED  BY <1>1, <1>3 DEF Rule, Key

LEMMA DirectiveNodes == ASSUME NEW t \in Tree, NEW d \in DOMAIN t, Selects(t[d])
                        PROVE  t[d].wanted \subseteq Names /\ Normalized(t[d]) \subseteq Names
<1>1. t[d] \in Node
  BY DEF Tree
<1>2. t[d] \notin Rule
  BY DEF Selects, Rule
<1>3. t[d].wanted \subseteq Names
  BY <1>1, <1>2 DEF Node, Directive
<1> QED  BY <1>3, BareAssumption DEF Normalized

(* What the operators of the tree yield are names.                         *)
LEMMA TreeNames == ASSUME NEW t \in Tree
                   PROVE  /\ Roots(t) \subseteq Names /\ Defined(t) \subseteq Names
                          /\ DOMAIN t = 1..Len(t) /\ Len(t) \in Nat
                          /\ Rules(t) \subseteq DOMAIN t
<1>1. \A n \in Rules(t) : t[n].name \in Names /\ t[n].refs \subseteq Names
  BY RuleNodes
<1>2. t \in Seq(Node)
  BY DEF Tree
<1> QED  BY <1>1, <1>2 DEF Roots, Defined, Rules

(* What the finished document refers to are names.                         *)
LEMMA ReferenceNames == ASSUME TypeOK
                        PROVE  CompleteRefs \subseteq Names /\ Foreign \subseteq CompleteRefs
<1>1. T \in Tree
  BY DEF TypeOK, Document, T
<1>2. \A n \in KeptRules : T[n].refs \subseteq Names
  BY <1>1, RuleNodes DEF KeptRules
<1>3. \A x \in injected : PostludeRefs[x] \subseteq Names
  BY PostludeAssumption DEF TypeOK
<1>4. UNION {T[n].refs : n \in KeptRules} \subseteq Names
  BY <1>2
<1>5. UNION {PostludeRefs[x] : x \in injected} \subseteq Names
  BY <1>3
<1>6. Foreign \subseteq CompleteRefs
  BY DEF Foreign
<1>7. CompleteRefs \subseteq Names
  BY <1>4, <1>5, Zenon DEF CompleteRefs
<1> QED  BY <1>6, <1>7

(* Every variable keeps its type.                                          *)
THEOREM TypeCorrect == Spec => []TypeOK
<1>1. Init => TypeOK
  <2> SUFFICES ASSUME Init PROVE TypeOK
    OBVIOUS
  <2>1. doc \in Document /\ T \in Tree
    BY DocumentAssumption DEF Init, Document, T
  <2>2. Roots(T) \subseteq Names /\ Len(T) \in Nat
    BY <2>1, TreeNames
  <2> QED  BY <2>1, <2>2 DEF Init, TypeOK, Nodes
<1>2. TypeOK /\ [Next]_vars => TypeOK'
  <2> SUFFICES ASSUME TypeOK, [Next]_vars PROVE TypeOK'
    OBVIOUS
  <2>0. /\ doc \in Document /\ T \in Tree /\ Defined(T) \subseteq Names
        /\ Nodes = 1..Len(T) /\ Len(T) \in Nat /\ Rules(T) \subseteq Nodes
    <3>1. T \in Tree
      BY DEF TypeOK, Document, T
    <3> QED  BY <3>1, TreeNames DEF TypeOK, Nodes
  <2>1. CASE Visit
    BY <2>0, <2>1 DEF TypeOK, Visit, walk, T, Nodes
  <2>2. CASE Prune
    BY <2>0, <2>2 DEF TypeOK, Prune, walk, T, Nodes
  <2>3. CASE PassBy
    BY <2>0, <2>3 DEF TypeOK, PassBy, Advance, Walking, walk, T, Nodes
  <2>4. CASE First
    <3>1. at \in Rules(T) /\ at \in Nodes
      BY <2>4 DEF First, Site, Walking
    <3>2. T[at].name \in Names
      BY <2>0, <3>1, RuleNodes
    <3> QED  BY <2>0, <2>4, <3>1, <3>2 DEF TypeOK, First, Advance, walk, T, Nodes
  <2>5. CASE LeaveBoth
    BY <2>0, <2>5 DEF TypeOK, LeaveBoth, Advance, Walking, Below, T, Nodes
  <2>6. CASE Collide
    <3>1. at \in Rules(T) /\ at \in Nodes /\ T[at].name \in Names
          /\ Key(T[at]) \in Names \X Files \X Nat
      BY <2>0, <2>6, RuleNodes DEF Collide, Rival, Site, Walking
    <3>2. Previous \in Rules(T)
      BY <2>6, <3>1 DEF TypeOK, Collide, Rival, Previous
    <3>3. T' = T /\ Nodes' = Nodes
      BY <2>6 DEF Collide, Advance, T, Nodes
    <3>4. \A n \in Rules(T), x \in Names : [seen EXCEPT ![x] = n] \in [Names -> {0} \cup Rules(T)]
      BY DEF TypeOK
    <3>5. seen' \in [Names -> {0} \cup Rules(T)]
      BY <2>6, <3>1, <3>4 DEF TypeOK, Collide
    <3>6. Key(T[Previous]) \in Names \X Files \X Nat
      BY <2>0, <3>2, RuleNodes
    <3>7. drop' \subseteq Names \X Files \X Nat
      BY <2>6, <3>1, <3>6 DEF TypeOK, Collide
    <3>8. reports' \subseteq reports \cup {<<"W001", at>>, <<"E014", at>>}
      BY <2>6 DEF Collide
    <3> QED  BY <2>0, <2>6, <3>1, <3>3, <3>5, <3>7, <3>8 DEF TypeOK, Collide, Advance
  <2>7. CASE Apply
    BY <2>0, <2>7 DEF TypeOK, Apply, walk, T, Nodes
  <2>8. CASE Declare
    <3> DEFINE E == (doc.externs \ Sockets) \cap (KeptNames \cup Postlude)
               P == {m \in FirstKept : T[m].name \in Postlude}
               code(n) == IF T[n].sig = PostludeSig[T[n].name] THEN "W001" ELSE "E014"
    <3>1. E \subseteq Names
      BY <2>0 DEF Document
    <3>2. P \subseteq Nodes
      BY <2>0 DEF FirstKept, KeptRules
    <3>3. reports' = reports \cup {<<"E019", x>> : x \in E} \cup {<<code(n), n>> : n \in P}
      BY <2>8 DEF Declare
    <3>4. \A n : code(n) \in {"W001", "E014"}
      OBVIOUS
    <3> HIDE DEF E, P, code
    <3>5. reports' \subseteq reports \cup {"E019"} \X Names \cup {"W001", "E014"} \X Nodes
      BY <3>1, <3>2, <3>3, <3>4
    <3>6. reports' \subseteq {"W001", "W004", "E014"} \X Nodes \cup {"E016", "E019", "W005"} \X Names
      BY <3>5 DEF TypeOK
    <3> QED  BY <2>0, <2>8, <3>6 DEF TypeOK, Declare, walk, T, Nodes
  <2>9. CASE Inject
    <3>1. reports' \subseteq reports \cup {"E016"} \X Names
      BY <2>9, ReferenceNames DEF Inject
    <3>2. reports' \subseteq {"W001", "W004", "E014"} \X Nodes \cup {"E016", "E019", "W005"} \X Names
      BY <3>1 DEF TypeOK
    <3> QED  BY <2>0, <2>9, <3>2 DEF TypeOK, Inject, walk, T, Nodes
  <2>10. CASE Unused
    <3>1. \A d \in Nodes : Selects(T[d]) => UnusedSelections(d) \subseteq Names
      BY <2>0, DirectiveNodes DEF Nodes, UnusedSelections
    <3>2. reports' \subseteq reports \cup {"W004"} \X Nodes \cup {"W005"} \X Names
      BY <2>10, <3>1 DEF Unused
    <3>3. reports' \subseteq {"W001", "W004", "E014"} \X Nodes \cup {"E016", "E019", "W005"} \X Names
      BY <3>2 DEF TypeOK
    <3> QED  BY <2>0, <2>10, <3>3 DEF TypeOK, Unused, walk, T, Nodes
  <2>11. CASE UNCHANGED vars
    BY <2>11 DEF TypeOK, vars, T, Nodes
  <2> QED
    BY <2>1, <2>2, <2>3, <2>4, <2>5, <2>6, <2>7, <2>8, <2>9, <2>10, <2>11 DEF Next
<1> QED  BY <1>1, <1>2, PTL DEF Spec
--------------------------------------------------------------------------------
(* What the passes of the injection have established so far.               *)
Undefined == {x \in Names : <<"E016", x>> \in reports}
Scanned ==
  /\ phase \in {"reach", "strength", "declare"} => Undefined = {}
  /\ Undefined \subseteq CompleteRefs \ (Defined(T) \cup Postlude)
  /\ phase \in {"unused", "done"} =>
       CompleteRefs \subseteq Defined(T) \cup Sockets \cup injected \cup Excused \cup Undefined

(* Only the injection reports a name as undefined.                         *)
LEMMA OthersReportNoName == ASSUME TypeOK, [Next]_vars, ~Inject
                            PROVE  Undefined' = Undefined
<1>1. ASSUME reports' = reports PROVE Undefined' = Undefined
  BY <1>1 DEF Undefined
<1>2. CASE Visit \/ Prune \/ PassBy \/ First \/ LeaveBoth \/ Apply \/ UNCHANGED vars
  BY <1>1, <1>2 DEF Visit, Prune, PassBy, First, LeaveBoth, Apply, vars
<1>3. CASE Collide
  <2>1. reports' \subseteq reports \cup {<<"W001", at>>, <<"E014", at>>} /\ reports \subseteq reports'
    BY <1>3 DEF Collide
  <2> QED  BY <2>1 DEF Undefined
<1>4. CASE Declare
  <2> DEFINE E == (doc.externs \ Sockets) \cap (KeptNames \cup Postlude)
             P == {m \in FirstKept : T[m].name \in Postlude}
             code(n) == IF T[n].sig = PostludeSig[T[n].name] THEN "W001" ELSE "E014"
  <2>1. reports' = reports \cup {<<"E019", x>> : x \in E} \cup {<<code(n), n>> : n \in P}
    BY <1>4 DEF Declare
  <2>2. \A n : code(n) \in {"W001", "E014"}
    OBVIOUS
  <2> HIDE DEF E, P, code
  <2>3. \A x : <<"E016", x>> \in reports' <=> <<"E016", x>> \in reports
    BY <2>1, <2>2
  <2> QED  BY <2>3 DEF Undefined
<1>5. CASE Unused
  <2> DEFINE D == {e \in {d \in Nodes \ Rules(T) : T[d].above = {}} :
                     BroughtIn(e) # {} /\ BroughtIn(e) \cap ConsumerNames = {}}
             W == UNION {UnusedSelections(d) : d \in {e \in {d \in Nodes \ Rules(T) : T[d].above = {}} :
                                                        Selects(T[e])}}
  <2>1. reports' = reports \cup {<<"W004", d>> : d \in D} \cup {<<"W005", x>> : x \in W}
    BY <1>5 DEF Unused
  <2> HIDE DEF D, W
  <2>2. \A x : <<"E016", x>> \in reports' <=> <<"E016", x>> \in reports
    BY <2>1
  <2> QED  BY <2>2 DEF Undefined
<1> QED  BY <1>2, <1>3, <1>4, <1>5 DEF Next

(* One pass of the injection: what it reports is undefined indeed, and if  *)
(* it injects nothing, it has accounted for every reference.               *)
LEMMA ScanInject == ASSUME TypeOK, Scanned, Inject
                    PROVE  Scanned'
<1>1. doc' = doc /\ T' = T /\ kept' = kept /\ KeptRules' = KeptRules /\ Excused' = Excused
  BY DEF Inject, T, KeptRules, Excused
<1>2. Undefined' = Undefined \cup (Foreign \ (Postlude \cup Excused))
  <2>1. Foreign \subseteq Names
    BY ReferenceNames
  <2>2. reports' = reports \cup {<<"E016", x>> : x \in Foreign \ (Postlude \cup Excused)}
    BY DEF Inject
  <2> QED  BY <2>1, <2>2 DEF Undefined
<1>3. CompleteRefs \subseteq CompleteRefs'
  <2>1. injected \subseteq injected'
    BY DEF Inject
  <2>2. (UNION {PostludeRefs[x] : x \in injected}) \subseteq UNION {PostludeRefs[x] : x \in injected'}
    BY <2>1
  <2>3. CompleteRefs' = (UNION {T[n].refs : n \in KeptRules}) \cup (UNION {PostludeRefs[x] : x \in injected'})
    BY <1>1 DEF CompleteRefs
  <2> QED  BY <2>2, <2>3 DEF CompleteRefs
<1>4. Undefined' \subseteq CompleteRefs' \ (Defined(T) \cup Postlude)'
  BY <1>1, <1>2, <1>3, ReferenceNames DEF Scanned, Foreign
<1>5. ASSUME phase' \in {"unused", "done"}
      PROVE  CompleteRefs' \subseteq (Defined(T) \cup Sockets \cup injected \cup Excused \cup Undefined)'
  <2>1. injected' = injected /\ Foreign \cap Postlude \subseteq injected
    BY <1>5 DEF Inject
  <2>2. CompleteRefs' = CompleteRefs
    BY <1>1, <2>1 DEF CompleteRefs
  <2> QED  BY <1>1, <1>2, <2>1, <2>2 DEF Foreign
<1>6. phase' \in {"unused", "inject"}
  BY DEF Inject
<1> QED  BY <1>4, <1>5, <1>6 DEF Scanned

(* The injection accounts for every reference of the finished document,    *)
(* and calls a name undefined only if neither the source nor the postlude  *)
(* defines it.                                                             *)
THEOREM EveryReferenceAccounted == Spec => []ReferencesAccounted
<1>1. Init => Scanned
  BY DEF Init, Scanned, Undefined
<1>2. TypeOK /\ Scanned /\ [Next]_vars => Scanned'
  <2> SUFFICES ASSUME TypeOK, Scanned, [Next]_vars PROVE Scanned'
    OBVIOUS
  <2>1. CASE Inject
    BY <2>1, ScanInject
  <2>2. CASE ~Inject
    <3>1. Undefined' = Undefined
      BY <2>2, OthersReportNoName
    <3>2. doc' = doc /\ T' = T /\ injected' = injected /\ Excused' = Excused
      BY <2>2 DEF Next, Visit, Prune, PassBy, First, LeaveBoth, Collide, Advance, Apply, Declare,
                  Unused, vars, T, Excused
    <3>3. CASE phase \in {"reach", "strength", "declare"}
      <4>1. phase' \notin {"unused", "done"}
        BY <2>2, <3>3 DEF Next, Visit, Prune, PassBy, First, LeaveBoth, Collide, Advance, Apply,
                          Declare, Unused, vars
      <4> QED  BY <3>1, <3>3, <4>1 DEF Scanned
    <3>4. CASE phase \notin {"reach", "strength", "declare"}
      <4>1. /\ kept' = kept /\ (phase' \in {"unused", "done"} => phase \in {"unused", "done"})
            /\ phase' \notin {"reach", "strength", "declare"}
        BY <2>2, <3>4 DEF Next, Visit, Prune, PassBy, First, LeaveBoth, Collide, Advance, Apply,
                          Declare, Unused, Walking, vars
      <4>2. CompleteRefs' = CompleteRefs
        BY <3>2, <4>1 DEF CompleteRefs, KeptRules
      <4> QED  BY <3>1, <3>2, <4>1, <4>2 DEF Scanned
    <3> QED  BY <3>3, <3>4
  <2> QED  BY <2>1, <2>2
<1>3. Scanned => ReferencesAccounted
  BY DEF Scanned, ReferencesAccounted, Undefined
<1> QED  BY <1>1, <1>2, <1>3, TypeCorrect, PTL DEF Spec
--------------------------------------------------------------------------------
(* Reachability visits what is closed and least: the work list holds what  *)
(* is still to come, and every closed set holds both.                      *)
Reaching ==
  /\ phase # "reach" => work = {}
  /\ Roots(T) \subseteq reached \cup work
  /\ \A x \in reached : References(T, x) \cap Defined(T) \subseteq reached \cup work
  /\ \A S \in SUBSET Names : Closed(S) => reached \cup work \subseteq S

LEMMA AlwaysReaching == Spec => []Reaching
<1>1. Init => Reaching
  BY DEF Init, Reaching, Closed
<1>2. Reaching /\ [Next]_vars => Reaching'
  <2> SUFFICES ASSUME Reaching, [Next]_vars PROVE Reaching'
    OBVIOUS
  <2>1. CASE Visit
    <3>0. T' = T /\ phase' = phase /\ phase = "reach"
      BY <2>1 DEF Visit, T
    <3>1. PICK x \in work :
            /\ reached' = reached \cup {x}
            /\ work' = (work \cup (References(T, x) \cap Defined(T))) \ reached'
      BY <2>1 DEF Visit
    <3>2. reached' \cup work' = reached \cup work \cup (References(T, x) \cap Defined(T))
      BY <3>1
    <3>3. \A S \in SUBSET Names : Closed(S)' = Closed(S)
      BY <3>0 DEF Closed
    <3>4. \A S \in SUBSET Names : Closed(S) => reached' \cup work' \subseteq S
      BY <3>1, <3>2 DEF Reaching, Closed
    <3>5. \A y \in reached' : References(T, y) \cap Defined(T) \subseteq reached' \cup work'
      BY <3>1, <3>2 DEF Reaching
    <3> QED  BY <3>0, <3>2, <3>3, <3>4, <3>5 DEF Reaching
  <2>2. CASE ~Visit
    <3>1. /\ doc' = doc /\ work' = work /\ reached' = reached
          /\ phase' # "reach" => phase # "reach" \/ work = {}
      BY <2>2 DEF Next, Prune, PassBy, First, LeaveBoth, Collide, Advance, Apply, Declare, Inject,
                  Unused, vars
    <3> QED  BY <3>1 DEF Reaching, Closed, T
  <2> QED  BY <2>1, <2>2
<1> QED  BY <1>1, <1>2, PTL DEF Spec

(* The set of reached names does not depend on the order of the work list: *)
(* it is the least closed one.                                             *)
THEOREM ReachedLeast == Spec => []ReachedExactly
<1>1. Reaching => ReachedExactly
  BY DEF Reaching, ReachedExactly, Closed
<1> QED  BY <1>1, AlwaysReaching, PTL
--------------------------------------------------------------------------------
(* Until the passes are over, only the injection injects, and only what    *)
(* every sufficient part of the postlude has.                              *)
Injecting ==
  /\ phase \in {"reach", "strength", "declare"} => injected = {}
  /\ phase \in {"unused", "done"} => Suffices(injected)
  /\ phase \in {"inject", "unused", "done"} =>
       \A S \in SUBSET Postlude : Suffices(S) => injected \subseteq S

(* The injection injects the least part of the postlude that suffices.     *)
THEOREM InjectedLeast == Spec => []InjectedExactly
<1>1. Init => Injecting
  BY DEF Init, Injecting
<1>2. Injecting /\ [Next]_vars => Injecting'
  <2> SUFFICES ASSUME Injecting, [Next]_vars PROVE Injecting'
    OBVIOUS
  <2>1. CASE Inject
    <3>0. T' = T /\ KeptRules' = KeptRules /\ phase = "inject" /\ phase' \in {"inject", "unused"}
          /\ injected' = injected \cup (Foreign \cap Postlude)
      BY <2>1 DEF Inject, T, KeptRules
    <3>1. Foreign \cap Postlude = CompleteRefs \cap (Postlude \ Defined(T))
      BY PostludeAssumption DEF Foreign
    <3>2. \A S \in SUBSET Postlude : Suffices(S)' = Suffices(S)
      BY <3>0 DEF Suffices
    <3>3. ASSUME NEW S \in SUBSET Postlude, Suffices(S) PROVE injected' \subseteq S
      <4>1. injected \subseteq S
        BY <3>0, <3>3 DEF Injecting
      <4>2. (UNION {PostludeRefs[x] : x \in injected}) \subseteq UNION {PostludeRefs[x] : x \in S}
        BY <4>1
      <4>3. CompleteRefs \cap (Postlude \ Defined(T)) \subseteq S
        BY <3>3, <4>2 DEF CompleteRefs, Suffices
      <4> QED  BY <3>0, <3>1, <4>1, <4>3
    <3>4. ASSUME phase' = "unused" PROVE Suffices(injected)'
      <4>1. injected' = injected /\ Foreign \cap Postlude \subseteq injected
        BY <2>1, <3>4 DEF Inject
      <4>2. Suffices(injected)
        BY <3>1, <4>1 DEF CompleteRefs, Suffices
      <4> QED  BY <3>0, <4>1, <4>2 DEF Suffices
    <3> QED  BY <3>0, <3>2, <3>3, <3>4 DEF Injecting
  <2>2. CASE ~Inject
    <3>0. doc' = doc /\ injected' = injected /\ T' = T
      BY <2>2 DEF Next, Visit, Prune, PassBy, First, LeaveBoth, Collide, Advance, Apply, Declare,
                  Unused, vars, T
    <3>1. CASE phase' \in {"reach", "strength", "declare"}
      <4>1. phase \in {"reach", "strength", "declare"}
        BY <2>2, <3>1 DEF Next, Visit, Prune, PassBy, First, LeaveBoth, Collide, Advance, Apply,
                          Declare, Unused, Walking, vars
      <4> QED  BY <3>0, <3>1, <4>1 DEF Injecting
    <3>2. CASE Declare
      <4>1. phase = "declare" /\ phase' = "inject"
        BY <3>2 DEF Declare
      <4> QED  BY <3>0, <4>1 DEF Injecting
    <3>3. CASE phase' \notin {"reach", "strength", "declare"} /\ ~Declare
      <4>1. /\ kept' = kept /\ (phase' \in {"unused", "done"} => phase \in {"unused", "done"})
            /\ phase' \in {"inject", "unused", "done"} => phase \in {"inject", "unused", "done"}
        BY <2>2, <3>3 DEF Next, Visit, Prune, PassBy, First, LeaveBoth, Collide, Advance, Apply,
                          Unused, Walking, vars
      <4>2. \A S : Suffices(S)' = Suffices(S)
        BY <3>0, <4>1 DEF Suffices, KeptRules
      <4>3. Suffices(injected)' = Suffices(injected)
        BY <3>0, <4>1 DEF Suffices, KeptRules
      <4> QED  BY <3>0, <3>3, <4>1, <4>2, <4>3 DEF Injecting
    <3> QED  BY <3>1, <3>2, <3>3
  <2> QED  BY <2>1, <2>2
<1>3. Injecting => InjectedExactly
  BY DEF Injecting, InjectedExactly
<1> QED  BY <1>1, <1>2, <1>3, PTL DEF Spec
--------------------------------------------------------------------------------
(* Why a node is gone, and why a key is marked for pruning.                *)
Overruled(m) ==
  T[m].prunable /\ \E k \in Rules(T) : /\ T[k].name = T[m].name /\ ~T[k].prunable
                                        /\ Key(T[k]) # Key(T[m])
Explained(key) ==
  \E m \in Rules(T) :
    /\ Key(T[m]) = key
    /\ Overruled(m) \/ \E code \in {"W001", "E014"} : <<code, m>> \in reports
SeenNamed == \A x \in Names : \A p \in Rules(T) : seen[x] = p => T[p].name = x
LossExplained ==
  /\ SeenNamed
  /\ phase = "reach" => kept = Nodes /\ drop = {}
  /\ phase \in {"strength", "declare"} => \A key \in drop : Explained(key)
  /\ phase = "strength" =>
       \A n \in Nodes \ kept : \E m \in T[n].above \cup {n} : Unreached(m)
  /\ phase = "declare" =>
       \A n \in Nodes \ kept : \E m \in T[n].above \cup {n} : Unreached(m) \/ Dropped(m)

(* A step of the walk adds at most one key, of a definition that gives way *)
(* to a strong one or gets a diagnostic.                                   *)
LEMMA CollideExplains == ASSUME TypeOK, LossExplained, Collide
                         PROVE  \A key \in drop' : Explained(key)'
<1> DEFINE mixed == T[Previous].prunable # T[at].prunable
           overruled == mixed /\ T[Previous].prunable
           loser == IF overruled THEN Previous ELSE at
           code == IF T[Previous].sig = T[at].sig THEN "W001" ELSE "E014"
<1>1. T' = T /\ phase = "strength" /\ at \in Rules(T) /\ Previous # 0
  BY DEF Collide, Advance, T, Walking, Rival, Site
<1>2. T \in Tree /\ T[at].name \in Names
  BY <1>1, RuleNodes DEF TypeOK, Document, T
<1>3. Previous \in Rules(T)
  BY <1>1, <1>2 DEF TypeOK, Previous
<1>4. T[at].prunable \in BOOLEAN /\ T[Previous].prunable \in BOOLEAN
  BY <1>1, <1>2, <1>3, RuleNodes DEF Rule
<1>5. /\ drop' = drop \cup {Key(T[loser])}
      /\ reports' = IF mixed THEN reports ELSE reports \cup {<<code, at>>}
  BY DEF Collide
<1>6. reports \subseteq reports'
  BY <1>5
<1>7. ASSUME NEW key, Explained(key) PROVE Explained(key)'
  BY <1>1, <1>6, <1>7 DEF Explained, Overruled
<1>8. loser \in Rules(T)
  BY <1>1, <1>3
<1>9. Overruled(loser) \/ <<code, loser>> \in reports'
  <2>1. T[Previous].name = T[at].name /\ Key(T[Previous]) # Key(T[at])
    BY <1>2, <1>3 DEF LossExplained, SeenNamed, Collide, Rival, Previous
  <2> QED  BY <1>1, <1>3, <1>4, <1>5, <2>1 DEF Overruled
<1>10. code \in {"W001", "E014"}
  OBVIOUS
<1>11. PICK l \in Rules(T), c \in {"W001", "E014"} :
         drop' = drop \cup {Key(T[l])} /\ (Overruled(l) \/ <<c, l>> \in reports')
  <2> HIDE DEF loser, code
  <2> QED  BY <1>5, <1>8, <1>9, <1>10
<1>12. \A key \in drop : Explained(key)
  BY <1>1 DEF LossExplained
<1>13. ASSUME NEW key \in drop' PROVE Explained(key)'
  <2>1. CASE key \in drop
    BY <2>1, <1>7, <1>12
  <2>2. CASE key = Key(T[l])
    BY <2>2, <1>1, <1>11 DEF Explained, Overruled
  <2> QED  BY <1>11, <2>1, <2>2
<1> QED  BY <1>13

LEMMA AlwaysExplained == Spec => []LossExplained
<1>1. Init => LossExplained
  <2> SUFFICES ASSUME Init PROVE LossExplained
    OBVIOUS
  <2>1. T \in Tree
    BY DocumentAssumption DEF Init, Document, T
  <2>2. \A p \in Rules(T) : p # 0
    BY <2>1, TreeNames
  <2> QED  BY <2>2 DEF Init, LossExplained, SeenNamed
<1>2. TypeOK /\ LossExplained /\ [Next]_vars => LossExplained'
  <2> SUFFICES ASSUME TypeOK, LossExplained, [Next]_vars PROVE LossExplained'
    OBVIOUS
  <2>0. SeenNamed'
    <3>1. T' = T /\ T \in Tree
      BY DEF TypeOK, Document, Next, Visit, Prune, PassBy, First, LeaveBoth, Collide, Advance, Apply,
             Declare, Inject, Unused, vars, T
    <3>2. seen' = seen \/ (seen' = [seen EXCEPT ![T[at].name] = at])
      BY DEF Next, Visit, Prune, PassBy, First, LeaveBoth, Collide, Apply, Declare, Inject, Unused,
             walk, vars
    <3>3. \A x \in Names : seen'[x] = seen[x] \/ (seen'[x] = at /\ x = T[at].name)
      BY <3>2 DEF TypeOK
    <3> QED  BY <3>1, <3>3 DEF LossExplained, SeenNamed
  <2>1. CASE Visit
    BY <2>0, <2>1 DEF LossExplained, Visit, walk, T, Nodes
  <2>2. CASE Prune
    <3>1. \A n \in Nodes \ kept' : \E m \in T[n].above \cup {n} : Unreached(m)
      BY <2>2 DEF Prune
    <3>2. T' = T /\ reached' = reached /\ drop' = {} /\ phase' = "strength"
      BY <2>2 DEF LossExplained, Prune, walk, T
    <3> QED  BY <2>0, <3>1, <3>2 DEF LossExplained, Unreached, Nodes
  <2>3. CASE PassBy \/ First \/ LeaveBoth
    <3>1. /\ doc' = doc /\ phase' = phase /\ phase = "strength" /\ reached' = reached
          /\ kept' = kept /\ drop' = drop /\ reports' = reports
      BY <2>3 DEF PassBy, First, LeaveBoth, Advance, Walking
    <3> QED  BY <2>0, <3>1 DEF LossExplained, Explained, Overruled, Unreached, Nodes, T
  <2>4. CASE Collide
    <3>1. /\ T' = T /\ phase' = phase /\ phase = "strength" /\ reached' = reached /\ kept' = kept
      BY <2>4 DEF Collide, Advance, Walking, T
    <3> QED  BY <2>0, <2>4, <3>1, CollideExplains DEF LossExplained, Unreached, Nodes
  <2>5. CASE Apply
    <3>1. /\ T' = T /\ phase' = "declare" /\ phase = "strength" /\ reached' = reached
          /\ drop' = drop /\ reports' = reports
      BY <2>5 DEF Apply, walk, T
    <3>2. \A n \in Nodes \ kept' : \E m \in T[n].above \cup {n} : Unreached(m) \/ Dropped(m)
      BY <2>5, <3>1 DEF Apply, LossExplained
    <3> QED  BY <2>0, <3>1, <3>2 DEF LossExplained, Explained, Overruled, Unreached, Dropped, Nodes
  <2>6. CASE Declare \/ Inject \/ Unused
    <3>1. phase' \notin {"reach", "strength", "declare"}
      BY <2>6 DEF Declare, Inject, Unused
    <3> QED  BY <2>0, <3>1 DEF LossExplained
  <2>7. CASE UNCHANGED vars
    BY <2>0, <2>7 DEF LossExplained, Explained, Overruled, Unreached, Dropped, Nodes, T, vars
  <2> QED  BY <2>1, <2>2, <2>3, <2>4, <2>5, <2>6, <2>7 DEF Next
<1> QED  BY <1>1, <1>2, TypeCorrect, PTL DEF Spec

(* A definition that must not be pruned is lost without a diagnostic only  *)
(* below a rule line that is lost, or when a copy of it may be pruned and  *)
(* gives way to another definition that must not be: the strength walk     *)
(* compares the copy, and prunes both.                                     *)
THEOREM LossReported == Spec => []NoSilentLoss
<1>1. TypeOK /\ LossExplained => NoSilentLoss
  <2> SUFFICES ASSUME TypeOK, LossExplained, Resolved,
                      NEW n \in Rules(T), ~T[n].prunable, n \notin kept, ~LostBelow(n)
               PROVE  \/ Noted(n)
                      \/ /\ Twofold(n)
                         /\ \E k \in Rules(T) : /\ T[k].name = T[n].name /\ ~T[k].prunable
                                                 /\ Key(T[k]) # Key(T[n])
    BY DEF NoSilentLoss
  <2>1. n \in Nodes
    BY DEF Nodes, Rules
  <2>2. Unreached(n) \/ Dropped(n)
    BY <2>1 DEF LossExplained, Resolved, LostBelow
  <2>3. Key(T[n]) \in drop
    BY <2>2 DEF Unreached, Dropped
  <2>4. PICK m \in Rules(T) :
          /\ Key(T[m]) = Key(T[n])
          /\ Overruled(m) \/ \E code \in {"W001", "E014"} : <<code, m>> \in reports
    BY <2>3 DEF LossExplained, Resolved, Explained
  <2>5. m \in Copies(n)
    BY <2>4 DEF Copies
  <2>6. CASE Overruled(m)
    <3>1. T[m].name = T[n].name
      BY <2>4 DEF Key
    <3>2. T[m].prunable # T[n].prunable
      BY <2>6 DEF Overruled
    <3> QED  BY <2>4, <2>5, <2>6, <3>1, <3>2 DEF Overruled, Twofold
  <2>7. CASE \E code \in {"W001", "E014"} : <<code, m>> \in reports
    BY <2>5, <2>7 DEF Noted
  <2> QED  BY <2>4, <2>6, <2>7
<1> QED  BY <1>1, AlwaysExplained, TypeCorrect, PTL
--------------------------------------------------------------------------------
(* The strength walk.  Survived is what reachability leaves; Seen is what  *)
(* a definition has been compared with, or is itself.                      *)
Survived == {n \in Nodes : \A m \in T[n].above \cup {n} : ~Unreached(m)}
Seen(n) == seen[T[n].name]
Walked(n) == n < at /\ Compared(n)
Reported(n) == \E k \in Rules(T) : T[k].name = T[n].name /\ <<"E014", k>> \in reports

WeakCopy(n) == \E k \in Copies(n) : T[k].prunable

(* What is known of a dropped definition n of a name, with s the one seen: *)
(* it is s itself only if a weak copy of it was dropped before.            *)
DroppedFor(n, s) ==
  /\ T[s].prunable => Key(T[n]) # Key(T[s])
  /\ T[s].prunable \/ Key(T[n]) = Key(T[s]) => Noted(n) /\ WeakCopy(n)
DroppedExplained ==
  \A n \in Rules(T) : Dropped(n) => Seen(n) # 0 /\ DroppedFor(n, Seen(n))

(* What is known of a definition n of the surface that has been walked.    *)
Settled(n, s) ==
  /\ Key(T[n]) = Key(T[s]) \/ Dropped(n)
  /\ T[s].prunable => T[n].prunable \/ Key(T[n]) = Key(T[s])
  /\ T[n].prunable = T[s].prunable /\ (T[n].prunable \/ ~Twofold(n)) =>
       T[n].sig = T[s].sig \/ Reported(n)
WalkedSettled ==
  \A n \in Rules(T) : Walked(n) =>
    Seen(n) # 0 /\ (OnSurface(T[n].name) => Settled(n, Seen(n)))

SeenWalked ==
  \A x \in Names : \A p \in Rules(T) : seen[x] = p => T[p].name = x /\ Walked(p)

WalkInv ==
  /\ phase = "reach" => at = 1 /\ skipped = {} /\ drop = {} /\ \A x \in Names : seen[x] = 0
  /\ phase = "strength" => kept = Survived
  /\ phase = "declare" => at \notin Nodes /\ \A n \in kept : ~Dropped(n)
  /\ phase \in {"strength", "declare"} => DroppedExplained /\ WalkedSettled /\ SeenWalked
LEMMA RuleFacts ==
  ASSUME TypeOK
  PROVE  /\ T \in Tree /\ Nodes = 1..Len(T) /\ Len(T) \in Nat /\ Rules(T) \subseteq Nodes
         /\ \A n \in Nodes : \A m \in T[n].above : m \in Nat /\ m < n
         /\ \A n \in Rules(T) : /\ n \in Nat /\ n >= 1 /\ T[n].name \in Names
                                /\ T[n].prunable \in BOOLEAN
         /\ \A m, n \in Rules(T) : Key(T[m]) = Key(T[n]) =>
              T[m].sig = T[n].sig /\ T[m].refs = T[n].refs /\ T[m].name = T[n].name
         /\ at \in Nat /\ \A x \in Names : seen[x] # 0 => seen[x] \in Rules(T)
<1>1. T \in Tree
  BY DEF TypeOK, Document, T
<1>2. DOMAIN T = 1..Len(T) /\ Len(T) \in Nat /\ Rules(T) \subseteq DOMAIN T
  BY <1>1, TreeNames
<1>3. \A n \in DOMAIN T : T[n].above \subseteq 1..(n - 1)
  BY <1>1 DEF Tree
<1>4. \A n \in DOMAIN T : \A m \in T[n].above : m \in Nat /\ m < n
  BY <1>2, <1>3
<1>5. \A n \in Rules(T) : T[n].name \in Names /\ T[n].prunable \in BOOLEAN
  BY <1>1, RuleNodes DEF Rule
<1>6. \A m, n \in Rules(T) : Key(T[m]) = Key(T[n]) =>
              T[m].sig = T[n].sig /\ T[m].refs = T[n].refs /\ T[m].name = T[n].name
  BY <1>1 DEF Tree, Key
<1>7. at \in Nat /\ \A x \in Names : seen[x] # 0 => seen[x] \in Rules(T)
  BY <1>2 DEF TypeOK, Nodes
<1>. QED BY <1>1, <1>2, <1>4, <1>5, <1>6, <1>7 DEF Nodes

(* What a step of the walk leaves alone, and what it walks.                *)
LEMMA WalkedNext ==
  ASSUME TypeOK, kept = Survived, PassBy \/ First \/ LeaveBoth \/ Collide
  PROVE  /\ T' = T /\ kept' = kept /\ phase' = phase /\ phase = "strength"
         /\ Survived' = Survived
         /\ \A x : OnSurface(x)' <=> OnSurface(x)
         /\ \A n \in Rules(T) : Walked(n)' <=> Walked(n) \/ (n = at /\ Site)
         /\ Site => at \in Rules(T)
<1>1. /\ doc' = doc /\ kept' = kept /\ phase' = phase /\ phase = "strength" /\ reached' = reached
      /\ at' = at + 1 /\ at \in Nodes /\ (skipped' = skipped \/ skipped' = skipped \cup Below(T, at))
  BY DEF PassBy, First, LeaveBoth, Collide, Advance, Walking
<1>2. T' = T /\ Nodes' = Nodes
  BY <1>1 DEF T, Nodes
<1>3. \A n : Unreached(n)' <=> Unreached(n)
  BY <1>1, <1>2 DEF Unreached
<1>4. Survived' = Survived
  BY <1>2, <1>3 DEF Survived
<1>6. \A x : OnSurface(x)' <=> OnSurface(x)
  BY <1>1, <1>2 DEF OnSurface, ConsumerNames, ListedNames, TopRules, Nodes
<1>7. ASSUME NEW n \in Rules(T)
      PROVE  Walked(n)' <=> Walked(n) \/ (n = at /\ Site)
  <2>1. n \in Nat /\ at \in Nat /\ n \in Nodes
    BY RuleFacts
  <2>2. n \in Below(T, at) => at < n
    BY <2>1, RuleFacts DEF Below
  <2>3. n < at + 1 => (n \in skipped' <=> n \in skipped)
    BY <1>1, <2>1, <2>2
  <2>4. Compared(n) <=> n \in (Rules(T) \cap kept) \ skipped /\ T[n].define
    BY <2>1 DEF Compared, Survived
  <2>5. Compared(n)' <=> n \notin skipped' /\ n \in kept /\ T[n].define
    BY <1>2, <1>3, <2>1 DEF Compared, Survived
  <2>6. n < at + 1 <=> n < at \/ n = at
    BY <2>1
  <2>. QED BY <1>1, <2>3, <2>4, <2>5, <2>6 DEF Walked, Site
<1>8. Site => at \in Rules(T)
  BY DEF Site
<1>. QED BY <1>1, <1>2, <1>4, <1>6, <1>7, <1>8

Strengths == DroppedExplained /\ WalkedSettled /\ SeenWalked

(* A step that drops nothing and reports nothing.                          *)
LEMMA NothingDropped ==
  ASSUME TypeOK, kept = Survived, PassBy \/ First \/ LeaveBoth
  PROVE  \A n : /\ (Dropped(n)' <=> Dropped(n)) /\ (Reported(n)' <=> Reported(n))
                /\ (Noted(n)' <=> Noted(n)) /\ (WeakCopy(n)' <=> WeakCopy(n))
                /\ (Twofold(n)' <=> Twofold(n))
<1>1. drop' = drop /\ reports' = reports
  BY DEF PassBy, First, LeaveBoth
<1>2. T' = T
  BY WalkedNext
<1>. QED BY <1>1, <1>2 DEF Dropped, Reported, Noted, WeakCopy, Twofold, Copies

(* A step that sees nothing new either.                                    *)
LEMMA WalkOn ==
  ASSUME TypeOK, kept = Survived, Strengths, PassBy \/ LeaveBoth
  PROVE  Strengths'
<1>1. seen' = seen
  BY DEF PassBy, LeaveBoth
<1>2. /\ T' = T /\ \A x : OnSurface(x)' <=> OnSurface(x)
      /\ \A n \in Rules(T) : Walked(n)' <=> Walked(n) \/ (n = at /\ Site)
  BY WalkedNext
<1>3. \A n : Seen(n)' = Seen(n)
  BY <1>1, <1>2 DEF Seen
<1>4. DroppedExplained'
  BY <1>2, <1>3, NothingDropped DEF DroppedExplained, DroppedFor, Strengths
<1>5. SeenWalked'
  BY <1>1, <1>2 DEF SeenWalked, Strengths
<1>6. Site => /\ Seen(at) # 0
              /\ OnSurface(T[at].name) =>
                   Key(T[at]) = Key(T[Seen(at)]) /\ T[at].sig = T[Seen(at)].sig
  <2> SUFFICES ASSUME Site
               PROVE  /\ Previous # 0
                      /\ OnSurface(T[at].name) =>
                           Key(T[at]) = Key(T[Previous]) /\ T[at].sig = T[Previous].sig
    BY DEF Seen, Previous
  <2>1. Previous # 0
    BY DEF PassBy, LeaveBoth, Rival
  <2>2. at \in Rules(T) /\ Previous \in Rules(T)
    BY <2>1, RuleFacts DEF Site, Previous
  <2>3. OnSurface(T[at].name) => Key(T[at]) = Key(T[Previous])
    BY <2>1 DEF PassBy, LeaveBoth, Rival, Independent
  <2>. QED BY <2>1, <2>2, <2>3, RuleFacts
<1>7. ASSUME NEW n \in Rules(T), Walked(n)'
      PROVE  Seen(n) # 0 /\ (OnSurface(T[n].name) => Settled(n, Seen(n)))
  <2>1. CASE Walked(n)
    BY <2>1 DEF WalkedSettled, Strengths
  <2>2. CASE n = at /\ Site
    BY <1>6, <2>2 DEF Settled
  <2>. QED BY <1>2, <1>7, <2>1, <2>2
<1>8. WalkedSettled'
  BY <1>2, <1>3, <1>7, NothingDropped DEF WalkedSettled, Settled
<1>. QED BY <1>4, <1>5, <1>8 DEF Strengths

LEMMA WalkFirst ==
  ASSUME TypeOK, kept = Survived, Strengths, First
  PROVE  Strengths'
<1>1. seen' = [seen EXCEPT ![T[at].name] = at] /\ Site /\ seen[T[at].name] = 0
  BY DEF First, Previous
<1>2. /\ T' = T /\ \A x : OnSurface(x)' <=> OnSurface(x)
      /\ \A n \in Rules(T) : Walked(n)' <=> Walked(n) \/ (n = at /\ Site)
      /\ at \in Rules(T)
  BY <1>1, WalkedNext
<1>4. at \in Nat /\ at >= 1 /\ T[at].name \in Names /\ seen \in [Names -> {0} \cup Rules(T)]
      /\ \A n \in Rules(T) : T[n].name \in Names
  BY <1>2, RuleFacts DEF TypeOK
<1>5. /\ seen'[T[at].name] = at
      /\ \A x \in Names : x # T[at].name => seen'[x] = seen[x]
  BY <1>1, <1>4
<1>6. \A n \in Rules(T) : /\ T[n].name = T[at].name => ~Dropped(n) /\ ~Walked(n)
                          /\ T[n].name # T[at].name => Seen(n)' = Seen(n)
  BY <1>1, <1>2, <1>4, <1>5 DEF Strengths, DroppedExplained, WalkedSettled, Seen
<1>7. DroppedExplained'
  BY <1>2, <1>6, NothingDropped DEF DroppedExplained, DroppedFor, Strengths
<1>8. SeenWalked'
  <2> SUFFICES ASSUME NEW x \in Names, NEW p \in Rules(T), seen'[x] = p
               PROVE  T[p].name = x /\ Walked(p)'
    BY <1>2 DEF SeenWalked
  <2>1. CASE x = T[at].name
    BY <1>1, <1>2, <1>5, <2>1
  <2>2. CASE x # T[at].name
    BY <1>2, <1>5, <2>2 DEF Strengths, SeenWalked
  <2>. QED BY <2>1, <2>2
<1>9. WalkedSettled'
  <2> SUFFICES ASSUME NEW n \in Rules(T), Walked(n)'
               PROVE  /\ Seen(n)' # 0
                      /\ OnSurface(T[n].name) =>
                           /\ Key(T[n]) = Key(T[Seen(n)']) \/ Dropped(n)
                           /\ T[Seen(n)'].prunable => T[n].prunable \/ Key(T[n]) = Key(T[Seen(n)'])
                           /\ T[n].prunable = T[Seen(n)'].prunable /\ (T[n].prunable \/ ~Twofold(n)) =>
                                T[n].sig = T[Seen(n)'].sig \/ Reported(n)
    BY <1>2, NothingDropped DEF WalkedSettled, Settled
  <2>1. CASE T[n].name # T[at].name
    BY <1>1, <1>2, <1>6, <2>1 DEF WalkedSettled, Settled, Strengths
  <2>2. CASE T[n].name = T[at].name
    <3>1. n = at
      BY <1>2, <1>6, <2>2
    <3>2. Seen(n)' = at /\ at # 0
      BY <1>2, <1>4, <1>5, <2>2 DEF Seen
    <3>. QED BY <3>1, <3>2
  <2>. QED BY <2>1, <2>2
<1>. QED BY <1>7, <1>8, <1>9 DEF Strengths

LEMMA WalkCollide ==
  ASSUME TypeOK, kept = Survived, Strengths, Collide
  PROVE  Strengths'
<1> DEFINE x == T[at].name
           p == seen[x]
           mixed == T[p].prunable # T[at].prunable
           overruled == mixed /\ T[p].prunable
           loser == IF overruled THEN p ELSE at
           code == IF T[p].sig = T[at].sig THEN "W001" ELSE "E014"
<1>1. /\ drop' = drop \cup {Key(T[loser])}
      /\ reports' = IF mixed THEN reports ELSE reports \cup {<<code, at>>}
      /\ seen' = IF overruled THEN [seen EXCEPT ![x] = at] ELSE seen
      /\ Site /\ p # 0 /\ Key(T[p]) # Key(T[at])
  BY DEF Collide, Rival, Previous
<1>2. /\ T' = T /\ \A y : OnSurface(y)' <=> OnSurface(y)
      /\ \A n \in Rules(T) : Walked(n)' <=> Walked(n) \/ (n = at /\ Site)
      /\ at \in Rules(T)
  BY <1>1, WalkedNext
<1>3. /\ at \in Nat /\ at >= 1 /\ x \in Names /\ p \in Rules(T)
      /\ \A n \in Rules(T) : T[n].name \in Names /\ T[n].prunable \in BOOLEAN /\ n # 0
      /\ \A m, n \in Rules(T) : Key(T[m]) = Key(T[n]) => T[m].sig = T[n].sig /\ T[m].name = T[n].name
  BY <1>1, <1>2, RuleFacts
<1>4. T[p].name = x
  BY <1>3 DEF Strengths, SeenWalked
<1>5. seen'[x] = (IF overruled THEN at ELSE p)
      /\ \A y \in Names : y # x => seen'[y] = seen[y]
  BY <1>1, <1>3 DEF TypeOK
<1>6. loser \in Rules(T) /\ T[loser].name = x
  BY <1>2, <1>3, <1>4
<1>7. \A n \in Rules(T) : Dropped(n)' <=> Dropped(n) \/ Key(T[n]) = Key(T[loser])
  BY <1>1, <1>2 DEF Dropped
<1>8. reports \subseteq reports'
  BY <1>1
<1>9. \A n : /\ Reported(n) => Reported(n)'
             /\ Noted(n) => Noted(n)'
             /\ (WeakCopy(n)' <=> WeakCopy(n)) /\ (Twofold(n)' <=> Twofold(n))
  BY <1>2, <1>8 DEF Reported, Noted, WeakCopy, Twofold, Copies
<1>10. ASSUME NEW n \in Rules(T), T[n].name # x
       PROVE  /\ Seen(n)' = Seen(n) /\ (Dropped(n)' <=> Dropped(n))
              /\ Walked(n)' <=> Walked(n)
  <2>1. Key(T[n]) # Key(T[loser])
    BY <1>3, <1>6, <1>10
  <2>2. Seen(n)' = Seen(n)
    BY <1>2, <1>3, <1>5, <1>10 DEF Seen
  <2>. QED BY <1>2, <1>7, <1>10, <2>1, <2>2
<1>11. \A n \in Rules(T) : T[n].name = x => Seen(n) = p /\ Seen(n)' = (IF overruled THEN at ELSE p)
  BY <1>2, <1>5 DEF Seen
<1>12. /\ overruled <=> T[p].prunable /\ ~T[at].prunable
       /\ mixed <=> T[p].prunable # T[at].prunable
       /\ loser = (IF overruled THEN p ELSE at)
       /\ at # 0
  BY <1>2, <1>3
<1>13. ~mixed => /\ T[p].sig = T[at].sig \/ <<"E014", at>> \in reports'
                 /\ \E c \in {"W001", "E014"} : <<c, at>> \in reports'
  BY <1>1
<1> HIDE DEF loser, overruled, mixed, code, p, x
<1>14. ASSUME NEW n \in Rules(T), T[n].name = x, Dropped(n)'
       PROVE  /\ Seen(n)' # 0
              /\ T[Seen(n)'].prunable => Key(T[n]) # Key(T[Seen(n)'])
              /\ T[Seen(n)'].prunable \/ Key(T[n]) = Key(T[Seen(n)']) => Noted(n)' /\ WeakCopy(n)
  <2>1. CASE Key(T[n]) = Key(T[loser]) /\ overruled
    BY <1>1, <1>2, <1>3, <1>11, <1>12, <1>14, <2>1
  <2>2. CASE Key(T[n]) = Key(T[loser]) /\ ~overruled
    <3>1. Key(T[n]) = Key(T[at]) /\ Seen(n)' = p /\ Key(T[n]) # Key(T[p])
      BY <1>1, <1>11, <1>12, <1>14, <2>2
    <3>2. ASSUME T[p].prunable PROVE Noted(n)' /\ WeakCopy(n)
      <4>1. T[at].prunable /\ ~mixed
        BY <1>2, <1>3, <1>12, <2>2, <3>2
      <4>2. at \in Copies(n) /\ at \in Copies(n)'
        BY <1>2, <3>1 DEF Copies
      <4>. QED BY <1>13, <4>1, <4>2 DEF Noted, WeakCopy
    <3>. QED BY <1>1, <3>1, <3>2
  <2>3. CASE Dropped(n)
    <3>1. /\ p # 0 /\ (T[p].prunable => Key(T[n]) # Key(T[p]))
          /\ T[p].prunable \/ Key(T[n]) = Key(T[p]) => Noted(n) /\ WeakCopy(n)
      BY <1>11, <1>14, <2>3 DEF Strengths, DroppedExplained, DroppedFor
    <3>. QED BY <1>2, <1>3, <1>9, <1>11, <1>12, <1>14, <3>1
  <2>. QED BY <1>7, <1>14, <2>1, <2>2, <2>3
<1>15. DroppedExplained'
  <2> SUFFICES ASSUME NEW n \in Rules(T), Dropped(n)'
               PROVE  /\ Seen(n)' # 0
                      /\ T[Seen(n)'].prunable => Key(T[n]) # Key(T[Seen(n)'])
                      /\ T[Seen(n)'].prunable \/ Key(T[n]) = Key(T[Seen(n)']) => Noted(n)' /\ WeakCopy(n)
    BY <1>2, <1>9 DEF DroppedExplained, DroppedFor
  <2>1. CASE T[n].name # x
    BY <1>9, <1>10, <2>1 DEF Strengths, DroppedExplained, DroppedFor
  <2>. QED BY <1>14, <2>1
<1>16. SeenWalked'
  <2> SUFFICES ASSUME NEW y \in Names, NEW q \in Rules(T), seen'[y] = q
               PROVE  T[q].name = y /\ Walked(q)'
    BY <1>2 DEF SeenWalked
  <2>1. CASE y # x \/ q = p
    <3>1. CASE y # x
      BY <1>2, <1>5, <3>1 DEF Strengths, SeenWalked
    <3>2. CASE y = x /\ q = p
      BY <1>2, <1>3, <3>2 DEF Strengths, SeenWalked, p
    <3>. QED BY <2>1, <3>1, <3>2, <1>4, <1>3, <1>2 DEF Strengths, SeenWalked, p
  <2>2. CASE y = x /\ q = at
    BY <1>1, <1>2, <2>2 DEF x
  <2>. QED BY <1>5, <2>1, <2>2
<1>17. ASSUME NEW n \in Rules(T), T[n].name = x, Walked(n)', OnSurface(x)
       PROVE  /\ Key(T[n]) = Key(T[Seen(n)']) \/ Dropped(n)'
              /\ T[Seen(n)'].prunable => T[n].prunable \/ Key(T[n]) = Key(T[Seen(n)'])
              /\ T[n].prunable = T[Seen(n)'].prunable /\ (T[n].prunable \/ ~Twofold(n)) =>
                   T[n].sig = T[Seen(n)'].sig \/ Reported(n)'
  <2>1. CASE n = at
    <3>1. Key(T[n]) = Key(T[Seen(n)']) \/ Dropped(n)'
      BY <1>7, <1>11, <1>12, <1>17, <2>1
    <3>2. <<"E014", at>> \in reports' => Reported(n)'
      BY <1>2, <2>1 DEF Reported
    <3>. QED BY <1>3, <1>11, <1>12, <1>13, <1>17, <2>1, <3>1, <3>2
  <2>2. CASE Walked(n)
    <3>1. /\ Key(T[n]) = Key(T[p]) \/ Dropped(n)
          /\ T[p].prunable => T[n].prunable \/ Key(T[n]) = Key(T[p])
          /\ T[n].prunable = T[p].prunable /\ (T[n].prunable \/ ~Twofold(n)) =>
               T[n].sig = T[p].sig \/ Reported(n)
      BY <1>11, <1>17, <2>2 DEF Strengths, WalkedSettled, Settled
    <3>3. CASE ~overruled
      BY <1>7, <1>9, <1>11, <1>17, <3>1, <3>3
    <3>4. CASE overruled
      <4>1. Dropped(n)'
        BY <1>7, <1>12, <3>1, <3>4
      <4>2. Seen(n)' = at /\ ~T[at].prunable /\ T[p].prunable
        BY <1>11, <1>12, <1>17, <3>4
      <4>3. T[n].prunable \/ Twofold(n)
        <5>1. Key(T[n]) = Key(T[p]) => p \in Copies(n)
          BY <1>3 DEF Copies
        <5>. QED BY <1>3, <3>1, <4>2, <5>1 DEF Twofold
      <4>. QED BY <4>1, <4>2, <4>3
    <3>. QED BY <3>3, <3>4
  <2>. QED BY <1>2, <1>17, <2>1, <2>2
<1>18. WalkedSettled'
  <2> SUFFICES ASSUME NEW n \in Rules(T), Walked(n)'
               PROVE  /\ Seen(n)' # 0
                      /\ OnSurface(T[n].name) =>
                           /\ Key(T[n]) = Key(T[Seen(n)']) \/ Dropped(n)'
                           /\ T[Seen(n)'].prunable => T[n].prunable \/ Key(T[n]) = Key(T[Seen(n)'])
                           /\ T[n].prunable = T[Seen(n)'].prunable /\ (T[n].prunable \/ ~Twofold(n)) =>
                                T[n].sig = T[Seen(n)'].sig \/ Reported(n)'
    BY <1>2, <1>9 DEF WalkedSettled, Settled
  <2>1. CASE T[n].name # x
    BY <1>9, <1>10, <2>1 DEF Strengths, WalkedSettled, Settled
  <2>2. CASE T[n].name = x
    <3>1. Seen(n)' # 0
      BY <1>1, <1>11, <1>12, <2>2
    <3>. QED BY <1>17, <2>2, <3>1
  <2>. QED BY <2>1, <2>2
<1>. QED BY <1>15, <1>16, <1>18 DEF Strengths

LEMMA AlwaysWalked == Spec => []WalkInv
<1>1. Init => WalkInv
  BY DEF Init, WalkInv
<1>2. TypeOK /\ WalkInv /\ [Next]_vars => WalkInv'
  <2> SUFFICES ASSUME TypeOK, WalkInv, [Next]_vars PROVE WalkInv'
    OBVIOUS
  <2>1. CASE Visit
    BY <2>1 DEF Visit, WalkInv, walk
  <2>2. CASE Prune
    <3>1. /\ phase' = "strength" /\ T' = T /\ at' = 1 /\ skipped' = {} /\ drop' = {} /\ reached' = reached
          /\ seen' = seen /\ \A x \in Names : seen[x] = 0
          /\ kept' = Survived
      BY <2>2 DEF Prune, WalkInv, walk, T, Survived
    <3>2. \A n \in Rules(T) : n \in Nat /\ n >= 1 /\ n # 0 /\ ~(n < 1)
      BY RuleFacts
    <3>3. DroppedExplained' /\ WalkedSettled'
      BY <3>1, <3>2 DEF DroppedExplained, WalkedSettled, Dropped, Walked
    <3>4. SeenWalked'
      BY <3>1, <3>2 DEF SeenWalked
    <3>5. Survived' = Survived
      BY <3>1 DEF Survived, Unreached, Nodes
    <3>. QED BY <3>1, <3>3, <3>4, <3>5 DEF WalkInv
  <2>3. CASE PassBy \/ First \/ LeaveBoth \/ Collide
    <3>1. phase = "strength"
      BY <2>3 DEF PassBy, First, LeaveBoth, Collide, Walking
    <3>2. kept = Survived /\ Strengths
      BY <3>1 DEF WalkInv, Strengths
    <3>3. kept' = kept /\ phase' = "strength" /\ Survived' = Survived
      BY <2>3, <3>1, <3>2, WalkedNext
    <3>4. Strengths'
      BY <2>3, <3>2, WalkOn, WalkFirst, WalkCollide
    <3>. QED BY <3>2, <3>3, <3>4 DEF WalkInv, Strengths
  <2>4. CASE Apply
    <3>1. /\ T' = T /\ Nodes' = Nodes /\ phase = "strength" /\ phase' = "declare" /\ kept' \subseteq kept
          /\ at \notin Nodes /\ at' = at /\ skipped' = skipped /\ seen' = seen /\ drop' = drop
          /\ reports' = reports /\ reached' = reached
      BY <2>4 DEF Apply, walk, T, Nodes
    <3>2. kept = Survived /\ Strengths
      BY <3>1 DEF WalkInv, Strengths
    <3>3. /\ \A n : Unreached(n)' <=> Unreached(n)
          /\ \A n : Dropped(n)' <=> Dropped(n)
          /\ \A n : Seen(n)' = Seen(n)
          /\ \A n : (Reported(n)' <=> Reported(n)) /\ (Noted(n)' <=> Noted(n))
          /\ \A n : (WeakCopy(n)' <=> WeakCopy(n)) /\ (Twofold(n)' <=> Twofold(n))
      BY <3>1 DEF Unreached, Dropped, Seen, Reported, Noted, WeakCopy, Twofold, Copies
    <3>4. \A n : Walked(n)' <=> Walked(n)
      BY <3>1, <3>3 DEF Walked, Compared
    <3>6. \A x : OnSurface(x)' => OnSurface(x)
      BY <3>1 DEF OnSurface, ConsumerNames, ListedNames, TopRules
    <3>7. DroppedExplained => DroppedExplained'
      BY <3>1, <3>3 DEF DroppedExplained, DroppedFor
    <3>8. SeenWalked => SeenWalked'
      BY <3>1, <3>4 DEF SeenWalked
    <3>9. WalkedSettled => WalkedSettled'
      BY <3>1, <3>3, <3>4, <3>6 DEF WalkedSettled, Settled
    <3>10. \A n \in kept' : ~Dropped(n)
      BY <2>4 DEF Apply
    <3>. QED BY <3>1, <3>2, <3>3, <3>7, <3>8, <3>9, <3>10 DEF WalkInv, Strengths
  <2>5. CASE Declare \/ Inject \/ Unused
    <3>1. phase' \notin {"reach", "strength", "declare"}
      BY <2>5 DEF Declare, Inject, Unused
    <3>. QED BY <3>1 DEF WalkInv
  <2>6. CASE UNCHANGED vars
    <3>1. Survived' = Survived /\ Nodes' = Nodes
      BY <2>6 DEF vars, Survived, Unreached, Nodes, T
    <3>3. \A x : OnSurface(x)' <=> OnSurface(x)
      BY <2>6 DEF vars, OnSurface, ConsumerNames, ListedNames, TopRules, Nodes, T
    <3>4. /\ \A n : Dropped(n)' <=> Dropped(n)
          /\ \A n : Seen(n)' = Seen(n)
          /\ \A n : (Reported(n)' <=> Reported(n)) /\ (Noted(n)' <=> Noted(n))
          /\ \A n : (WeakCopy(n)' <=> WeakCopy(n)) /\ (Twofold(n)' <=> Twofold(n))
          /\ \A n : Walked(n)' <=> Walked(n)
          /\ T' = T
      BY <2>6 DEF vars, Dropped, Seen, Walked, Compared, Unreached, Reported, Noted, WeakCopy, Twofold,
                  Copies, T
    <3>2. (DroppedExplained' <=> DroppedExplained) /\ (SeenWalked' <=> SeenWalked)
      BY <2>6, <3>4 DEF vars, DroppedExplained, DroppedFor, SeenWalked
    <3>5. WalkedSettled' <=> WalkedSettled
      BY <3>3, <3>4 DEF WalkedSettled, Settled
    <3>. QED BY <2>6, <3>1, <3>2, <3>4, <3>5 DEF WalkInv, vars
  <2>. QED BY <2>1, <2>2, <2>3, <2>4, <2>5, <2>6 DEF Next
<1>. QED BY <1>1, <1>2, TypeCorrect, PTL DEF Spec

(* What is known of a definition when the walk is over.                    *)
LEMMA WalkOver ==
  ASSUME TypeOK, WalkInv, Resolved, NEW n \in Rules(T), Compared(n), OnSurface(T[n].name)
  PROVE  /\ Seen(n) \in Rules(T) /\ T[Seen(n)].name = T[n].name /\ Compared(Seen(n))
         /\ Settled(n, Seen(n))
<1>1. WalkedSettled /\ SeenWalked /\ at \notin Nodes
  BY DEF Resolved, WalkInv
<1>2. n < at
  <2>1. n \in 1..Len(T) /\ at \notin 1..Len(T) /\ at \in 1..(Len(T) + 1) /\ Len(T) \in Nat
    BY <1>1, RuleFacts DEF TypeOK, Nodes
  <2>. QED BY <2>1
<1>3. Walked(n)
  BY <1>2 DEF Walked
<1>4. Seen(n) # 0 /\ T[n].name \in Names /\ Settled(n, Seen(n))
  BY <1>1, <1>3, RuleFacts DEF WalkedSettled
<1>5. Seen(n) \in Rules(T)
  BY <1>4, RuleFacts DEF Seen
<1>6. T[Seen(n)].name = T[n].name /\ Compared(Seen(n))
  BY <1>1, <1>4, <1>5 DEF SeenWalked, Seen, Walked
<1>. QED BY <1>4, <1>5, <1>6

LEMMA Survive ==
  ASSUME TypeOK, WalkInv, Reaching, LossExplained PROVE NamesSurvive
<1> SUFFICES ASSUME Resolved, NEW n \in KeptRules, T[n].name \in reached,
                    NEW x \in T[n].refs \cap Defined(T),
                    x \notin KeptNames, \A m \in Rules(T) : T[m].name = x => ~LostBelow(m)
             PROVE  \E m \in Rules(T) : T[m].name = x /\ Twofold(m) /\ Noted(m)
  BY DEF NamesSurvive
<1>1. x \in reached
  <2>1. n \in Rules(T)
    BY DEF KeptRules
  <2>2. x \in References(T, T[n].name) \cap Defined(T)
    BY <2>1 DEF References
  <2>. QED BY <2>2 DEF Reaching, Resolved
<1>2. PICK m \in Rules(T) : T[m].name = x
  BY DEF Defined
<1>3. ASSUME NEW k \in Rules(T), T[k].name = x PROVE Dropped(k)
  <2>1. k \notin kept /\ k \in Nodes
    BY <1>3, RuleFacts DEF KeptNames, KeptRules
  <2>2. Unreached(k) \/ Dropped(k)
    BY <1>3, <2>1 DEF LossExplained, Resolved, LostBelow
  <2>. QED BY <1>1, <1>3, <2>2 DEF Unreached
<1>4. DroppedExplained /\ SeenWalked
  BY DEF Resolved, WalkInv
<1>5. Seen(m) # 0 /\ Seen(m) \in Rules(T)
  BY <1>2, <1>3, <1>4, RuleFacts DEF DroppedExplained, Seen
<1>6. T[Seen(m)].name = x
  BY <1>2, <1>4, <1>5, RuleFacts DEF SeenWalked, Seen
<1>7. Seen(Seen(m)) = Seen(m)
  BY <1>2, <1>6 DEF Seen
<1>8. ~T[Seen(m)].prunable /\ Noted(Seen(m)) /\ WeakCopy(Seen(m))
  BY <1>3, <1>4, <1>5, <1>6, <1>7 DEF DroppedExplained, DroppedFor
<1>9. Twofold(Seen(m))
  BY <1>8 DEF WeakCopy, Twofold
<1>. QED BY <1>5, <1>6, <1>8, <1>9

LEMMA Resolve ==
  ASSUME TypeOK, WalkInv PROVE StrengthsResolved
<1> SUFFICES ASSUME Resolved, NEW m \in Rules(T), NEW n \in Rules(T), Compared(m), Compared(n),
                    OnSurface(T[m].name), OnSurface(T[n].name), T[m].name = T[n].name, n \in kept
             PROVE  /\ m \in kept => Key(T[m]) = Key(T[n])
                    /\ ~T[m].prunable => \E k \in Copies(n) : ~T[k].prunable
  BY DEF StrengthsResolved
<1>1. Seen(m) = Seen(n)
  BY DEF Seen
<1>2. \A k \in kept : ~Dropped(k)
  BY DEF Resolved, WalkInv
<1>3. Key(T[n]) = Key(T[Seen(n)]) /\ Seen(n) \in Rules(T)
  BY <1>2, WalkOver DEF Settled
<1>4. Settled(m, Seen(n))
  BY <1>1, WalkOver
<1>5. m \in kept => Key(T[m]) = Key(T[Seen(n)])
  BY <1>2, <1>4 DEF Settled
<1>6. ASSUME ~T[m].prunable PROVE \E k \in Copies(n) : ~T[k].prunable
  <2>1. CASE T[Seen(n)].prunable
    <3>1. m \in Copies(n)
      BY <1>3, <1>4, <1>6, <2>1 DEF Settled, Copies
    <3>. QED BY <1>6, <3>1
  <2>2. CASE ~T[Seen(n)].prunable
    BY <1>3, <2>2 DEF Copies
  <2>. QED BY <2>1, <2>2
<1>. QED BY <1>3, <1>5, <1>6

LEMMA Report ==
  ASSUME TypeOK, WalkInv PROVE ConflictsReported
<1> SUFFICES ASSUME Resolved, NEW m \in Rules(T), NEW n \in Rules(T), Compared(m), Compared(n),
                    OnSurface(T[m].name), OnSurface(T[n].name),
                    T[m].name = T[n].name, T[m].sig # T[n].sig,
                    \A k \in {m, n} :
                      \/ \A j \in Copies(k) : ~T[j].prunable
                      \/ \A j \in Rules(T) : Compared(j) /\ T[j].name = T[k].name => T[j].prunable
             PROVE  \E k \in Rules(T) : T[k].name = T[m].name /\ <<"E014", k>> \in reports
  BY DEF ConflictsReported
<1>1. Seen(m) = Seen(n)
  BY DEF Seen
<1>2. Seen(n) \in Rules(T) /\ T[Seen(n)].name = T[n].name /\ Compared(Seen(n))
  BY WalkOver
<1>3. ASSUME NEW k \in {m, n} PROVE T[k].sig = T[Seen(n)].sig \/ Reported(k)
  <2>1. /\ Compared(k) /\ OnSurface(T[k].name) /\ k \in Rules(T) /\ T[k].name = T[n].name
        /\ Seen(k) = Seen(n)
    BY <1>1
  <2>2. Settled(k, Seen(n))
    BY <2>1, WalkOver
  <2>3. T[k].prunable \in BOOLEAN /\ T[Seen(n)].prunable \in BOOLEAN
    BY <1>2, <2>1, RuleFacts
  <2>4. k \in Copies(k)
    BY <2>1 DEF Copies
  <2>5. CASE \A j \in Copies(k) : ~T[j].prunable
    <3>0. \A j \in Copies(k) : T[j].prunable = FALSE
      BY <2>1, <2>5, RuleFacts DEF Copies
    <3>1. ~T[k].prunable /\ ~Twofold(k)
      BY <2>4, <3>0 DEF Twofold
    <3>2. Key(T[k]) = Key(T[Seen(n)]) => Seen(n) \in Copies(k)
      BY <1>2 DEF Copies
    <3>3. ~T[Seen(n)].prunable
      BY <2>2, <2>5, <3>1, <3>2 DEF Settled
    <3>. QED BY <2>2, <2>3, <3>1, <3>3 DEF Settled
  <2>6. CASE \A j \in Rules(T) : Compared(j) /\ T[j].name = T[k].name => T[j].prunable
    <3>1. T[k].prunable /\ T[Seen(n)].prunable
      BY <1>2, <2>1, <2>6
    <3>. QED BY <2>2, <2>3, <3>1 DEF Settled
  <2>. QED BY <2>5, <2>6
<1>. QED BY <1>3 DEF Reported

(* Whatever the order of definitions, pruning and strengths leave a        *)
(* definition of every name that a reached rule refers to, unless one of   *)
(* them went with a rule line above it, or one is tagged at one place and  *)
(* not at another and has a diagnostic; of those of a name that the        *)
(* consumer uses, one place in the source with the highest strength; and a *)
(* diagnostic where equals without a weak copy differ                      *)
(* (`collect_definition_strength_actions`, which compares each definition  *)
(* with one other only).                                                   *)
THEOREM NamesAreResolved == Spec => []NamesResolved
<1>1. TypeOK /\ WalkInv /\ Reaching /\ LossExplained => NamesResolved
  BY Survive, Resolve, Report DEF NamesResolved
<1>. QED BY <1>1, TypeCorrect, AlwaysWalked, AlwaysReaching, AlwaysExplained, PTL
===============================================================================
