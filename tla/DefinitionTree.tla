----------------------------- MODULE DefinitionTree -----------------------------
(***************************************************************************)
(* The tree of definitions of a document whose includes and imports have   *)
(* been resolved (node.rs), as the finalization sees it: rule lines, and   *)
(* directives with the nodes of the module they name below them.  A        *)
(* directive that follows a rule in its file is a child of that rule line, *)
(* as the grammar attaches it.  An alias is part of the names of the rules *)
(* (`wrap_with_alias`) and of the selected names; generic templates have   *)
(* been expanded before and are left out.                                  *)
(***************************************************************************)
EXTENDS Naturals, FiniteSets, Sequences

CONSTANTS
  Names,     \* names of rules, of the postlude and of nothing at all
  Bare,      \* a name without what stands before its last dot
  Sockets,   \* the ones that begin with `$`
  Files,     \* where nodes come from
  Consumer,  \* the file that is compiled
  Signatures \* right-hand sides, up to layout

ASSUME BareAssumption == Bare \in [Names -> Names]

(* In the order of the text; `above` are the nodes that a node is below,   *)
(* `refs` the names in the right-hand side of a rule, `define` is FALSE    *)
(* for `/=` and `//=`, `prunable` is the tag `MetaData::Prunable`.  The    *)
(* names that a directive with an alias selects begin with that alias      *)
(* (`validate_directive_alias_names`).                                     *)
Rule == [kind : {"rule"}, above : SUBSET Nat, file : Files, line : Nat, name : Names,
         define : BOOLEAN, sig : Signatures, refs : SUBSET Names, prunable : BOOLEAN]
Directive == [kind : {"import", "importFrom", "include", "includeFrom"}, above : SUBSET Nat,
              file : Files, wanted : SUBSET Names, aliased : BOOLEAN]
Node == Rule \cup Directive

(* Definitions are told apart by name and place in the source: two copies  *)
(* of a module hold the same definitions.                                  *)
Key(node) == <<node.name, node.file, node.line>>

Rules(t) == {n \in DOMAIN t : t[n].kind = "rule"}
Defined(t) == {t[n].name : n \in Rules(t)}
Below(t, n) == {m \in DOMAIN t : n \in t[m].above}
Children(t, n) == {m \in Below(t, n) : \A k \in t[m].above : k <= n}
Selects(node) == node.kind \in {"importFrom", "includeFrom"}
(* `normalize_directive_name`: the selected names without the alias.       *)
Normalized(node) == IF node.aliased THEN {Bare[x] : x \in node.wanted} ELSE node.wanted

(* The tags that the resolver leaves (ModuleResolver): on what is below a  *)
(* bare import, or below a rule that a list of names does not name.  The   *)
(* walks of the finalization infer the same from the directives again.     *)
Tagged(t, n) ==
  \E d \in t[n].above :
    \/ t[d].kind = "import"
    \/ /\ Selects(t[d])
       /\ \E c \in (t[n].above \cup {n}) \cap Rules(t) \cap Children(t, d) :
            t[c].name \notin t[d].wanted

Tree == {t \in Seq(Node) : /\ \A n \in DOMAIN t : t[n].above \subseteq 1..(n - 1)
                           /\ \A n \in DOMAIN t : \A m \in t[n].above : t[m].above \subseteq t[n].above
                           /\ \A n \in Rules(t) : t[n].prunable <=> Tagged(t, n)
                           /\ \A m, n \in Rules(t) : Key(t[m]) = Key(t[n]) =>
                                t[m].sig = t[n].sig /\ t[m].refs = t[n].refs}

(* The lists of names of the `import ... from` directives n is below.  Only *)
(* the outermost counts when roots are collected.                          *)
Lists(t, n) == {d \in t[n].above : t[d].kind = "importFrom"}
Outermost(t, n) == CHOOSE d \in Lists(t, n) : \A e \in Lists(t, n) : d <= e

(* Where reachability starts: rules that may not be pruned, and what the   *)
(* rules picked by an import refer to.                                     *)
Roots(t) ==
  {t[n].name : n \in {m \in Rules(t) : Lists(t, m) = {} /\ ~t[m].prunable}}
  \cup (UNION {t[n].refs : n \in {m \in Rules(t) :
                 /\ Lists(t, m) # {}
                 /\ t[m].name \in t[Outermost(t, m)].wanted}})

(* What the rules of a name refer to, every arm of it.                     *)
References(t, x) == UNION {t[n].refs : n \in {m \in Rules(t) : t[m].name = x}}

================================================================================
