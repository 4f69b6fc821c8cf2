---------------------------- MODULE MCFinalization ----------------------------
(***************************************************************************)
(* Small documents for Finalization.  A file is written as a sequence of   *)
(* rules and directives and placed in the tree as the parser does: a       *)
(* directive that follows a rule becomes a child of it.                    *)
(***************************************************************************)
EXTENDS Finalization, SequencesExt

MCNames == {"r", "v", "x", "y", "z", "p", "q", "u", "l.x", "$s"}
MCBare == [n \in MCNames |-> IF n = "l.x" THEN "x" ELSE n]
MCSockets == {"$s"}
MCFiles == {"main", "a", "b", "c", "d"}
MCSignatures == {"s", "t"}
MCPostlude == {"p", "q"}
MCPostludeRefs == [n \in MCPostlude |-> IF n = "p" THEN {"q"} ELSE {}]
MCPostludeSig == [n \in MCPostlude |-> "s"]

Line(x, sig, refs) == [kind |-> "rule", name |-> x, define |-> TRUE, sig |-> sig, refs |-> refs]
Arm(x, refs) == [Line(x, "s", refs) EXCEPT !.define = FALSE]
Use(k, file, body, wanted) ==
  [kind |-> k, file |-> file, body |-> body, wanted |-> IF k \in {"import", "include"} THEN {} ELSE wanted]

(* The nodes of a file appended to the tree, below the nodes `outer`; a    *)
(* rule is tagged by the directives around it, which tag it all (`tag`), or *)
(* unless it is in `keep`.                                                 *)
RECURSIVE Place(_, _, _, _, _, _)
Place(tree, file, outer, body, tag, keep) ==
  FoldLeft(LAMBDA acc, item :
             LET n == Len(acc.tree) + 1
             IN IF item.kind = "rule"
                THEN LET tagged == tag \/ item.name \notin keep
                     IN [tree |-> Append(acc.tree,
                                    [kind |-> "rule", above |-> outer, file |-> file,
                                     line |-> acc.line, name |-> item.name, define |-> item.define,
                                     sig |-> item.sig, refs |-> item.refs, prunable |-> tagged]),
                         last |-> outer \cup {n}, line |-> acc.line + 1, tag |-> tagged]
                ELSE [tree |-> Place(Append(acc.tree,
                                       [kind |-> item.kind, above |-> acc.last, file |-> file,
                                        wanted |-> item.wanted, aliased |-> "l.x" \in item.wanted]),
                                     item.file, acc.last \cup {n}, item.body,
                                     acc.tag \/ item.kind = "import",
                                     IF Selects(item) THEN item.wanted ELSE Names),
                      last |-> acc.last, line |-> acc.line + 1, tag |-> acc.tag],
           [tree |-> tree, last |-> outer, line |-> 1, tag |-> tag], body).tree
Text(body) == [tree |-> Place(<<>>, "main", {}, body, FALSE, Names), library |-> FALSE, externs |-> {}]

Kinds == {"import", "include"}
Around(item, pair) == {<<item>> \o pair, <<pair[1], item, pair[2]>>, pair \o <<item>>}

(* A root, a file with two rules, and a file that it uses before, between  *)
(* or after them.                                                          *)
AFiles ==
  UNION {Around(Use(k, "b", <<yy>>, {}), <<xx, zz>>) :
    k \in Kinds,
    yy \in {Line("y", "s", {"q"}), Line("y", "s", {"x"}), Line("p", "t", {})},
    xx \in {Line("x", "s", refs) : refs \in {{}, {"y"}, {"p", "$s"}}},
    zz \in {Line("z", "s", {"y"}), Line("z", "s", {"u"}), Arm("x", {"y"}), Arm("$s", {"z"})}}
ReachTexts ==
  {Text(IF first THEN <<Use(k, "a", body, {"x"}), root>> ELSE <<root, Use(k, "a", body, {"x"})>>) :
     first \in BOOLEAN, k \in {"import", "importFrom", "include", "includeFrom"}, body \in AFiles,
     root \in {Line("r", "s", {"x"}), Line("r", "s", {"z", "p"})}}
ExternTexts ==
  {[Text(<<Line("r", "s", {"u", "p"})>>) EXCEPT !.library = l, !.externs = e] :
     l \in BOOLEAN, e \in {{}, {"u"}, {"p", "r"}}}

(* The same name in the consumer and in two files.                         *)
Own == {<<>>, <<Line("x", "s", {})>>, <<Line("x", "s", {}), Line("x", "t", {})>>}
AVersions == {<<Line("x", "s", {})>>, <<Line("x", "s", {}), Line("x", "t", {})>>,
              <<Line("v", "s", {}), Use("import", "c", <<Line("x", "t", {})>>, {})>>}
BVersions == {<<Line("x", sig, {})>> : sig \in MCSignatures}
             \cup {<<Line("v", "t", {"y"}), Use("import", "d", <<Line("x", "s", {})>>, {})>>}
StrengthTexts ==
  UNION {{Text(<<a, b, root>> \o own), Text(<<root>> \o own \o <<a, b>>), Text(own \o <<a, root, b>>)} :
    a \in {Use(k, "a", body, {}) : k \in Kinds, body \in AVersions},
    b \in {Use(k, "b", body, {}) : k \in Kinds, body \in BVersions},
    root \in {Line("r", "s", {"x", "v"}), Line("r", "s", {"v"})},
    own \in Own}

(* The same under an alias, which the consumer lists, with the alias or    *)
(* without, and may refer to in either form.                               *)
AliasTexts ==
  {Text(<<Use("importFrom", "a", <<Line("l.x", "s", {})>>, {"l.x"}),
          Use(k, "b", <<Line(x, "t", {}), Line("v", "s", {x})>>, {x}), Line("r", "s", refs)>>) :
     k \in {"importFrom", "include"}, x \in {"x", "l.x"}, refs \in {{"x"}, {"l.x"}, {"v"}}}

(* A file that is listed twice, the name at one place only, between or     *)
(* around other definitions of it.                                         *)
Listing(file, sig, wanted) == Use("importFrom", file, <<Line("x", sig, {}), Line("y", "s", {"x"})>>, wanted)
TwofoldTexts ==
  {Text(<<a, b, c, d, Line("r", "s", refs)>>) :
     a, b, c, d \in {Listing("a", "s", {"x"}), Listing("a", "s", {"y"}),
                     Listing("b", "t", {"x"}), Listing("b", "t", {"y"})},
     refs \in {{"x"}, {"y"}}}

MCDocuments == ReachTexts \cup ExternTexts \cup StrengthTexts \cup AliasTexts \cup TwofoldTexts
===============================================================================
