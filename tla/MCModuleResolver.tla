--------------------------- MODULE MCModuleResolver ---------------------------
(***************************************************************************)
(* Small documents for ModuleResolver: a root with two directives, in one  *)
(* node or in two, and modules a, b and c that name each other or the      *)
(* root, so that there are chains, diamonds, repetitions and cycles of     *)
(* both kinds.                                                             *)
(***************************************************************************)
EXTENDS ModuleResolver

MCModules == {"root", "a", "b", "c"}

Plain(k, t) == [kind |-> k, target |-> t, named |-> FALSE, wanted |-> {}, valid |-> TRUE]
Picks(k, t, ns) == [Plain(k, t) EXCEPT !.named = TRUE, !.wanted = ns]
Unaliased(t) == [Picks("import", t, {1}) EXCEPT !.valid = FALSE]

Kinds == {"import", "include"}
RootDirectives == {Plain(k, t) : k \in Kinds, t \in {"a", "b"}}
                  \cup {Picks(k, "a", {1}) : k \in Kinds}
Second == RootDirectives \cup {Unaliased("a"), Plain("import", "nowhere")}

RootBodies == {<<<<x>>, <<y>>>> : x \in RootDirectives, y \in Second}
              \cup {<<<<x, y>>>> : x \in Second, y \in RootDirectives}
ABodies == {<<<<>>>>, <<<<Plain("import", "root")>>>>}
           \cup {<<<<Plain(k, "b")>>, <<Plain(j, "c")>>>> : k \in Kinds, j \in Kinds}
           \cup {<<<<>>, <<Picks("include", "b", {1})>>>>}
BBodies == {<<>>} \cup {<<<<Plain(k, t)>>>> : k \in Kinds, t \in {"a", "c"}}
CBodies == {<<>>, <<<<Plain("include", "c")>>>>}

MCDocuments ==
  {[body |-> [m \in MCModules |-> IF m = "root" THEN r ELSE IF m = "a" THEN a
                                  ELSE IF m = "b" THEN b ELSE c],
    condition |-> [m \in MCModules |-> IF m = "c" THEN q ELSE "good"]] :
     r \in RootBodies, a \in ABodies, b \in BBodies, c \in CBodies, q \in Condition}
===============================================================================
