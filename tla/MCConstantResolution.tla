------------------------- MODULE MCConstantResolution -------------------------
(***************************************************************************)
(* Small programs for ConstantResolution: every assignment of a set of     *)
(* right-hand sides to three names, in one order (the names are            *)
(* interchangeable, so other orders are renamings), and pairs of files     *)
(* that define the same name, each as top-level nodes of their own and     *)
(* nested below one another, and with names that are read as infinity and  *)
(* as NaN.                                                                 *)
(***************************************************************************)
EXTENDS ConstantResolution

Lit(k, v) == [kind |-> "literal", value |-> [kind |-> k, val |-> v]]
Hex(v)    == [kind |-> "prefixed", value |-> [kind |-> "int", val |-> v]]
Ref(n)    == [kind |-> "ref", name |-> n]
Alt(op, l, r) == [op |-> op, exclusive |-> FALSE, lhs |-> l, rhs |-> r]
Leaf(x)   == Alt("operand", x, x)

One == Lit("int", 1)
Two == Lit("int", 2)

MCNames == {"a", "b", "c", "inf", "nan"}

Choice == {<<Alt("range", One, Two), Alt("range", One, Ref("b"))>>,
           <<Leaf(One), Alt("plus", Ref("c"), One)>>}

(* Rules of a use b and c, those of b use c and a, the third one is a leaf *)
(* or closes a cycle: chains forwards and backwards, and every operator    *)
(* with operands of the right and of the wrong family.                     *)
AltsA == Choice \cup
  {<<x>> : x \in {Leaf(Ref("b")), Leaf(Ref("a")), Alt("plus", Ref("b"), Two),
                 Alt("range", One, Ref("b")), Alt("cat", Ref("b"), Ref("c")),
                 Alt("encode", One, Ref("c"))}}
AltsB == {<<x>> : x \in {Leaf(Two), Leaf(Lit("text", 1)), Leaf(Ref("c")), Leaf(Ref("a")),
                        Alt("plus", Ref("c"), Ref("inf")), Alt("plus", One, Ref("inf")),
                        Alt("plus", Ref("c"), Ref("c")),
                        Alt("range", Ref("c"), Hex(2)), Alt("cat", Ref("c"), Ref("c")),
                        Alt("plus", Ref("c"), Ref("nan")),
                        Alt("range", Lit("float", 1), Ref("nan")),
                        Alt("plus", Lit("-inf", 0), Ref("inf"))}}
AltsC == {<<x>> : x \in {Leaf(One), Leaf(Two), Leaf(Lit("bytes", 1)), Leaf(Hex(1)),
                        Leaf(Ref("a")), Alt("plus", One, One)}}

(* A rule of file f that is (d) a definition and (o) opens a node.         *)
R(n, f, d, o, as) == [name |-> n, file |-> f, define |-> d, opens |-> o, alts |-> as]

Distinct ==
  {<<R("a", 1, TRUE, TRUE, x), R("b", 1, TRUE, o, y), R("c", 1, TRUE, o, z)>> :
     x \in AltsA, y \in AltsB, z \in AltsC, o \in BOOLEAN}
  \cup {<<R("a", 1, TRUE, TRUE, x), R("b", 1, d, o, y),
           R("inf", 1, TRUE, o, <<Leaf(One)>>)>> :
     x \in AltsA, y \in AltsB, d \in BOOLEAN, o \in BOOLEAN}

(* Two libraries' private definitions of "a" beside a consumer's "b".      *)
Local == {Leaf(One), Leaf(Two), Alt("range", One, Two), Alt("range", One, Ref("b")),
          Alt("plus", Ref("b"), One)}
Shared ==
  {<<R("a", 1, TRUE, TRUE, <<x>>), R("b", f, TRUE, o, <<z>>), R("a", 2, TRUE, p, <<y>>)>> :
     x \in Local, y \in Local, z \in {Leaf(Two), Leaf(Ref("a"))}, f \in {2, 3},
     o \in BOOLEAN, p \in BOOLEAN}

MCPrograms == Distinct \cup Shared
===============================================================================
