------------------------------ MODULE MCValidation ------------------------------
(***************************************************************************)
(* Small schemas and documents for Validation.                             *)
(***************************************************************************)
EXTENDS Validation

one == Value(1)
two == Value(2)
either == Choice(<<Name("one"), Value(2)>>)

(* The rules that may be referred to.                                      *)
Definitions ==
  [one |-> one, any |-> AnyInt, bytes |-> AnyBytes, some |-> Choice(<<AnyInt, AnyBytes>>),
   pair |-> Group(<<<<One(AnyInt), One(AnyInt)>>>>),
   maybe |-> Group(<<<<Optional(AnyInt)>>>>),
   options |-> Group(<<<<One(AnyInt)>>, <<One(AnyInt), One(AnyBytes)>>>>),
   units |-> Choice(<<Name("maybe"), Name("pair")>>),
   perhaps |-> Group(<<<<Keyed(Optional(AnyInt), Value(1))>>>>),
   both |-> Group(<<<<Keyed(One(AnyInt), Value(1)), Keyed(One(AnyInt), Value(2))>>>>),
   fallback |-> Choice(<<Name("both"), Group(<<<<Keyed(One(AnyInt), Value(3))>>>>)>>)]
Plugs == [ext |-> <<Group(<<<<Keyed(One(AnyInt), Value(1))>>>>), Group(<<<<Keyed(One(one), Value(2))>>>>)>>]

RECURSIVE NamesIn(_, _)
NamesIn(t, depth) ==
  LET direct == {p.name : p \in {q \in Parts(t) : q.kind = "name"}}
  IN IF depth = 0 THEN direct
     ELSE direct \cup UNION {NamesIn(Definitions[x], depth - 1) : x \in direct \cap DOMAIN Definitions}
Schema(root) ==
  LET names == NamesIn(root, 2)
  IN [rules |-> [x \in {"root"} \cup (names \cap DOMAIN Definitions) |-> IF x = "root" THEN root ELSE Definitions[x]],
      plugs |-> [x \in names \cap DOMAIN Plugs |-> Plugs[x]]]
Case(root, values) == [schema |-> Schema(root), documents |-> {<<v>> : v \in values}, fails |-> {FALSE}]
UpTo(n, S) == UNION {[1..k -> S] : k \in 0..n}
--------------------------------------------------------------------------------
(* Arrays of up to two entries, and some of three.                         *)
ArrayEntries ==
  {One(t) : t \in {AnyInt, one, either, AnyBytes, Name("pair"), Name("maybe"), Name("options"), Name("units")}}
    \cup {Optional(AnyInt), Optional(one), Optional(Name("pair")), Optional(AnyBytes)}
    \cup {Many(AnyInt), Some(AnyInt), Some(Name("pair")), Many(Name("options")), Times(2, AnyInt)}
    \cup {Many(one), AtLeast(1, one), AtLeast(1, AnyBytes)}
MoreEntries == {One(AnyInt), One(one), One(Name("pair")), One(Name("maybe")), Optional(AnyInt), Some(AnyInt), Many(Name("options"))}
ArrayGroups == UpTo(2, ArrayEntries) \cup [1..3 -> MoreEntries]
Lists == {List(l) : l \in UpTo(3, {Number(1), Number(2), Bytes(Number(1))})}
ArrayCases == {Case(Array(<<g>>), Lists) : g \in ArrayGroups}
(* Alternatives, and an array in an array.                                 *)
Inner == Array(<<<<Many(AnyInt)>>>>)
AlternativeCases ==
  {Case(Array(<<g, h>>), Lists) : g \in {<<One(AnyInt), One(AnyInt)>>, <<Optional(one)>>},
                                  h \in {<<One(AnyInt), Many(AnyBytes)>>, <<One(AnyBytes)>>}}
    \cup {Case(Choice(<<Array(<<<<One(Inner), Optional(AnyInt)>>>>), Map(<<<<>>>>), AnyInt>>),
               {List(<<List(<<Number(1), k>>), n>>) : k, n \in {Number(1), Bytes(Number(1))}}
                 \cup {Number(1), Dict(<<>>), Bytes(Number(1))})}

(* Maps as elements of arrays.                                             *)
Small == Map(<<<<Keyed(One(AnyInt), Value(1))>>>>)
Elastic == Map(<<<<Keyed(Optional(AnyInt), Value(1))>>>>)
MapInArrayCases ==
  {Case(Array(<<g>>), {List(l) : l \in UpTo(2, {Number(1), Dict(<<>>), Dict(<<<<Number(1), Number(1)>>>>)})}) :
     g \in UpTo(2, {One(Small), Many(Small), One(Elastic), One(Choice(<<Small, AnyInt>>)), Optional(AnyInt)})}

(* Maps of up to two entries, and some of three.                           *)
MapEntries ==
  {Keyed(One(AnyInt), Value(1)), Keyed(One(one), Value(2)), Keyed(Optional(AnyInt), Value(1)),
   Keyed(Optional(one), Value(2)), Keyed(One(AnyInt), AnyInt), Keyed(Optional(AnyInt), Value(3)),
   One(Name("both")), Optional(Name("both")), One(Name("ext")), Many(Name("ext")), Some(Name("ext")),
   Optional(Name("fallback")), One(Name("undefined")),
   One(Name("perhaps")), Keyed(Many(AnyInt), Value(3)), Keyed(Some(one), Value(2))}
MoreMapEntries ==
  {Keyed(One(AnyInt), Value(1)), Keyed(Optional(AnyInt), Value(3)), Keyed(One(AnyInt), AnyInt),
   Optional(Name("both")), Many(Name("ext"))}
Dicts ==
  {Dict([i \in DOMAIN k |-> <<Number(k[i]), Number(v[i])>>]) :
     <<k, v>> \in {<<k, v>> \in UpTo(3, 1..3) \X UpTo(3, 1..2) : Len(k) = Len(v) /\ IsInjective(k)}}
MapCases == {Case(Map(<<g>>), Dicts) : g \in UpTo(2, MapEntries) \cup [1..3 -> MoreMapEntries]}

(* Alternatives whose labels tell them apart.                              *)
Labels == {Name("one"), Name("any"), Name("some"), AnyInt}
LabelCases ==
  {Case(Choice(<<Array(<<<<One(a), One(b)>>>>), Array(<<<<One(c), One(d)>>>>)>>), 
        {List(<<Number(m), Number(n)>>) : m, n \in 1..2}) : a, b, c, d \in Labels}
    \cup {Case(Map(<<<<Keyed(One(a), Value(1)), Keyed(One(b), Value(2))>>,
                     <<Optional(Group(<<<<Keyed(One(a), Value(1)), Keyed(One(one), Value(3))>>>>)),
                       Keyed(One(c), Value(1)), Keyed(Optional(d), Value(2))>>>>),
               {Dict(<<<<Number(1), Number(m)>>, <<Number(2), Number(n)>>>>) : m, n \in 1..2}) :
            a, b, c, d \in Labels}

(* Documents that are not one item.                                        *)
OtherCases ==
  {[schema |-> Schema(t), documents |-> UpTo(2, {Number(1), Bytes(Number(1))}), fails |-> BOOLEAN] : t \in {AnyInt, Embedded(one)}}

MCCases == ArrayCases \cup MapInArrayCases \cup AlternativeCases \cup MapCases \cup LabelCases \cup OtherCases
================================================================================
