----------------------------- MODULE MCContainment -----------------------------
(***************************************************************************)
(* Pairs of small types for Containment, over one set of rules.            *)
(***************************************************************************)
EXTENDS Containment

Rules ==
  [small |-> Between(0, 1), number |-> AnyInt, one |-> Value(1), pair |-> Array(<<<<One(AnyInt), One(AnyText)>>>>),
   either |-> Choice(<<Name("one"), AnyText>>), again |-> Name("number"),
   list |-> Choice(<<Array(<<<<>>>>), Array(<<<<One(AnyInt), One(Name("list"))>>>>)>>),
   chain |-> Choice(<<Array(<<<<>>>>), Array(<<<<One(Name("small")), One(Name("chain"))>>>>)>>),
   nested |-> Choice(<<Tagged(1, Name("nested")), AnyInt>>),
   point |-> Map(<<<<Keyed(One(AnyInt), Value(1)), Keyed(One(AnyText), Value(2))>>>>),
   fields |-> Group(<<<<Keyed(One(AnyInt), Value(1))>>>>),
   note |-> Map(<<<<Keyed(One(AnyText), Value(1))>>>>),
   tree |-> Map(<<<<Keyed(Optional(Name("tree")), Value(1))>>>>), bush |-> Map(<<<<Keyed(Optional(Name("bush")), Value(1))>>>>)]
MCSchema == [rules |-> Rules,
             plugs |-> [ext |-> <<Group(<<<<Keyed(One(AnyInt), Value(1))>>>>)>>, open |-> <<AnyInt, AnyText>>]]

(* Every combination of two sequences.                                     *)
Each(a, Made(_)) == [k \in DOMAIN a |-> Made(a[k])]
EachTwo(a, b, Made(_, _)) ==
  [k \in 1..(Len(a) * Len(b)) |-> Made(a[((k - 1) \div Len(b)) + 1], b[((k - 1) % Len(b)) + 1])]

Simple == <<AnyInt, Unsigned, Negative, AnyText, AnyBytes, AnyValue, Value(0), Value(-1), Between(0, 1), Between(-1, 1)>>
Names == Each(<<"small", "number", "one", "pair", "either", "again", "list", "chain", "nested", "point", "open">>, Name)
Few == <<AnyInt, Between(0, 1), Value(1), AnyText, Name("either"), Name("again")>>
Arms == <<AnyInt, Unsigned, AnyText, Value(0), Name("one"), Name("nested")>>
Bounds == <<AnyInt, Unsigned, Between(-1, 1), Name("number")>>
Compound ==
  EachTwo(<<1, 2>>, <<AnyInt, Name("one"), AnyText, Name("nested")>>, Tagged)
    \o SelectSeq(EachTwo(Arms, Arms, LAMBDA t, u : Choice(<<t, u>>)), LAMBDA t : t.alts[1] # t.alts[2])
    \o EachTwo(Bounds, Bounds, LAMBDA t, u : Both(<<t, u>>))
    \o EachTwo(<<AnyInt, Unsigned, Name("again")>>, <<0, 1>>, AtMost)
    \o <<Inside(AnyInt, AnyInt), Inside(Between(0, 1), Unsigned), Inside(Value(1), Between(0, 1))>>
    \o Each(<<AnyInt, Value(1)>>, Embedded)
Scalars == Simple \o Names \o Compound

(* Choices that meet one pair twice.                                       *)
Twice ==
  <<Choice(<<Name("one"), Name("one")>>), Choice(<<Name("one"), Name("either")>>), Choice(<<AnyText, AnyText>>),
    Choice(<<Map(<<<<Keyed(One(AnyInt), Value(1))>>>>), Map(<<<<Keyed(One(AnyBytes), Value(1))>>>>)>>),
    Choice(<<Array(<<<<One(Name("one")), One(AnyInt)>>>>), Array(<<<<One(Name("one")), One(AnyText)>>>>)>>)>>

(* Arrays: what may be repeated stands last on the right, and the left has *)
(* no occurrence there: with one it is compared as one element.            *)
Pairs == EachTwo(Few, Few, LAMBDA t, u : Array(<<<<One(t), One(u)>>>>))
Fixed == <<Array(<<<<>>>>)>> \o Each(Few, LAMBDA t : Array(<<<<One(t)>>>>)) \o Pairs
Optionals == EachTwo(Few, Few, LAMBDA t, u : Array(<<<<One(t), Optional(u)>>>>))
Repeats == EachTwo(<<AnyInt, Name("either")>>, <<Many(AnyInt), Some(Name("either")), Times(1, AnyText)>>,
                   LAMBDA t, e : Array(<<<<One(t), e>>>>))
Folded == Each(Few, LAMBDA t : Array(<<<<One(Group(<<<<One(t), One(AnyText)>>>>))>>>>))
Lists == Fixed \o Folded

(* Maps with required members on the left, by literal keys.                *)
Member(k, t) == Keyed(One(t), Value(k))
Records ==
  Each(Few, LAMBDA t : Map(<<<<Member(1, t)>>>>)) \o EachTwo(Few, Few, LAMBDA t, u : Map(<<<<Member(1, t), Member(2, u)>>>>))
    \o Each(Few, LAMBDA t : Map(<<<<One(Name("fields")), Member(2, t)>>>>)) \o <<Map(<<<<One(Name("ext"))>>>>)>>
Patterns ==
  Records \o EachTwo(Few, Few, LAMBDA t, u : Map(<<<<Member(1, t), Keyed(Optional(u), Value(2))>>>>))
    \o Each(Few, LAMBDA t : Map(<<<<Keyed(Many(t), AnyInt)>>>>))
    \o EachTwo(<<AnyInt, AnyText, Name("either")>>, <<AnyInt, AnyText, Name("either")>>,
               LAMBDA t, u : Map(<<<<Member(1, t), Keyed(Many(u), AnyInt)>>>>))

(* Arrays and maps on which the check departs, and recursive maps.         *)
Keyword == Keyed(One(AnyInt), Label("a"))
Departing ==
  <<Array(<<<<>>>>), Array(<<<<Many(AnyInt)>>>>), Array(<<<<Some(AnyInt)>>>>), Array(<<<<One(AnyInt), Many(AnyText)>>>>),
    Array(<<<<One(AnyInt)>>, <<One(AnyText)>>>>), Array(<<<<Optional(Group(<<<<One(AnyInt)>>>>))>>>>), Array(<<<<One(AnyInt)>>>>),
    Map(<<<<Keyed(Optional(AnyText), Value(1))>>>>), Map(<<<<Member(1, AnyInt)>>>>), Map(<<<<Keyed(Optional(AnyInt), AnyInt)>>>>),
    Map(<<<<Member(1, AnyInt), Member(2, AnyInt)>>>>), Map(<<<<Keyword>>>>), Map(<<<<Keyed(One(AnyInt), Label("b"))>>>>),
    Map(<<<<Keyed(One(AnyInt), AnyText)>>>>), AtMost(AnyValue, 1), Value(1), Name("tree"), Name("bush")>>
Family(lefts, rights) == [lefts |-> Range(lefts), rights |-> Range(rights)]
MCFamilies ==
  {Family(Scalars, Scalars), Family(Lists, Fixed \o Optionals), Family(Pairs \o Folded, Repeats),
   Family(Records, Patterns), Family(Names, Fixed \o Patterns), Family(Fixed \o Records, Names),
   Family(Scalars \o Lists \o <<Name("note")>>, Twice), Family(Departing, Departing)}
Data == {Number(-1), Number(0), Number(1), Number(2), Text("a")}
MCValues ==
  Data \cup {Bytes(Number(1)), Bytes(Text("a"))} \cup {TagOf(n, v) : n \in 1..2, v \in Data} \cup {TagOf(1, TagOf(1, Number(0)))}
    \cup {List(l) : l \in UNION {[1..n -> {Number(0), Number(2), Text("a"), List(<<>>)}] : n \in 0..2}}
    \cup {List(<<v, Text("a"), w>>) : v, w \in {Number(1), Text("a")}}
    \cup {Dict(<<>>), Dict(<<<<Text("a"), Number(1)>>>>)} \cup {Dict(<<<<Number(1), v>>>>) : v \in Data}
    \cup {Dict(<<<<Number(1), v>>, <<Number(2), w>>>>) : v, w \in {Number(0), Number(2), Text("a")}}
================================================================================
