--------------------------- MODULE MCControlOperators ---------------------------
(***************************************************************************)
(* Small schemas and documents for ControlOperators.                       *)
(***************************************************************************)
EXTENDS ControlOperators

MCTexts == [e |-> [size |-> 0, json |-> FALSE], a |-> [size |-> 1, json |-> TRUE], b |-> [size |-> 2, json |-> FALSE],
            p |-> [size |-> 1, json |-> FALSE], q |-> [size |-> 1, json |-> FALSE],
            bq |-> [size |-> 3, json |-> FALSE]]
MCLanguages == [p |-> {"a", "e"}, q |-> {"a", "b"}]

any == Builtin("any")
int == Builtin("int")
bytes == Builtin("bytes")
text == Builtin("text")

(* The rules a root may refer to.                                          *)
Definitions ==
  [one |-> Literal(Number(1)), half |-> Literal(Float(1)), small |-> Interval(Literal(Number(0)), Literal(Number(1)), FALSE),
   blob |-> bytes, words |-> Control(Literal(Text("b")), ".det", Literal(Text("q"))), ps |-> Literal(Text("p")),
   label |-> Literal(Text("b")), qs |-> Literal(Text("q")), joined |-> Control(Name("label"), ".det", Name("qs")),
   two |-> Control(Name("one"), ".plus", Literal(Number(1))), whole |-> int,
   like |-> Control(text, ".regexp", Name("ps")), likeq |-> Control(text, ".abnf", Name("qs")),
   sealed |-> Control(bytes, ".x-enc.abnf", Name("ps")),
   either |-> Choice(<<Name("like"), Name("small"), Interval(Literal(Number(4)), Literal(Number(5)), FALSE)>>),
   strict |-> Control(any, ".dtrm", Name("whole")), packed |-> Control(bytes, ".cbor", Name("whole")),
   inner |-> Control(any, ".prefp", Array(Control(any, ".dtrm", any)))]
RECURSIVE NamesIn(_, _)
NamesIn(t, depth) ==
  LET names == {u.name : u \in {w \in Subtypes(t) : w.kind = "name"}}
  IN names \cup IF depth = 0 THEN {} ELSE UNION {NamesIn(Definitions[x], depth - 1) : x \in names}
Rules(root) == [x \in {"root"} \cup NamesIn(root, 3) |-> IF x = "root" THEN root ELSE Definitions[x]]
Case(root, documents) == [rules |-> Rules(root), documents |-> documents]
Single(values) == {<<v>> : v \in values}
--------------------------------------------------------------------------------
(* Numbers and texts with every operator on scalars.                       *)
Numbers == {Number(n) : n \in {-1, 0, 1, 2, 4, 5}} \cup {Float(n) : n \in {1, 2, 4, NaN}}
Bounds == {Literal(Number(1)), Literal(Float(1)), Name("one"), Name("half"), Literal(Number(5)), Name("two"),
           Control(Literal(Number(1)), ".plus", Literal(Number(1))), int, Literal(Text("p"))}
NumberCases ==
  {Case(Control(lhs, op, rhs), Single(Numbers \cup {Text("p")})) :
     lhs \in {Builtin("number"), int, any, text, Name("small")}, op \in Orderings \cup Equalities, rhs \in Bounds}
    \cup {Case(t, Single(Numbers)) : t \in {Name("small"), Literal(Float(1)), Builtin("uint"),
             Interval(Literal(Float(1)), Name("half"), FALSE), Interval(Literal(Number(0)), Literal(Number(2)), TRUE),
             Interval(Literal(Number(0)), Literal(Float(2)), FALSE), Name("two"), Control(int, ".plus", Name("two")),
             Control(Literal(Float(1)), ".plus", Name("one")),
             Choice(<<Name("small"), Interval(Literal(Number(4)), Literal(Number(5)), FALSE)>>),
             Array(Choice(<<Control(Literal(Number(1)), ".plus", Literal(Number(1))), int>>))}}
    \cup {Case(SimpleType(head), Single(Numbers \cup {Simple(20), Simple(23), Text("p")})) :
             head \in {<<>>, <<Literal(Number(20))>>, <<Literal(Number(27))>>, <<Interval(Literal(Number(20)), Literal(Number(21)), FALSE)>>}}
Strings == {Text(x) : x \in {"e", "a", "b", "p", "bq"}} \cup {Raw("a"), Raw("b")}
TextCases ==
  {Case(Control(lhs, op, rhs), Single(Strings \cup {Number(1), Bytes(<<Number(1)>>)})) :
     lhs \in {text, bytes, int, Builtin("uint"), any, Name("blob")},
     op \in {".regexp", ".abnf", ".abnfb", ".size", ".json", ".eq", ".ne", ".feature", ".bits", ".x-gzip", ".x-enc", ".x-enc.abnf"},
     rhs \in {Literal(Text("p")), Literal(Text("a")), Name("words"), Name("joined"), Name("ps"),
             Literal(Number(1)), Name("small"), Name("two")}}
    \cup {Case(t, Single(Strings)) : t \in {Name("words"), Name("joined"), Name("like"), Name("likeq"), Name("sealed"), Name("either"),
             Choice(<<Name("like"), Control(text, ".regexp", Name("ps")), Control(text, ".abnf", Name("ps"))>>),
             Array(Name("like")), Control(Name("like"), ".eq", Literal(Text("a"))),
             Choice(<<Control(text, ".regexp", Literal(Text("p"))), Control(bytes, ".abnf", Name("qs"))>>)}}
    \cup {Case(Control(bytes, op, any), Single(Strings)) : op \in {".json", ".feature", ".x-gzip", ".x-enc"}}

(* Alternatives of which some are not enforced, or are patterns.           *)
Parts ==
  {Control(bytes, ".x-gzip", any), Control(text, ".abnf", Literal(Text("p"))), Control(text, ".abnf", Name("words")),
   Control(bytes, ".x-enc.abnf", Name("ps")), Name("likeq"),
   Control(Control(text, ".abnf", Name("ps")), ".abnf", Name("words")), text, bytes}
Pairs == {List(<<v, w>>) : v, w \in {Text("a"), Text("b"), Raw("a"), Number(1)}}
ChoiceCases ==
  {Case(Choice(<<Array(Choice(<<s, t>>)), Array(Choice(<<u, bytes, int>>))>>), Single(Pairs)) : s, t, u \in Parts}
--------------------------------------------------------------------------------
(* Items in every form, in arrays, tags and byte strings in each other.    *)
Scalars == {Number(1), InForm(0, Number(1)), Text("a")}
Small == Scalars \cup {List(<<i>>) : i \in Scalars} \cup {InForm(1, List(<<Number(1)>>)), TagOf(1, InForm(0, Number(1))), TagOf(2, Number(1))}
Contents == {<<>>} \cup {<<i>> : i \in Small} \cup {<<Number(1), InForm(f, Number(1))>> : f \in {0, 2}}
Strings1 == {Bytes(c) : c \in Contents} \cup {Raw("a")}
Larger ==
  Small \cup Strings1 \cup {List(<<Text("a"), b>>) : b \in Strings1} \cup {Bytes(<<b>>) : b \in Strings1}
    \cup {Bytes(<<List(<<Number(1), b>>)>>) : b \in {Bytes(<<i>>) : i \in Scalars}}
    \cup {List(<<b, InForm(f, Number(1))>>) : f \in {0, 2}, b \in {Bytes(<<Number(1)>>), Bytes(<<InForm(0, Number(1))>>)}}
Bodies ==
  {int, any, Name("whole"), Name("strict"), Name("packed"), Name("inner"), Array(Name("strict")), Array(any),
   Tag(<<Literal(Number(1))>>, Name("strict")), Tag(<<Name("small")>>, int), Tag(<<>>, int), Tag(<<Choice(<<Literal(Number(2)), Name("one")>>)>>, any),
   Choice(<<Name("strict"), text>>), Choice(<<Name("packed"), Array(Choice(<<text, Name("packed"), Name("strict")>>))>>)}
EmbeddedCases ==
  {Case(Control(lhs, op, rhs), Single(Larger)) : lhs \in {any, bytes, Name("blob"), Array(any)},
      op \in Serializations \cup {".size"}, rhs \in Bodies}
    \cup {Case(Array(Choice(<<Control(bytes, op, rhs), Control(any, ".prefp", int), text>>)), Single(Larger)) :
             op \in Serializations, rhs \in Bodies}

(* Sequences as a document.                                                *)
SequenceCases ==
  {Case(Choice(<<Control(any, op, rhs), int>>), {<<i, j>> : i, j \in Small} \cup Single(Small)) :
     op \in Sequences \cup {".dtrm"}, rhs \in {Array(int), Array(Name("strict")), int}}
MCCases == NumberCases \cup TextCases \cup ChoiceCases \cup EmbeddedCases \cup SequenceCases
================================================================================
