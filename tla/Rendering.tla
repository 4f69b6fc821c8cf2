-------------------------------- MODULE Rendering --------------------------------
(***************************************************************************)
(* `cbork render` (concrete.rs): the first rule with every reference       *)
(* replaced by what it names, and the rules whose names had to stay.       *)
(* What is printed is modelled as its tokens, so that a missing pair of    *)
(* parentheses changes what is read back; lines, comments and spaces are   *)
(* left out, and the names an import has put a prefix before.              *)
(***************************************************************************)
EXTENDS CddlMeaning

CONSTANTS
  Schemas,   \* [rules, types, groups]: rules, and the plugs of sockets, by name
  RootRule,  \* the first rule of every schema
  Stack      \* bound: levels of references a rendering may be nested in
ASSUME StackAssumption == Stack \in Nat \ {0}

VARIABLES
  schema,
  pass,        \* 1: what was written is rendered; 2: what was rendered is
  phase,       \* "read", "root", "rest" or "done"
  resolution,  \* the names that are recursive, and those with a bare self-arm
  first,       \* the text of the first rule
  retained,    \* the texts of the rules and sockets that are kept, by name
  wanted,      \* `symbolic_refs`: names that were printed as names
  deep,        \* whether a rendering went deeper than the stack
  previous     \* the schema of the first pass, and what was printed of it

vars == <<schema, pass, phase, resolution, first, retained, wanted, deep, previous>>

(* Forms of a type that only the text knows: parentheses, `~name` and      *)
(* `lo...hi`.                                                              *)
Parens(t) == [kind |-> "paren", body |-> t]
Below(lo, hi) == [kind |-> "below", lo |-> lo, hi |-> hi]
Never == Choice(<<>>)

Rules == schema.rules
Defined == DOMAIN schema.rules
TypeSockets == DOMAIN schema.types
GroupSockets == DOMAIN schema.groups
IsConstant(x) == x \in Defined /\ Rules[x].kind = "value"
IsBare(t) == t.kind = "name"
Alts(t) == IF t.kind = "type" THEN t.alts ELSE <<t>>
--------------------------------------------------------------------------------
(* The operands of a control or a range, and `type1_is_ctlop_expression`.  *)
IsExpression(t) == t.kind \in {"control", "cbor", "range", "below"}
Operator(t) == CASE t.kind = "control" -> t.op [] t.kind = "cbor" -> ".cbor" [] OTHER -> ".."
LeftOf(t) == CASE t.kind = "control" -> t.carrier [] t.kind = "cbor" -> AnyBytes [] OTHER -> Value(t.lo)
RightOf(t) == CASE t.kind = "control" -> t.controller [] t.kind = "cbor" -> t.body [] OTHER -> Value(t.hi)

(* `collect_names_in_node`.                                                *)
RECURSIVE Mentioned(_)
InEntries(groups) == UNION {UNION {Mentioned(e.body) \cup (IF e.key = NoKey THEN {} ELSE Mentioned(e.key)) :
                                     e \in Range(g)} : g \in Range(groups)}
Mentioned(t) ==
  CASE t.kind \in {"name", "unwrap"} -> {t.name}
    [] t.kind = "type" -> UNION {Mentioned(a) : a \in Range(t.alts)}
    [] t.kind \in {"array", "map", "group"} -> InEntries(t.groups)
    [] t.kind \in {"tag", "paren"} -> Mentioned(t.body)
    [] t.kind \in {"control", "cbor"} -> Mentioned(LeftOf(t)) \cup Mentioned(RightOf(t))
    [] OTHER -> {}

(* `classify_def_references`: bare arms of the choice, and all the rest.   *)
Unguarded(x) == {a.name : a \in {b \in Range(Alts(Rules[x])) : IsBare(b)}}
Guarded(x) == UNION {Mentioned(a) : a \in {b \in Range(Alts(Rules[x])) : ~IsBare(b)}}

(* The nodes that `strongly_connected_components` (Tarjan) puts into one   *)
(* component with x: those that x reaches and that reach x.                *)
Reaches(edges, x) ==
  LET step(s) == s \cup UNION {edges[y] : y \in s}
      after[n \in 0..Cardinality(DOMAIN edges)] == IF n = 0 THEN edges[x] ELSE step(after[n - 1])
  IN after[Cardinality(DOMAIN edges)]
Component(edges, x) == {x} \cup {y \in Reaches(edges, x) : x \in Reaches(edges, y)}

(* `classify_recursion`: sockets are not nodes of the graph.               *)
Elidable == {x \in Defined : x \in Unguarded(x) /\ Len(Alts(Rules[x])) > 1}
Edges == [x \in Defined |-> ((Unguarded(x) \cup Guarded(x)) \ {x}) \cap Defined]
InLargerComponent(edges) == {x \in Defined : Component(edges, x) # {x}}
(* Mutant: a component of one node is not recursive.                       *)
RefersToOthers(x) == FALSE
RefersToItself(x) == x \in Guarded(x) \/ (x \notin Elidable /\ x \in Mentioned(Rules[x]))
Resolution ==
  [recursive |-> InLargerComponent(Edges) \cup {x \in Defined : RefersToItself(x)}, elidable |-> Elidable]

(* `name_resolves_to_ctlop_expression`: along bare names to a rule one of  *)
(* whose arms is a control or a range.                                     *)
AliasChain(x) ==
  LET next(s) == s \cup UNION {IF y \in Defined /\ IsBare(Rules[y]) THEN {Rules[y].name} ELSE {} : y \in s}
      after[n \in 0..Cardinality(Defined)] == IF n = 0 THEN {x} ELSE next(after[n - 1])
  IN after[Cardinality(Defined)]
ReachesControl(x) == \E y \in AliasChain(x) \cap Defined : \E a \in Range(Alts(Rules[y])) : IsExpression(a)
--------------------------------------------------------------------------------
(* Text: a choice of arms, an arm being an atom or atoms with operators    *)
(* between them.                                                           *)
Word(t) == [kind |-> "word", type |-> t]
Sign(op) == [kind |-> "sign", op |-> op]
Pair(text) == [kind |-> "parens", text |-> text]
TagText(n, text) == [kind |-> "tagged", n |-> n, text |-> text]
Block(open, groups) == [kind |-> "block", open |-> open, groups |-> groups]
EntryText(e, key, body) == [mark |-> e.mark, min |-> e.min, max |-> e.max, key |-> key, body |-> body]
Just(atom) == <<<<atom>>>>
InParens(text) == Just(Pair(text))

(* `contains_top_level_choice`, `has_top_level_ctlop`, and the test of the *)
(* first and last character for a text that is already in parentheses.     *)
IsChoice(text) == Len(text) > 1
HasOperator(text) == \E k \in DOMAIN text : Len(text[k]) > 1
IsPair(atom) == atom.kind = "parens" \/ (atom.kind = "block" /\ atom.open = "(")
LooksWrapped(text) == text # <<>> /\ IsPair(text[1][1]) /\ IsPair(Last(Last(text)))
Wrapped(text) == IF IsChoice(text) /\ ~LooksWrapped(text) THEN InParens(text) ELSE text

(* Two operands set side by side: an operand that is a choice and has no   *)
(* parentheses lets its other arms escape.                                 *)
Beside(l, op, r) ==
  SubSeq(l, 1, Len(l) - 1) \o <<Last(l) \o <<Sign(op)>> \o r[1]>> \o SubSeq(r, 2, Len(r))

(* What a rendering gives: text, the names it leaves, whether it was deep. *)
Printed(out, refs) == [out |-> out, refs |-> refs, deep |-> FALSE]
With(r, out) == [r EXCEPT !.out = out]
Joined(r, s, out) == [out |-> out, refs |-> r.refs \cup s.refs, deep |-> r.deep \/ s.deep]
Symbol(x) == Printed(Just(Word(Name(x))), {x})
TooDeep == [out |-> Just(Word(Never)), refs |-> {}, deep |-> TRUE]
InBlock(open, r) == With(r, Just(Block(open, <<r.out>>)))
--------------------------------------------------------------------------------
(* `RenderCx`: the names that are being inlined, the rule whose text it    *)
(* is, and where in the text a reference stands.                           *)
Context(x) == [open |-> {}, def |-> x, operand |-> FALSE, subject |-> FALSE, arm |-> FALSE,
               force |-> FALSE, fuel |-> Stack]
(* Mutant: the name that is put in place is not marked.                    *)
OpenedUnmarked(cx, x) == [cx EXCEPT !.def = x, !.operand = FALSE, !.subject = FALSE, !.fuel = @ - 1]
Opened(cx, x) ==
  [cx EXCEPT !.open = @ \cup {x}, !.def = x, !.operand = FALSE, !.subject = FALSE, !.fuel = @ - 1]
Deeper(cx) == [cx EXCEPT !.fuel = @ - 1]
InArm(cx) == [cx EXCEPT !.arm = TRUE]
Forced(cx) == [cx EXCEPT !.force = TRUE]

(* A type on one line (`render_with_inlining_inner`), a type on lines      *)
(* (`render_pretty_lines`), and an entry in either way.                    *)
RECURSIVE Render(_, _, _)
Inline(cx, t) == Render(cx, "inline", t)
Pretty(cx, t) == Render(cx, "lines", t)
EntryOf(cx, e, lines) == Render(cx, IF lines THEN "entry lines" ELSE "entry", e)

(* Whether an arm is put in parentheses: `arm_renders_ctlop_expression`,   *)
(* or its text has an operator.                                            *)
ArmIsControl(a) == IsExpression(a) \/ (IsBare(a) /\ a.name \in Defined /\ IsExpression(Rules[a.name]))
Braced(a, text) == IF ArmIsControl(a) \/ HasOperator(text) THEN InParens(text) ELSE text
BracedUnlessName(a, text) == IF IsBare(a) /\ text = Just(Word(a)) THEN text ELSE Braced(a, text)
AddArm(acc, r, text) == Joined(acc, r, acc.out \o text)
NoArms == Printed(<<>>, {})

(* `render_type_choice`, and `render_type_choice_arms`, which leaves out   *)
(* the arms that name the rule itself.                                     *)
InlineArm(cx, acc, a, r) == AddArm(acc, r, Braced(a, r.out))
InlineArms(cx, alts) == FoldLeft(LAMBDA acc, a : InlineArm(cx, acc, a, Inline(InArm(cx), a)), NoArms, alts)
IsSelfArm(cx, a) == cx.def \in resolution.elidable /\ a = Name(cx.def)
PrettyArm(acc, a, r, many) == AddArm(acc, r, IF many THEN BracedUnlessName(a, r.out) ELSE r.out)
PrettyArms(cx, alts) ==
  FoldLeft(LAMBDA acc, a : PrettyArm(acc, a, Pretty(InArm(cx), a), Len(alts) > 1), NoArms, alts)

(* `render_plug_choice` and `render_plug_choice_lines`: of the body of a   *)
(* plug in parentheses the first entry; the plugs are separated by commas  *)
(* if all are entries in parentheses.                                      *)
IsMember(lines, p, text) == IF lines THEN IsPair(text[1][1]) ELSE p.kind = "group"
FirstOnly(r) == With(r, Just(Block("(", <<<<r.out>>>>)))
PlugArm(cx, p) ==
  IF p.kind = "group" THEN FirstOnly(EntryOf(cx, FlattenSeq(p.groups)[1], FALSE)) ELSE Inline(cx, p)
AddPlug(acc, r, member) == Joined(acc, r, [texts |-> Append(acc.out.texts, r.out), all |-> acc.out.all /\ member])
Members(texts) == Just(Block("(", <<[k \in DOMAIN texts |-> EntryText(One(Never), <<>>, texts[k])]>>))
AsChoice(r, lines) ==
  With(r, IF Len(r.out.texts) = 1 /\ ~lines THEN r.out.texts[1]
          ELSE IF r.out.all THEN Members(r.out.texts) ELSE InParens(FlattenSeq(r.out.texts)))
NextPlug(acc, p, r, lines) == AddPlug(acc, r, IsMember(lines, p, r.out))
Plugged(cx, plugs, lines) ==
  AsChoice(FoldLeft(LAMBDA acc, p : NextPlug(acc, p, PlugArm(IF lines THEN Forced(cx) ELSE cx, p), lines),
                    Printed([texts |-> <<>>, all |-> TRUE], {}), plugs), lines)
TypePlugged(cx, plugs) ==
  FoldLeft(LAMBDA acc, p : LET r == Inline(cx, p) IN AddArm(acc, r, r.out), NoArms, plugs)

(* `render_named_reference` and `inline_definition`.                       *)
Reference(cx, x) ==
  CASE cx.fuel = 0 -> TooDeep
    [] cx.operand /\ ReachesControl(x) -> Symbol(x)
    [] cx.arm /\ x \in Defined /\ Rules[x].kind = "group" -> Symbol(x)
    [] cx.subject /\ x \in TypeSockets \cup GroupSockets -> Symbol(x)
    [] x \in GroupSockets -> Plugged(Deeper(cx), schema.groups[x], FALSE)
    [] x \in TypeSockets -> TypePlugged(Deeper(cx), schema.types[x])
    [] x \in resolution.recursive \cup cx.open -> Symbol(x)
    [] IsConstant(x) -> Printed(Just(Word(Rules[x])), {})
    [] x \in Defined -> Pretty(Opened(cx, x), Rules[x])
    [] OTHER -> Symbol(x)

(* What is printed as it was written: `record_embedded_references` takes   *)
(* note of the names in it, the fallback of an arm with `.within` does not.*)
RECURSIVE Source(_)
SourceEntry(e) == EntryText(e, IF e.key = NoKey THEN <<>> ELSE Source(e.key), Source(e.body))
Opener(t) == CASE t.kind = "array" -> "[" [] t.kind = "map" -> "{" [] OTHER -> "("
SourceBlock(t) ==
  Just(Block(Opener(t), [k \in DOMAIN t.groups |-> [i \in DOMAIN t.groups[k] |-> SourceEntry(t.groups[k][i])]]))
Source(t) ==
  CASE t.kind = "type" -> FlattenSeq([k \in DOMAIN t.alts |-> Source(t.alts[k])])
    [] t.kind = "paren" -> InParens(Source(t.body))
    [] t.kind = "tag" -> Just(TagText(t.n, Source(t.body)))
    [] t.kind \in {"array", "map", "group"} -> SourceBlock(t)
    [] IsExpression(t) /\ t.kind # "below" -> Beside(Source(LeftOf(t)), Operator(t), Source(RightOf(t)))
    [] OTHER -> Just(Word(t))
Verbatim(t) == Printed(Source(t), Mentioned(t) \cap (Defined \cup TypeSockets))
Unrecorded(t) == Printed(Source(t), {})

(* `render_type1`: the operands of a control on one line.                  *)
(* Mutant: a choice left of an operator gets no parentheses.               *)
LeftTextBare(text) == text
LeftText(text) == IF IsChoice(text) THEN InParens(text) ELSE text
Expression(t, l, r) == Joined(l, r, Beside(LeftText(l.out), Operator(t), Wrapped(r.out)))
Subject(cx, t) == IF Operator(t) = ".within" THEN [cx EXCEPT !.subject = TRUE] ELSE cx
Operand(cx, t) == IF IsBare(t) THEN [cx EXCEPT !.operand = TRUE] ELSE cx
InlineExpression(cx, t) ==
  Expression(t, Inline(Subject(cx, t), LeftOf(t)), Inline(Operand(cx, RightOf(t)), RightOf(t)))

(* `render_group`: alternatives are walked like entries, and are entries.  *)
Entries(cx, groups, lines) ==
  FoldLeft(LAMBDA acc, e : LET r == EntryOf(cx, e, lines) IN Joined(acc, r, Append(acc.out, r.out)),
           NoArms, FlattenSeq(groups))

(* `render_with_inlining_inner` and `render_type2`, on one line.           *)
Tagging(t, r) == With(r, Just(TagText(t.n, r.out)))
InlineType(cx, t) ==
  CASE t.kind = "type" -> InlineArms(cx, t.alts)
    [] IsExpression(t) -> InlineExpression(cx, t)
    [] t.kind = "tag" -> Tagging(t, Inline(cx, t.body))
    [] t.kind \in {"array", "map"} -> InBlock(Opener(t), Entries(cx, t.groups, FALSE))
    [] t.kind = "group" -> InBlock("(", Entries(Forced(cx), t.groups, FALSE))
    [] t.kind = "paren" ->
         LET r == Inline(cx, t.body)
         IN IF \E a \in Range(Alts(t.body)) : IsExpression(a) THEN With(r, InParens(r.out)) ELSE r
    [] t.kind \in {"name", "unwrap"} -> Reference(cx, t.name)
    [] OTHER -> Printed(Just(Word(t)), {})

(* `render_type1_lines` and `render_wrapped_choice_lines`: the operands on *)
(* lines of their own.                                                     *)
HasSocketArm(alts) ==
  \E x \in UNION {Mentioned(a) : a \in Range(alts)} :
    \E plugs \in Range(schema.groups) : Name(x) \in Range(plugs)
PlainArm(acc, r) == AddArm(acc, r, r.out)
PlainArms(cx, alts) == FoldLeft(LAMBDA acc, a : PlainArm(acc, Pretty(cx, a)), NoArms, alts)
WrappedChoice(cx, alts) ==
  LET r == PlainArms(IF HasSocketArm(alts) THEN Forced(cx) ELSE cx, alts) IN With(r, InParens(r.out))
PrettyOperand(cx, t) ==
  IF t.kind = "paren" /\ t.body.kind = "type" THEN WrappedChoice(cx, t.body.alts) ELSE Pretty(cx, t)
PrettyExpression(cx, t) ==
  Expression(t, PrettyOperand(Subject(cx, t), LeftOf(t)), PrettyOperand(Operand(cx, RightOf(t)), RightOf(t)))

(* `render_pretty_lines` of a text with `.within`: the only arm is taken   *)
(* apart and its right side is set down as it is; among other arms it is   *)
(* printed as it was written.                                              *)
IsWithin(t) == t.kind = "control" /\ t.op = ".within"
Constrained(l, r) ==
  Joined(l, r, Beside(IF IsChoice(l.out) \/ (HasOperator(l.out) /\ ~LooksWrapped(l.out)) THEN InParens(l.out) ELSE l.out,
                      ".within", r.out))
WithinLines(cx, t) ==
  Constrained(PrettyOperand([cx EXCEPT !.subject = TRUE], LeftOf(t)),
              IF IsBare(RightOf(t)) /\ ReachesControl(RightOf(t).name) THEN Symbol(RightOf(t).name)
              ELSE PrettyOperand(cx, RightOf(t)))
WithinArms(cx, alts) ==
  FoldLeft(LAMBDA acc, a : PlainArm(acc, IF IsWithin(a) THEN Unrecorded(a) ELSE Pretty(cx, a)), NoArms, alts)

(* `render_type_lines` and `render_pretty_lines`.                          *)
PrettyType(cx, t) ==
  CASE t.kind = "type" /\ (\E a \in Range(t.alts) : IsWithin(a)) -> WithinArms(cx, t.alts)
    [] t.kind = "type" -> PrettyArms(cx, SelectSeq(t.alts, LAMBDA a : ~IsSelfArm(cx, a)))
    [] IsWithin(t) -> WithinLines(cx, t)
    [] IsExpression(t) -> PrettyExpression(cx, t)
    [] t.kind = "tag" -> Tagging(t, Pretty(cx, t.body))
    [] t.kind \in {"array", "map"} -> InBlock(Opener(t), Entries(cx, t.groups, TRUE))
    [] OTHER -> Inline(cx, t)

(* `render_group_entry_lines` and `render_grpent`: of an entry that begins *)
(* with an array or a map, on lines, only that; a socket in place of the   *)
(* whole entry; an entry of no known shape as it was written.              *)
RECURSIVE LeadingBlock(_)
LeadingBlock(t) ==
  CASE t.kind \in {"array", "map"} -> <<t>>
    [] t.kind = "type" -> LeadingBlock(t.alts[1])
    [] IsExpression(t) -> LeadingBlock(LeftOf(t))
    [] OTHER -> <<>>
TopExpression(t) == IsExpression(t) \/ (t.kind = "paren" /\ IsExpression(t.body))
BodyOf(e, r) == With(r, EntryText(e, <<>>, r.out))
Grouped(e, r) == With(r, EntryText(e, <<>>, IF e.mark # "" /\ IsChoice(r.out) THEN InParens(r.out) ELSE r.out))
KeyAndValue(e, k, v) == Joined(k, v, EntryText(e, LeftText(k.out), Wrapped(v.out)))
RenderEntry(cx, e, lines) ==
  CASE IsBare(e.body) /\ e.body.name \in GroupSockets ->
         BodyOf(One(e.body), IF cx.fuel = 0 THEN TooDeep ELSE Plugged(Deeper(cx), schema.groups[e.body.name], lines))
    [] e.key # NoKey -> KeyAndValue(e, Inline(cx, e.key), Inline(cx, e.body))
    [] e.body.kind = "group" -> BodyOf(e, InBlock("(", Entries(Forced(cx), e.body.groups, FALSE)))
    [] lines /\ e.mark = "" /\ LeadingBlock(e.body) # <<>> /\ ~(\E a \in Range(Alts(e.body)) : IsWithin(a)) ->
         BodyOf(e, Pretty(cx, LeadingBlock(e.body)[1]))
    [] cx.force /\ e.mark # "" -> Grouped(e, Inline(cx, e.body))
    [] IsBare(e.body) -> Grouped(e, Reference(cx, e.body.name))
    [] LeadingBlock(e.body) # <<>> -> BodyOf(e, Pretty(cx, e.body))
    [] TopExpression(e.body) -> LET r == Inline(cx, e.body) IN BodyOf(e, With(r, Wrapped(r.out)))
    [] OTHER -> BodyOf(e, Verbatim(e.body))
Render(cx, how, node) ==
  CASE how = "inline" -> InlineType(cx, node)
    [] how = "lines" -> PrettyType(cx, node)
    [] OTHER -> RenderEntry(cx, node, how = "entry lines")
--------------------------------------------------------------------------------
(* What is printed, read again: an arm has at most one operator, and a     *)
(* group in parentheses may stand only where an entry may.                 *)
RECURSIVE Grammatical(_, _), Read(_)
GrammaticalAtom(a) ==
  CASE a.kind = "parens" -> Grammatical(a.text, FALSE)
    [] a.kind = "tagged" -> Grammatical(a.text, FALSE)
    [] a.kind = "block" -> \A g \in Range(a.groups) : \A e \in Range(g) :
                             (e.key # <<>> => Grammatical(e.key, FALSE)) /\ Grammatical(e.body, e.key = <<>>)
    [] OTHER -> TRUE
IsType(a) ==
  a.kind = "block" /\ a.open = "(" =>
    /\ Len(a.groups) = 1 /\ Len(a.groups[1]) = 1 /\ a.groups[1][1].mark = "" /\ a.groups[1][1].key = <<>>
    /\ \A arm \in Range(a.groups[1][1].body) : \A k \in DOMAIN arm : arm[k].kind = "block" => arm[k].open # "("
Grammatical(text, entry) ==
  /\ text # <<>>
  /\ \A arm \in Range(text) : Len(arm) \in {1, 3}
  /\ \A arm \in Range(text) : \A k \in DOMAIN arm :
       arm[k].kind # "sign" =>
         GrammaticalAtom(arm[k]) /\ (~IsType(arm[k]) => entry /\ Len(text) = 1 /\ Len(arm) = 1)

ReadEntry(e) == [mark |-> e.mark, min |-> e.min, max |-> e.max,
                 key |-> IF e.key = <<>> THEN NoKey ELSE Read(e.key), body |-> Read(e.body)]
ReadGroups(groups) == [k \in DOMAIN groups |-> [i \in DOMAIN groups[k] |-> ReadEntry(groups[k][i])]]
ReadAtom(a) ==
  CASE a.kind = "word" -> a.type
    [] a.kind = "parens" -> Parens(Read(a.text))
    [] a.kind = "tagged" -> Tagged(a.n, Read(a.text))
    [] a.open = "[" -> Array(ReadGroups(a.groups))
    [] a.open = "{" -> Map(ReadGroups(a.groups))
    [] IsType(a) -> Parens(Read(a.groups[1][1].body))
    [] OTHER -> Group(ReadGroups(a.groups))
ReadExpression(l, op, r) ==
  CASE op = ".." -> Between(l.value.n, r.value.n)
    [] op = ".cbor" /\ l = AnyBytes -> Embedded(r)
    [] OTHER -> [kind |-> "control", op |-> op, carrier |-> l, controller |-> r]
ReadArm(arm) == IF Len(arm) = 1 THEN ReadAtom(arm[1]) ELSE ReadExpression(ReadAtom(arm[1]), arm[2].op, ReadAtom(arm[3]))
Read(text) ==
  IF Len(text) = 1 THEN ReadArm(text[1]) ELSE Choice([k \in DOMAIN text |-> ReadArm(text[k])])
--------------------------------------------------------------------------------
Init ==
  /\ schema \in Schemas /\ pass = 1 /\ phase = "read"
  /\ resolution = [recursive |-> {}, elidable |-> {}]
  /\ first = <<>> /\ retained = <<>> /\ wanted = {} /\ deep = FALSE /\ previous = <<>>

(* `build_resolution`.                                                     *)
BuildResolution ==
  /\ phase = "read" /\ phase' = "root" /\ resolution' = Resolution
  /\ UNCHANGED <<schema, pass, first, retained, wanted, deep, previous>>

(* `render_cddl`: of the rules only the first one is printed.              *)
RenderFirst ==
  /\ phase = "root" /\ phase' = "rest"
  /\ LET r == Pretty(Context(RootRule), Rules[RootRule])
     IN first' = r.out /\ wanted' = r.refs /\ deep' = (deep \/ r.deep)
  /\ UNCHANGED <<schema, pass, resolution, retained, previous>>

(* A turn of `retain_referenced_definitions`, for one of the pending names:*)
(* a rule, or all that is plugged into a socket of types.                  *)
Pending == (wanted \cap (Defined \cup TypeSockets)) \ DOMAIN retained
Kept(x) ==
  FoldLeft(LAMBDA acc, p : LET r == Pretty(Context(IF x \in Defined THEN x ELSE ""), p)
                           IN Joined(acc, r, Append(acc.out, r.out)),
           NoArms, IF x \in Defined THEN <<Rules[x]>> ELSE schema.types[x])
Retain(x) ==
  /\ phase = "rest" /\ x \in Pending
  /\ LET r == Kept(x)
     IN retained' = (x :> r.out) @@ retained /\ wanted' = wanted \cup r.refs /\ deep' = (deep \/ r.deep)
  /\ UNCHANGED <<schema, pass, phase, resolution, first, previous>>

Finish ==
  /\ phase = "rest" /\ Pending = {} /\ phase' = "done"
  /\ UNCHANGED <<schema, pass, resolution, first, retained, wanted, deep, previous>>

(* The document that was printed: its rules and sockets, read again.       *)
Printout == (RootRule :> <<first>>) @@ retained
Legible == \A x \in DOMAIN Printout : \A k \in DOMAIN Printout[x] : Grammatical(Printout[x][k], x \in Defined)
Reread ==
  [rules |-> [x \in DOMAIN Printout \cap Defined |-> Read(Printout[x][1])],
   types |-> [x \in DOMAIN Printout \ Defined |-> [k \in DOMAIN Printout[x] |-> Read(Printout[x][k])]],
   groups |-> <<>>]

(* The rendering of what was rendered.                                     *)
Again ==
  /\ phase = "done" /\ pass = 1 /\ ~deep /\ Legible
  /\ schema' = Reread /\ previous' = [schema |-> schema, out |-> Printout] /\ pass' = 2 /\ phase' = "read"
  /\ first' = <<>> /\ retained' = <<>> /\ wanted' = {}
  /\ UNCHANGED <<resolution, deep>>

Next == BuildResolution \/ RenderFirst \/ (\E x \in Defined \cup TypeSockets : Retain(x)) \/ Finish \/ Again
Spec == Init /\ [][Next]_vars
================================================================================
