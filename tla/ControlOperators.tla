---------------------------- MODULE ControlOperators ----------------------------
(***************************************************************************)
(* Control operators: the structural check of the compiler (ctlop.rs) and  *)
(* what the validator makes of each operator (validate.rs).  A value comes *)
(* with the form it is encoded in, as far as the serialization operators   *)
(* ask for it: 0 plain, 1 preferred, 2 deterministic; Serialization        *)
(* models the check of the bytes.  While the contents of a byte string are *)
(* validated they are the source that paths are followed in, from the      *)
(* place of the byte string on.  Labels and hints are left to Validation,  *)
(* and how the loop comes to the state of a rule to ConstantResolution.    *)
(***************************************************************************)
EXTENDS Integers, Sequences, FiniteSets, FiniteSetsExt, SequencesExt

CONSTANTS
  Cases,      \* rules by name, with documents to check
  Texts,      \* texts by name: their size, and whether they are JSON
  Languages,  \* patterns by name: the texts they match
  Precision   \* bound: integers above it are rounded to even as floats
ASSUME PrecisionAssumption == Precision \in Nat

VARIABLES
  rules,      \* types by name, one of them "root"
  document,   \* top-level items
  static,     \* what the structural check reports
  result      \* of the validation

vars == <<rules, document, static, result>>

NotChecked == [stage |-> "none", errors |-> {}, warned |-> {}]
NotValidated == [stage |-> "none", ok |-> FALSE, warnings |-> <<>>, traces |-> {}]
Init ==
  /\ \E c \in Cases : rules = c.rules /\ document \in c.documents
  /\ static = NotChecked /\ result = NotValidated
--------------------------------------------------------------------------------
(* Items of a document.  `NaN` stands for the float that is no number.     *)
NaN == 1000
Number(n) == [kind |-> "int", n |-> n, form |-> 2]
Float(n) == [kind |-> "float", n |-> n, form |-> 2]
Text(x) == [kind |-> "text", text |-> x, form |-> 2]
List(items) == [kind |-> "list", items |-> items, form |-> 2]
TagOf(n, v) == [kind |-> "tagged", n |-> n, inner |-> v, form |-> 2]
Bytes(items) == [kind |-> "bytes", parses |-> TRUE, items |-> items, text |-> "", form |-> 2]
Raw(x) == [kind |-> "bytes", parses |-> FALSE, items |-> <<>>, text |-> x, form |-> 2]
Simple(n) == [kind |-> "simple", n |-> n, form |-> 2]
InForm(f, v) == [v EXCEPT !.form = f]

(* The form of an item with all it contains; byte strings are opaque.      *)
RECURSIVE FormOf(_)
FormOf(v) ==
  CASE v.kind = "list" -> Min({v.form} \cup {FormOf(i) : i \in Range(v.items)})
    [] v.kind = "tagged" -> Min({v.form, FormOf(v.inner)})
    [] OTHER -> v.form

(* Types.  `range` has bounds that are types, and leaves out its ends or   *)
(* not; `array` is any number of items of a type; the number of a tag or a *)
(* simple value is a type, or is left open.                                *)
Builtin(b) == [kind |-> "builtin", name |-> b]
Literal(v) == [kind |-> "literal", value |-> v]
Interval(lo, hi, open) == [kind |-> "range", lo |-> lo, hi |-> hi, open |-> open]
Array(t) == [kind |-> "array", body |-> t]
Tag(head, t) == [kind |-> "tag", head |-> head, body |-> t]
SimpleType(head) == [kind |-> "simple", head |-> head]
Choice(alts) == [kind |-> "choice", alts |-> alts]
Name(x) == [kind |-> "name", name |-> x]
Control(lhs, op, rhs) == [kind |-> "control", lhs |-> lhs, op |-> op, rhs |-> rhs]

--------------------------------------------------------------------------------
(* Operators by what is done about them.                                   *)
Serializations == {".cbor", ".prefp", ".dtrm", ".cborseq", ".prefpseq", ".dtrmseq"}
Sequences == {".cborseq", ".prefpseq", ".dtrmseq"}
Compressions == {".x-compressed", ".x-brotli", ".x-zstd", ".x-gzip", ".x-deflate"}
CompressionGrammars == {".x-compressed.abnf", ".x-brotli.abnf", ".x-zstd.abnf", ".x-gzip.abnf", ".x-deflate.abnf"}
Annotations == {".x-enc", ".x-hash"}
AnnotatedGrammars == {".x-enc.abnf", ".x-enc.abnfb", ".x-hash.abnf", ".x-hash.abnfb"}
Orderings == {".lt", ".le", ".gt", ".ge"}
Equalities == {".eq", ".ne"}
Grammars == {".abnf", ".abnfb"}
Joins == {".cat", ".det"}
Advisory == {".default", ".within", ".feature"}

(* The state a rule is folded to (`EntryState`) is written as the type it  *)
(* accepts: a literal, an interval, or a pattern.  Only a rule that is one *)
(* literal or name, or an alternative of a rule that is an interval or a   *)
(* control, is folded; what is below is not.                               *)
Variants ==
  {{".regexp"}, Grammars, {".x-enc.abnf", ".x-enc.abnfb"}, {".x-hash.abnf", ".x-hash.abnfb"}} \cup {{op} : op \in CompressionGrammars}
PatternOf(op, p) == [kind |-> "pattern", variant |-> CHOOSE ops \in Variants : op \in ops, pattern |-> p]
Alternatives(t) == IF t.kind = "choice" THEN t.alts ELSE <<t>>
Numeric == {"int", "float"}
RECURSIVE State(_)

(* `resolve_type2_leaf`: what is known of an operand; of a literal, only   *)
(* that of a number.                                                       *)
Leaf(t) ==
  CASE t.kind = "literal" /\ t.value.kind \in Numeric -> {t}
    [] t.kind = "name" /\ t.name \in DOMAIN rules -> State(t.name)
    [] OTHER -> {}

(* The constant an operand stands for.                                     *)
Constant(t) == {s.value : s \in {u \in Leaf(t) \cup {t} : u.kind = "literal"}}
ConstantOf(t, kinds) == {v \in Constant(t) : v.kind \in kinds}

(* The carriers a pattern is folded on.                                    *)
Carriers(op) ==
  CASE op \in Grammars \cup {".regexp"} -> {Builtin("text"), Builtin("bytes")}
    [] op \in AnnotatedGrammars \cup CompressionGrammars -> {Builtin("bytes")}
    [] OTHER -> {}

Sum(v, w) == [kind |-> IF v.kind = "int" /\ w.kind = "int" THEN "int" ELSE "float", n |-> v.n + w.n, form |-> 2]
Join(v, w) == Text(v.text \o w.text)

(* `try_build_range`, `try_eval_ctlop`: the state of an alternative.  A    *)
(* pattern has to parse, its carrier is not kept.  Literals are joined by  *)
(* `.cat` and `.det` only under a name.                                    *)
Folded(t) ==
  CASE t.kind = "range" ->
         {Interval(Literal(p[1]), Literal(p[2]), t.open) :
            p \in {q \in ConstantOf(t.lo, Numeric) \X ConstantOf(t.hi, Numeric) : q[1].kind = q[2].kind}}
    [] t.kind = "control" /\ t.lhs \in Carriers(t.op) ->
         {PatternOf(t.op, p) : p \in {v.text : v \in ConstantOf(t.rhs, {"text"})} \cap DOMAIN Languages}
    [] t.kind = "control" /\ t.op = ".plus" ->
         {Literal(Sum(p[1], p[2])) : p \in ConstantOf(t.lhs, Numeric) \X ConstantOf(t.rhs, Numeric)}
    [] t.kind = "control" /\ t.op \in Joins /\ t.lhs.kind = "name" /\ t.rhs.kind = "name" ->
         {Literal(Join(p[1], p[2])) : p \in ConstantOf(t.lhs, {"text"}) \X ConstantOf(t.rhs, {"text"})}
    [] OTHER -> {}

(* `resolve_constants`: a rule has the state of its first alternative that *)
(* has one, whatever the others are; a second state is an error (E014).    *)
State(x) ==
  LET alts == Alternatives(rules[x])
      folded == {k \in DOMAIN alts : Folded(alts[k]) # {}}
  IN CASE rules[x].kind = "literal" -> {rules[x]}
       [] rules[x].kind = "name" -> Leaf(rules[x])
       [] folded # {} -> Folded(alts[Min(folded)])
       [] OTHER -> {}
Conflicting(x) == Cardinality(UNION {Folded(a) : a \in Range(Alternatives(rules[x]))}) > 1

(* `resolve_text_rhs_for_abnf_with_det`: a label before `.det` is dropped, *)
(* unless the rule was folded to a text with the label in it.              *)
RECURSIVE Pattern(_)
Pattern(t) ==
  CASE Constant(t) # {} -> {v.text : v \in ConstantOf(t, {"text"})}
    [] t.kind = "name" /\ t.name \in DOMAIN rules -> Pattern(rules[t.name])
    [] t.kind = "control" /\ t.op = ".det" -> IF Pattern(t.lhs) = {} THEN {} ELSE Pattern(t.rhs)
    [] OTHER -> {}

(* `serialization_width`, `requires_deterministic` and the others.         *)
Width(op) == CASE op \in {".cbor", ".cborseq"} -> 0 [] op \in {".prefp", ".prefpseq"} -> 1 [] OTHER -> 2

(* `operand_family`.                                                       *)
FamilyOf(v) == CASE v.kind = "int" -> "integer" [] OTHER -> v.kind
Family(t) ==
  CASE Constant(t) # {} -> FamilyOf(CHOOSE v \in Constant(t) : TRUE)
    [] t.kind = "name" /\ \E s \in Leaf(t) : s.kind = "range" -> FamilyOf((CHOOSE s \in Leaf(t) : TRUE).lo.value)
    [] t.kind = "builtin" ->
         (CASE t.name \in {"int", "uint"} -> "integer" [] t.name \in {"float", "number"} -> "numeric" [] OTHER -> t.name)
    [] t.kind = "array" -> "array"
    [] OTHER -> "unknown"

(* The operands an operator admits.  A family that is not known is let     *)
(* through.                                                                *)
NumberFamilies == {"numeric", "integer", "float"}
Admitted(op) ==
  CASE op \in Grammars \cup {".regexp"} -> [lhs |-> {"text", "bytes"}, rhs |-> {}]
    [] op \in Joins -> [lhs |-> {"text", "bytes"}, rhs |-> {"text", "bytes"}]
    [] op \in AnnotatedGrammars \cup CompressionGrammars -> [lhs |-> {"bytes"}, rhs |-> {"text", "bytes"}]
    [] op \in Annotations \cup Compressions -> [lhs |-> {"bytes"}, rhs |-> {"any"}]
    [] op \in Orderings \cup {".plus"} -> [lhs |-> NumberFamilies, rhs |-> NumberFamilies]
    [] op = ".json" -> [lhs |-> {"text"}, rhs |-> {"any", "group"}]
    [] op = ".size" -> [lhs |-> {"text", "bytes", "numeric", "integer"}, rhs |-> {"numeric", "integer"}]
    [] op = ".bits" -> [lhs |-> {"bytes", "numeric", "integer"}, rhs |-> {"numeric", "integer", "array", "group"}]
    [] op = ".feature" -> [lhs |-> {"any", "text", "bytes"}, rhs |-> {"text", "array", "group", "any"}]
    [] op \in Serializations -> [lhs |-> {"any", "text", "bytes"}, rhs |-> {"any", "text", "bytes", "array", "group"}]
    [] OTHER -> [lhs |-> {}, rhs |-> {}]

(* Mutant: an operand of which nothing is known is refused.                *)
FitsKnown(op, lhs, rhs) ==
  \/ op \in Equalities \cup {".and", ".default", ".within"}
  \/ /\ Family(lhs) \in Admitted(op).lhs
     /\ op \in Grammars \cup {".regexp"} \/ Family(rhs) \in Admitted(op).rhs

(* `validate_ctlop_semantics`.  Relations hold between any operands, a     *)
(* pattern is not looked at, and an unknown operator is refused.           *)
Fits(op, lhs, rhs) ==
  \/ op \in Equalities \cup {".and", ".default", ".within"}
  \/ /\ Family(lhs) \in Admitted(op).lhs \cup {"unknown"} /\ Admitted(op).lhs # {}
     /\ op \in Grammars \cup {".regexp"} \/ Family(rhs) \in Admitted(op).rhs \cup {"unknown"}

(* `validate_ctlop_walk_children`: the control operators of a rule, those  *)
(* in parentheses and in arrays left out.                                  *)
Misfits(x) == {t \in Range(Alternatives(rules[x])) : t.kind = "control" /\ ~Fits(t.op, t.lhs, t.rhs)}

(* `find_serialization_ctlop_on_any`, which looks at the first alternative *)
(* and does not ask what the carrier is.                                   *)
Composed(x) ==
  {c \in {Alternatives(rules[x])[1]} : c.kind = "control" /\ c.op \in Serializations}

(* `warn_serialization_weaker_inner`.                                      *)
Weaker(x) ==
  \E c \in Composed(x) : c.rhs.kind = "name" /\ c.rhs.name \in DOMAIN rules
                           /\ \E d \in Composed(c.rhs.name) : Width(d.op) < Width(c.op)
--------------------------------------------------------------------------------
(* `source_relative_path`, `locate_item`: the item a path leads to in the  *)
(* source, from the place on that the source stands for.                   *)
RECURSIVE Follow(_, _)
Follow(v, path) ==
  CASE path = <<>> -> {v}
    [] path # <<>> /\ path[1][1] = "item" /\ v.kind = "list" ->
         IF path[1][2] \in DOMAIN v.items THEN Follow(v.items[path[1][2]], Tail(path)) ELSE {}
    [] path # <<>> /\ path[1][1] = "inner" /\ v.kind = "tagged" -> Follow(v.inner, Tail(path))
    [] OTHER -> {}
Located(source, path) ==
  LET rest == SubSeq(path, Len(source.path) + 1, Len(path))
  IN IF ~IsPrefix(source.path, path) \/ rest = <<>> \/ rest[1][1] # "top" \/ rest[1][2] \notin DOMAIN source.items THEN {}
     ELSE Follow(source.items[rest[1][2]], Tail(rest))

Yes(tr) == [ok |-> TRUE, trace |-> tr]
No(tr) == [ok |-> FALSE, trace |-> tr]
Holds(b, tr) == [ok |-> b, trace |-> tr]

(* `record_validation_warning_once`, `record_abnf_match_trace`: a warning  *)
(* is kept once, of the traces of a place the last one.                    *)
Warned(tr, path, op) ==
  IF <<path, op>> \in Range(tr.warnings) THEN tr ELSE [tr EXCEPT !.warnings = Append(@, <<path, op>>)]
Traced(tr, path, p) ==
  [tr EXCEPT !.traces = {t \in @ : t.path # path} \cup {[path |-> path, pattern |-> p]}]

(* Mutant: the warnings of an alternative that failed stay.                *)
TruncatedNot(tr, size) == tr

(* `truncate_validation_warnings`.                                         *)
Truncated(tr, size) == [tr EXCEPT !.warnings = SubSeq(@, 1, Min({size, Len(@)}))]
--------------------------------------------------------------------------------
(* `numeric_as_f64`, `numeric_lt` and the others: two integers are         *)
(* compared as such, otherwise both as floats; no number is next to NaN.   *)
AsFloat(v) == IF v.kind = "int" /\ v.n > Precision THEN v.n - (v.n % 2) ELSE v.n
Ordered(op, m, n) == CASE op = ".lt" -> m < n [] op = ".le" -> m <= n [] op = ".gt" -> m > n [] op = ".ge" -> m >= n
Compares(op, v, w) ==
  IF v.kind = "int" /\ w.kind = "int" THEN Ordered(op, v.n, w.n)
  ELSE NaN \notin {v.n, w.n} /\ Ordered(op, AsFloat(v), AsFloat(w))

(* `values_equal`.                                                         *)
Equal(v, w) ==
  IF v.kind \in Numeric /\ w.kind \in Numeric
  THEN IF v.kind = "int" /\ w.kind = "int" THEN v.n = w.n
       ELSE NaN \notin {v.n, w.n} /\ AsFloat(v) = AsFloat(w)
  ELSE v.kind = "text" /\ w.kind = "text" /\ v.text = w.text

(* `validate_ordering_rhs`, `validate_equality_rhs`: the right side has to  *)
(* be a constant.                                                          *)
IsOrdered(op, rhs, v) == v.kind \in Numeric /\ \E c \in ConstantOf(rhs, Numeric) : Compares(op, v, c)
IsEqual(op, rhs, v) == \E c \in ConstantOf(rhs, Numeric \cup {"text"}) : Equal(v, c) = (op = ".eq")

(* A pattern that is not in Languages does not parse.                      *)
InLanguage(p, v) == p \in DOMAIN Languages /\ v.kind \in {"text", "bytes"} /\ v.text \in Languages[p]

(* `validate_state`: a float is told from another by their distance, which *)
(* NaN has from none; both ends of an interval are left out or neither; a  *)
(* pattern is matched by texts and byte strings, and nothing is recorded.  *)
IsLiteral(c, v) ==
  /\ v.kind = c.kind
  /\ CASE c.kind = "int" -> v.n = c.n
       [] c.kind = "float" -> v.n = c.n \/ NaN \in {v.n, c.n}
       [] c.kind = "text" -> v.text = c.text
IsBetween(lo, hi, open, v) ==
  v.kind = lo.kind /\ v.n # NaN /\ IF open THEN lo.n < v.n /\ v.n < hi.n ELSE lo.n <= v.n /\ v.n <= hi.n
MatchesState(s, v) ==
  CASE s.kind = "literal" -> IsLiteral(s.value, v)
    [] s.kind = "range" -> IsBetween(s.lo.value, s.hi.value, s.open, v)
    [] s.kind = "pattern" -> InLanguage(s.pattern, v)

(* `validate_range_value`: both bounds are integers, or both floats.       *)
InInterval(t, v) == \E s \in Folded(t) : MatchesState(s, v)

(* `validate_builtin`.                                                     *)
MatchesBuiltin(b, v) ==
  CASE b = "any" -> TRUE
    [] b \in {"int", "float", "text", "bytes"} -> v.kind = b
    [] b = "uint" -> v.kind = "int" /\ v.n >= 0
    [] b = "number" -> v.kind \in Numeric

(* `value_len`.                                                            *)
SizeOf(v) ==
  CASE v.kind = "bytes" -> {IF v.text = "" THEN Len(v.items) ELSE Texts[v.text].size}
    [] v.kind = "text" -> {Texts[v.text].size}
    [] v.kind = "list" -> {Len(v.items)}
    [] OTHER -> {}

(* `validate_regex_rhs`, `validate_abnf_rhs`.                              *)
MatchesRegex(t, v) == \E c \in ConstantOf(t, {"text"}) : InLanguage(c.text, v)
CheckGrammar(t, v, path, tr) ==
  IF \E p \in Pattern(t) : InLanguage(p, v) THEN Yes(Traced(tr, path, CHOOSE p \in Pattern(t) : TRUE)) ELSE No(tr)
--------------------------------------------------------------------------------
RECURSIVE Check(_, _, _, _, _)

(* Mutant: the place of the byte string is not set, as if its contents     *)
(* were the document.                                                      *)
OpenedAt(items, path) == [items |-> items, path |-> <<>>]

(* `set_current_source_bytes`, `set_current_source_path`.                  *)
Opened(items, path) == [items |-> items, path |-> path]

(* `validate_embedded_cbor_with_hint` on a byte string: the contents are   *)
(* parsed, their form is checked, and each item is validated, also after   *)
(* one that fails; a violation of the preferred form does not keep the     *)
(* items from being validated.                                             *)
EmbeddedItems(rhs, v, path, tr) ==
  FoldLeft(LAMBDA r, k : LET i == Check(rhs, v.items[k], Append(path, <<"top", k>>), Opened(v.items, path), r.trace)
                         IN Holds(r.ok /\ i.ok, i.trace),
           Yes(tr), [k \in DOMAIN v.items |-> k])
FormHolds(op, items) == \A i \in Range(items) : FormOf(i) >= Width(op)
CheckEmbedded(op, rhs, v, path, tr) ==
  IF \/ ~v.parses
     \/ op \notin Sequences /\ Len(v.items) # 1
     \/ Width(op) # 1 /\ ~FormHolds(op, v.items)
  THEN No(tr)
  ELSE LET r == EmbeddedItems(rhs, v, path, tr) IN Holds(r.ok /\ FormHolds(op, v.items), r.trace)

(* The same on any other value: the item is looked up in the source.       *)
CheckInPlace(op, rhs, v, path, source, tr) ==
  IF Width(op) > 0 /\ ~(\E i \in Located(source, path) : FormOf(i) >= Width(op)) THEN No(tr)
  ELSE Check(rhs, v, path, source, tr)

(* `.size`: an integer on the right is the size; any other type is one the *)
(* size has to have.                                                       *)
CheckSize(rhs, v, path, source, tr) ==
  IF SizeOf(v) = {} THEN No(tr)
  ELSE IF ConstantOf(rhs, {"int"}) # {}
  THEN Holds(\E c \in ConstantOf(rhs, {"int"}) : c.n \in SizeOf(v), tr)
  ELSE Check(rhs, Number(Max(SizeOf(v))), path, source, tr)

(* `validate_ctlop_value`, after the left side has accepted.               *)
CheckRight(op, rhs, v, path, source, tr) ==
  CASE op = ".size" -> CheckSize(rhs, v, path, source, tr)
    [] op = ".regexp" -> Holds(MatchesRegex(rhs, v), tr)
    [] op \in Grammars -> CheckGrammar(rhs, v, path, tr)
    [] op \in Compressions \cup CompressionGrammars \cup AnnotatedGrammars -> Yes(Warned(tr, path, op))
    [] op = ".json" -> Holds(v.kind = "text" /\ Texts[v.text].json, tr)
    [] op \in Orderings -> Holds(IsOrdered(op, rhs, v), tr)
    [] op \in Equalities -> Holds(IsEqual(op, rhs, v), tr)
    [] op \in Annotations \cup Advisory -> Yes(tr)
    [] op \in Serializations /\ v.kind = "bytes" -> CheckEmbedded(op, rhs, v, path, tr)
    [] op \in Serializations /\ v.kind # "bytes" -> CheckInPlace(op, rhs, v, path, source, tr)
    [] OTHER -> No(tr)
ThenRight(t, v, path, source, left) ==
  IF left.ok THEN CheckRight(t.op, t.rhs, v, path, source, left.trace) ELSE left

(* `validate_type_choice`: the warnings of an alternative that failed are  *)
(* dropped, the traces of its patterns are not.                            *)
CheckChoice(alts, v, path, source, tr) ==
  FoldLeft(LAMBDA r, t : IF r.ok THEN r
                         ELSE LET a == Check(t, v, path, source, r.trace)
                              IN IF a.ok THEN a ELSE No(Truncated(a.trace, Len(r.trace.warnings))),
           No(tr), alts)

(* `head_number_matches_tag`, `head_number_matches_simple`: the number has *)
(* to have the type in the head.                                           *)
SimpleCode(v) == CASE v.kind = "simple" -> {v.n} [] v.kind = "float" -> {27} [] OTHER -> {}
HeadMatches(head, n, path, source, tr) ==
  FoldLeft(LAMBDA r, t : Check(t, Number(n), path, source, r.trace), Yes(tr), head)
ThenInner(t, v, path, source, r) ==
  IF r.ok THEN Check(t.body, v.inner, Append(path, <<"inner", 0>>), source, r.trace) ELSE r

(* `validate_tag_or_simple`.                                               *)
CheckTagOrSimple(t, v, path, source, tr) ==
  CASE t.kind = "tag" /\ v.kind = "tagged" ->
         ThenInner(t, v, path, source, HeadMatches(t.head, v.n, path, source, tr))
    [] t.kind = "simple" /\ SimpleCode(v) # {} -> HeadMatches(t.head, Max(SimpleCode(v)), path, source, tr)
    [] OTHER -> No(tr)

(* `validate_named_rule`, `validate_rule_node`, and the first branch of    *)
(* `validate_schema_node`: a name with a state stands for the state.       *)
CheckNamed(x, v, path, source, tr) ==
  CASE x \notin DOMAIN rules -> No(tr)
    [] x \in DOMAIN rules /\ State(x) # {} -> Holds(\A s \in State(x) : MatchesState(s, v), tr)
    [] OTHER -> Check(rules[x], v, path, source, tr)

(* The items of an array, which Validation models with all occurrences.    *)
CheckItems(t, v, path, source, tr) ==
  IF v.kind # "list" THEN No(tr)
  ELSE FoldLeft(LAMBDA r, k : IF r.ok THEN Check(t.body, v.items[k], Append(path, <<"item", k>>), source, r.trace) ELSE r,
                Yes(tr), [k \in DOMAIN v.items |-> k])

(* `validate_type1`: an interval, a control operator, or a type as such.   *)
CheckType1(t, v, path, source, tr) ==
  IF t.kind = "range" THEN Holds(InInterval(t, v), tr)
  ELSE ThenRight(t, v, path, source, Check(t.lhs, v, path, source, tr))

(* `validate_type2`.                                                       *)
Check(t, v, path, source, tr) ==
  CASE t.kind = "builtin" -> Holds(MatchesBuiltin(t.name, v), tr)
    [] t.kind = "literal" -> Holds(IsLiteral(t.value, v), tr)
    [] t.kind = "name" -> CheckNamed(t.name, v, path, source, tr)
    [] t.kind = "array" -> CheckItems(t, v, path, source, tr)
    [] t.kind \in {"tag", "simple"} -> CheckTagOrSimple(t, v, path, source, tr)
    [] t.kind = "choice" -> CheckChoice(t.alts, v, path, source, tr)
    [] t.kind \in {"range", "control"} -> CheckType1(t, v, path, source, tr)

(* `root_cbor_sequence_controller`: of the first alternative of the root.  *)
RootController ==
  {c \in {Alternatives(rules["root"])[1]} :
     c.kind = "control" /\ c.op \in {".cborseq", ".dtrmseq"} /\ c.lhs = Builtin("any")}

(* `validate_document`: a sequence is validated as if it were an array.    *)
CheckDocument ==
  LET source == [items |-> document, path |-> <<>>]
      clear == [warnings |-> <<>>, traces |-> {}]
      first == <<<<"top", 1>>>>
  IN IF RootController # {}
     THEN LET c == CHOOSE c \in RootController : TRUE IN Check(c.rhs, List(document), first, source, clear)
     ELSE IF Len(document) # 1 THEN No(clear)
     ELSE CheckNamed("root", document[1], first, source, clear)
--------------------------------------------------------------------------------
(* `resolve_constants`, `validate_ctlop_pass`,                             *)
(* `warn_serialization_weaker_inner`.                                      *)
Compile ==
  /\ static.stage = "none"
  /\ static' = [stage |-> "done", errors |-> {x \in DOMAIN rules : Misfits(x) # {} \/ Conflicting(x)},
                warned |-> {x \in DOMAIN rules : Weaker(x)}]
  /\ UNCHANGED <<rules, document, result>>

(* `exec`: only what compiles without an error is validated.               *)
Validate ==
  /\ static.stage = "done" /\ static.errors = {} /\ result.stage = "none"
  /\ LET r == CheckDocument
     IN result' = [stage |-> "done", ok |-> r.ok, warnings |-> r.trace.warnings, traces |-> r.trace.traces]
  /\ UNCHANGED <<rules, document, static>>
Next == Compile \/ Validate
Spec == Init /\ [][Next]_vars
--------------------------------------------------------------------------------
(* What an operator means for a value its left side accepts, whatever the  *)
(* source and the path: the reference for the validator, of RFC 8610, RFC  *)
(* 9165 and the drafts the operators are from.  Nothing is folded here.    *)
RECURSIVE ValueOf(_), GrammarOf(_), Means(_, _)
ValueOf(t) ==
  CASE t.kind = "literal" -> {t.value}
    [] t.kind = "name" /\ t.name \in DOMAIN rules -> ValueOf(rules[t.name])
    [] t.kind = "control" /\ t.op = ".plus" -> {Sum(v, w) : v \in ValueOf(t.lhs), w \in ValueOf(t.rhs)}
    [] t.kind = "control" /\ t.op \in Joins -> {Join(v, w) : v \in ValueOf(t.lhs), w \in ValueOf(t.rhs)}
    [] OTHER -> {}
GrammarOf(t) ==
  CASE t.kind = "name" /\ t.name \in DOMAIN rules -> GrammarOf(rules[t.name])
    [] t.kind = "control" /\ t.op = ".det" -> GrammarOf(t.rhs)
    [] OTHER -> {v.text : v \in {w \in ValueOf(t) : w.kind = "text"}}
Same(c, v) == c = InForm(2, v) \/ ({c.kind, v.kind} \subseteq Numeric /\ c.n = v.n)
MeansRight(op, rhs, v) ==
  CASE op = ".size" /\ v.kind = "int" -> v.n >= 0 /\ \E c \in ValueOf(rhs) : c.kind = "int" /\ v.n < 256 ^ c.n
    [] op = ".size" /\ v.kind # "int" -> \E n \in SizeOf(v) : Means(rhs, Number(n))
    [] op = ".regexp" -> \E c \in ValueOf(rhs) : c.kind = "text" /\ InLanguage(c.text, v)
    [] op \in Grammars -> \E p \in GrammarOf(rhs) : InLanguage(p, v)
    [] op = ".json" -> v.kind = "text" /\ Texts[v.text].json
    [] op \in Orderings ->
         v.kind \in Numeric /\ v.n # NaN /\ \E c \in ValueOf(rhs) : c.kind \in Numeric /\ Ordered(op, v.n, c.n)
    [] op = ".eq" -> \E c \in ValueOf(rhs) : Same(c, v)
    [] op = ".ne" -> \E c \in ValueOf(rhs) : ~Same(c, v)
    [] op \in Serializations /\ v.kind = "bytes" ->
         /\ v.parses /\ (op \in Sequences \/ Len(v.items) = 1)
         /\ \A i \in Range(v.items) : FormOf(i) >= Width(op) /\ Means(rhs, i)
    [] op \in Serializations /\ v.kind # "bytes" -> FormOf(v) >= Width(op) /\ Means(rhs, v)
    [] OTHER -> TRUE
Means(t, v) ==
  CASE t.kind = "builtin" -> MatchesBuiltin(t.name, v)
    [] t.kind = "literal" -> t.value = InForm(2, v)
    [] t.kind = "range" -> \E lo \in ValueOf(t.lo), hi \in ValueOf(t.hi) :
                             v.kind = lo.kind /\ v.kind = hi.kind /\ lo.n <= v.n /\ (IF t.open THEN v.n < hi.n ELSE v.n <= hi.n)
    [] t.kind = "name" -> t.name \in DOMAIN rules /\ Means(rules[t.name], v)
    [] t.kind = "array" -> v.kind = "list" /\ \A i \in Range(v.items) : Means(t.body, i)
    [] t.kind = "tag" -> v.kind = "tagged" /\ (\A h \in Range(t.head) : Means(h, Number(v.n))) /\ Means(t.body, v.inner)
    [] t.kind = "simple" -> SimpleCode(v) # {} /\ \A h \in Range(t.head), n \in SimpleCode(v) : Means(h, Number(n))
    [] t.kind = "choice" -> \E a \in Range(t.alts) : Means(a, v)
    [] t.kind = "control" /\ t.op \in Joins \cup {".plus"} -> InForm(2, v) \in ValueOf(t)
    [] t.kind = "control" /\ t.op \notin Joins \cup {".plus"} -> Means(t.lhs, v) /\ MeansRight(t.op, t.rhs, v)
MeansDocument ==
  IF RootController # {} THEN \E c \in RootController : Means(c.rhs, List(document))
  ELSE Len(document) = 1 /\ Means(rules["root"], document[1])

(* All the types and the items there are.                                  *)
RECURSIVE Subtypes(_), Items(_)
Subtypes(t) ==
  {t} \cup CASE t.kind \in {"array", "tag"} -> Subtypes(t.body)
             [] t.kind = "choice" -> UNION {Subtypes(a) : a \in Range(t.alts)}
             [] t.kind = "control" -> Subtypes(t.lhs) \cup Subtypes(t.rhs)
             [] OTHER -> {}
Items(v) ==
  {v} \cup CASE v.kind \in {"list", "bytes"} -> UNION {Items(i) : i \in Range(v.items)}
             [] v.kind = "tagged" -> Items(v.inner)
             [] OTHER -> {}
AllTypes == UNION {Subtypes(rules[x]) : x \in DOMAIN rules}
AllItems == UNION {Items(i) : i \in Range(document)}
Numerals == {v \in AllItems \cup UNION {ValueOf(t) : t \in AllTypes} : v.kind \in Numeric}

(* Where the validator is known to depart from the meaning.                *)
(* `Unimplemented`: `.bits` and `.and` accept nothing, `.size` does not    *)
(* know the size of an integer, an interval `...` leaves out both ends.    *)
Unimplemented(t) ==
  \/ t.kind = "control" /\ t.op \in {".bits", ".and"}
  \/ t.kind = "control" /\ t.op = ".size" /\ \E v \in AllItems : v.kind = "int"
  \/ t.kind = "range" /\ t.open

(* A NaN matches every float literal.                                      *)
MatchesNaN(t) == t.kind = "literal" /\ t.value.kind = "float" /\ Float(NaN) \in AllItems

(* A constant that is written with an operator is not known where the      *)
(* compiler did not fold it, as a type and on the right of an operator; a  *)
(* grammar is not found where it did, as the label is still in front.      *)
NotFolded(t) ==
  /\ t.kind = "control"
  /\ IF t.op \in Joins \cup {".plus"}
     THEN Folded(t) = {} /\ ValueOf(t) \cap {InForm(2, v) : v \in AllItems} # {}
     ELSE IF t.op \in Grammars THEN GrammarOf(t.rhs) # Pattern(t.rhs) ELSE ValueOf(t.rhs) # Constant(t.rhs)

(* A rule that was folded to a pattern matches texts and byte strings,     *)
(* whatever its carrier is, and the bytes themselves where the pattern is  *)
(* of what they encode; one that is a choice matches one alternative.      *)
FoldedCarrier(x) ==
  \E a \in Range(Alternatives(rules[x])), v \in AllItems :
    a.kind = "control" /\ a.lhs \in Carriers(a.op) /\ v.kind \in {"text", "bytes"} \ {a.lhs.name}
FoldedPayload(x) ==
  \E a \in Range(Alternatives(rules[x])) : a.kind = "control" /\ a.op \in AnnotatedGrammars \cup CompressionGrammars
FoldedChoice(x) == rules[x].kind = "choice"
Misfolded(x) == State(x) # {} /\ (FoldedCarrier(x) \/ FoldedPayload(x) \/ FoldedChoice(x))

(* Large integers are rounded against floats.  The form of a root sequence *)
(* is not checked, and of its items the one that is looked up is not the   *)
(* one that is validated.                                                  *)
Rounded == \E v, w \in Numerals : v.kind = "int" /\ w.kind = "float" /\ v.n > Precision
UncheckedSequence == \E c \in RootController : c.op # ".cborseq" \/ \E t \in AllTypes : t.kind = "control" /\ t # c
Regular ==
  /\ ~\E t \in AllTypes : Unimplemented(t) \/ MatchesNaN(t) \/ NotFolded(t)
  /\ ~\E x \in DOMAIN rules : Misfolded(x)
  /\ ~Rounded /\ ~UncheckedSequence

(* The validator accepts exactly what the operators mean, through names,   *)
(* choices, tags, arrays and byte strings in byte strings: whatever was    *)
(* validated before, an item is looked up where it stands                  *)
(* (`validate_embedded_cbor_with_hint`, `validate_ctlop_value`).  It does  *)
(* not where `Regular` says: among others for a NaN against a float        *)
(* literal and for many rules that were folded, as `.regexp` is to its     *)
(* pattern without its carrier and a choice to one alternative.            *)
Agrees == result.stage = "done" /\ Regular => (result.ok = MeansDocument)

(* What a value the validator accepts was matched by: the operators that   *)
(* are not enforced and the patterns, by the first alternatives that match.*)
(* Nothing is reported of a rule that was folded.                          *)
RECURSIVE Uses(_, _, _)
UsesRight(op, rhs, v, path) ==
  CASE op \in Compressions \cup CompressionGrammars \cup AnnotatedGrammars -> {[path |-> path, warning |-> TRUE, of |-> op]}
    [] op \in Grammars -> {[path |-> path, warning |-> FALSE, of |-> p] : p \in GrammarOf(rhs)}
    [] op = ".size" /\ ConstantOf(rhs, {"int"}) = {} -> UNION {Uses(rhs, Number(n), path) : n \in SizeOf(v)}
    [] op \in Serializations /\ v.kind = "bytes" ->
         UNION {Uses(rhs, v.items[k], Append(path, <<"top", k>>)) : k \in DOMAIN v.items}
    [] op \in Serializations /\ v.kind # "bytes" -> Uses(rhs, v, path)
    [] OTHER -> {}
Uses(t, v, path) ==
  CASE t.kind = "name" -> IF State(t.name) # {} THEN {} ELSE Uses(rules[t.name], v, path)
    [] t.kind = "array" -> UNION {Uses(t.body, v.items[k], Append(path, <<"item", k>>)) : k \in DOMAIN v.items}
    [] t.kind = "tag" -> Uses(t.body, v.inner, Append(path, <<"inner", 0>>))
    [] t.kind = "choice" ->
         Uses(t.alts[Min({k \in DOMAIN t.alts : Means(t.alts[k], v)})], v, path)
    [] t.kind = "control" -> Uses(t.lhs, v, path) \cup UsesRight(t.op, t.rhs, v, path)
    [] OTHER -> {}

(* A user is warned of exactly the operators that are not enforced on the  *)
(* way the document was accepted, not of those of alternatives that        *)
(* failed, and each place a pattern was used at shows a pattern used       *)
(* there (`validate_type_choice`, `record_abnf_match_trace`).  Of a rule   *)
(* that the compiler folded there is no warning and no pattern shown; a    *)
(* place where no pattern was used may show the pattern of an alternative  *)
(* that failed further on, as traces are not taken back.                   *)
Reported ==
  result.ok /\ Regular =>
    LET used == IF RootController # {} THEN UNION {Uses(c.rhs, List(document), <<<<"top", 1>>>>) : c \in RootController}
                ELSE Uses(Name("root"), document[1], <<<<"top", 1>>>>)
    IN /\ Range(result.warnings) = {<<u.path, u.of>> : u \in {w \in used : w.warning}}
       /\ \A u \in used : u.warning \/ \E t \in result.traces :
            t.path = u.path /\ \E w \in used : ~w.warning /\ w.path = t.path /\ w.of = t.pattern

(* The structural check does not turn down a control that could be used:   *)
(* what it refuses of the operators that are enforced matches no item      *)
(* (`validate_ctlop_semantics`, E015).  Not so where `any` is an operand,  *)
(* of the `.size` of an array, and of serializations on an array or of a   *)
(* number: the operators take both, and a test vector has `[+ uint] .prefpseq` *)
(* (draft_cbor_serialization_all_operators.cddl:18).                       *)
Enforced == Orderings \cup Grammars \cup Serializations \cup {".size", ".regexp"}
Usable(t) ==
  \/ Builtin("any") \in {t.lhs, t.rhs}
  \/ t.op = ".size" /\ t.lhs.kind = "array"
  \/ t.op \in Serializations /\ (t.lhs.kind = "array" \/ Family(t.rhs) \notin Admitted(t.op).rhs \cup {"unknown"})
RefusedMatchNothing ==
  static.stage = "done" =>
    \A x \in static.errors : \A t \in Misfits(x) : t.op \in Enforced /\ ~Usable(t) => \A v \in AllItems : ~Means(t, v)

================================================================================
