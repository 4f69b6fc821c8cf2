------------------------------- MODULE Containment -------------------------------
(***************************************************************************)
(* The check of `A .within B` (within.rs): both types are put in a form    *)
(* without syntax and compared by structure.  Names that are compared are  *)
(* kept in a set that is never reduced, and that a map starts anew; a      *)
(* comparison is [ok, seen, deep, stale], where `deep` says that it went   *)
(* deeper than the stack, and the history `stale` that it took for granted *)
(* what had been refuted.  Reasons and places of a conflict are left out,  *)
(* and names with the prefix of an import.                                 *)
(***************************************************************************)
EXTENDS CddlMeaning

CONSTANTS
  Schema,     \* rules by name, and what is plugged into sockets
  Families,   \* types that are compared: records of lefts and rights
  Values,     \* values by which types are told apart
  Stack       \* bound: levels of names a comparison may be nested in
ASSUME StackAssumption == Stack \in Nat \ {0}

VARIABLES
  left, right,
  template,   \* whether the rule has generic parameters
  verdict,    \* "none", "skipped", "within", "conflict" or "overflow"
  stale       \* history: a pair that had been refuted was met again

vars == <<left, right, template, verdict, stale>>

Init ==
  /\ \E f \in Families : left \in f.lefts /\ right \in f.rights
  /\ template \in BOOLEAN /\ verdict = "none" /\ stale = FALSE
--------------------------------------------------------------------------------
(* `ResolvedType`.                                                         *)
ResolvedAny == [kind |-> "any"]
Primitive(p) == [kind |-> "primitive", name |-> p]
Named(x) == [kind |-> "named", name |-> x]
Socket(x) == [kind |-> "socket", name |-> x]
Alternatives(alts) == [kind |-> "choice", alts |-> alts]
Interval(lo, hi) == [kind |-> "range", lo |-> lo, hi |-> hi]
InTag(n, inner) == [kind |-> "tag", n |-> n, inner |-> inner]
Control(op, carrier, controller) == [kind |-> "control", op |-> op, carrier |-> carrier, controller |-> controller]
Element(type, occ) == [type |-> type, occ |-> occ]
Field(key, value, occ) == [key |-> key, value |-> value, occ |-> occ]

(* `resolve_occurrence`.                                                   *)
Occurrence(e) == [mark |-> e.mark, min |-> e.min, max |-> e.max]
Once == [mark |-> "", min |-> 1, max |-> 1]

RECURSIVE Resolve(_), ResolveGroup(_, _)

(* An entry of a group: one in parentheses is merged without its           *)
(* occurrence, if it has no alternatives; a bare name in a map is a socket *)
(* whose value may be anything; what is left are elements of an array.     *)
MapEntry(acc, e) ==
  CASE e.key # NoKey -> [acc EXCEPT !.entries = Append(@, Field(Resolve(e.key), Resolve(e.body), Occurrence(e)))]
    [] e.key = NoKey /\ acc.map /\ e.body.kind = "name" ->
         [acc EXCEPT !.entries = Append(@, Field(Socket(e.body.name), ResolvedAny, Occurrence(e)))]
    [] OTHER -> [acc EXCEPT !.elements = Append(@, Element(Resolve(e.body), Occurrence(e)))]
Merged(acc, inner) ==
  IF inner.kind = "map" THEN [acc EXCEPT !.entries = @ \o inner.entries, !.map = TRUE]
  ELSE [acc EXCEPT !.elements = @ \o inner.elements]
GroupEntry(acc, e, inMap) ==
  IF e.key = NoKey /\ e.body.kind = "group" /\ Len(e.body.groups) = 1
  THEN Merged(acc, ResolveGroup(e.body.groups, inMap))
  ELSE MapEntry(acc, e)

(* `resolve_grpchoice_with_delimiter`, of the first alternative only       *)
(* (`resolve_group`): a map where the delimiter or an entry says so.       *)
AsGroup(acc) == IF acc.map THEN [kind |-> "map", entries |-> acc.entries] ELSE [kind |-> "array", elements |-> acc.elements]
ResolveGroup(groups, inMap) ==
  AsGroup(FoldLeft(LAMBDA acc, e : GroupEntry(acc, e, inMap),
                   [map |-> inMap \/ (\E e \in Range(groups[1]) : e.key # NoKey), entries |-> <<>>, elements |-> <<>>],
                   groups[1]))

(* `resolve_type`, `resolve_type1`, `resolve_type2`, `resolve_type_choice`.*)
Resolve(t) ==
  CASE t.kind = "any" -> ResolvedAny
    [] t.kind \in {"int", "uint", "nint", "bytes", "text"} -> Primitive(t.kind)
    [] t.kind = "value" -> Interval(t.value.n, t.value.n)
    [] t.kind = "range" -> Interval(t.lo, t.hi)
    [] t.kind = "label" -> [kind |-> "label", name |-> t.text]
    [] t.kind = "tag" -> InTag(t.n, Resolve(t.body))
    [] t.kind = "name" -> IF t.name \in DOMAIN Schema.plugs THEN Socket(t.name) ELSE Named(t.name)
    [] t.kind = "type" -> IF Len(t.alts) = 1 THEN Resolve(t.alts[1])
                          ELSE Alternatives([k \in DOMAIN t.alts |-> Resolve(t.alts[k])])
    [] t.kind = "array" -> ResolveGroup(t.groups, FALSE)
    [] t.kind \in {"map", "group"} -> ResolveGroup(t.groups, TRUE)
    [] t.kind = "and" -> [kind |-> "and", parts |-> [k \in DOMAIN t.parts |-> Resolve(t.parts[k])]]
    [] t.kind = "control" -> Control(t.op, Resolve(t.carrier), Resolve(t.controller))
    [] t.kind = "cbor" -> Control(".cbor", Primitive("bytes"), Resolve(t.body))

(* `DefinitionMap`: what rules and the plugs of sockets resolve to.        *)
Defined(x) == x \in DOMAIN Schema.rules
Definition == [x \in DOMAIN Schema.rules |-> Resolve(Schema.rules[x])]
PlugsOf(x) == IF x \in DOMAIN Schema.plugs THEN [k \in DOMAIN Schema.plugs[x] |-> Resolve(Schema.plugs[x][k])] ELSE <<>>

(* `type_name`, what a type is remembered as: of compound types the kind   *)
(* and the number of parts.                                                *)
TypeName(r) ==
  CASE r.kind = "any" -> <<"any">>
    [] r.kind \in {"named", "socket", "primitive", "label"} -> <<r.kind, r.name>>
    [] r.kind = "range" -> <<"range", r.lo, r.hi>>
    [] r.kind = "tag" -> <<"tag", r.n>>
    [] r.kind = "array" -> <<"array", Len(r.elements)>>
    [] r.kind = "map" -> <<"map", Len(r.entries)>>
    [] r.kind = "choice" -> <<"choice", Len(r.alts)>>
    [] r.kind = "and" -> <<"and", Len(r.parts)>>
    [] r.kind = "control" -> <<"control", r.op>>
--------------------------------------------------------------------------------
(* `ControlOp::is_narrowing`, and which operators are within another.      *)
Serializations == {".cbor", ".prefp", ".dtrm", ".cborseq", ".prefpseq", ".dtrmseq"}
Algorithms == {".x-brotli", ".x-zstd", ".x-gzip", ".x-deflate"}
Narrowing ==
  {".gt", ".ge", ".lt", ".le", ".size", ".bits", ".x-enc", ".x-hash", ".x-compressed"} \cup Serializations \cup Algorithms
OpWithin(a, b) ==
  \/ a = b
  \/ <<a, b>> \in {<<".dtrm", ".cbor">>, <<".dtrm", ".prefp">>, <<".prefp", ".cbor">>,
                   <<".dtrmseq", ".cborseq">>, <<".dtrmseq", ".prefpseq">>, <<".prefpseq", ".cborseq">>}
  \/ a \in Algorithms /\ b = ".x-compressed"

(* `within_effective_shape`: an `any` is the place a control is put at.    *)
EffectiveShape(r) ==
  IF r.kind = "control" /\ r.op \in Narrowing THEN IF r.carrier = ResolvedAny THEN r.controller ELSE r.carrier ELSE r

(* Mutant: integers of both signs pass for unsigned ones.                  *)
PrimitiveSigned(a, b) == a = b \/ (a \in {"uint", "nint", "int"} /\ b \in {"uint", "int"})

(* `is_primitive_subtype`.                                                 *)
PrimitiveWithin(a, b) == a = b \/ (a \in {"uint", "nint"} /\ b = "int")
RangeWithinPrimitive(r, p) == p = "int" \/ (p = "uint" /\ r.lo >= 0) \/ (p = "nint" /\ r.hi < 0)

(* `occurrence_compatible`.                                                *)
OccurrenceWithin(a, b) == a.min >= b.min /\ a.max <= b.max

Result(ok, seen) == [ok |-> ok, seen |-> seen, deep |-> FALSE, stale |-> FALSE]
Yes(seen) == Result(TRUE, seen)
No(seen) == Result(FALSE, seen)
Overflow(seen) == [Yes(seen) EXCEPT !.deep = TRUE]
Besides(r, s) == [s EXCEPT !.deep = @ \/ r.deep, !.stale = @ \/ r.stale]
And(r, s) == [Besides(r, s) EXCEPT !.ok = @ /\ r.ok]

RECURSIVE Within(_, _, _, _), EntryMatches(_, _, _)

(* Each of n comparisons, in order, none left out.                         *)
Every(n, Step(_, _), seen) == FoldLeft(LAMBDA r, k : And(r, Step(k, r.seen)), Yes(seen), [k \in 1..n |-> k])

(* `collect_array_conflicts`: element by element; what follows is taken by *)
(* the last element on the right if that one may be repeated.              *)
ArrayWithin(le, re, seen, d) ==
  LET repeated == re # <<>> /\ Last(re).occ.mark \in {"*", "+", "n"}
      fixed == IF repeated THEN Len(re) - 1 ELSE Len(re)
      common == Min({Len(le), fixed})
      extra == Len(le) - fixed
      misfits == {k \in 1..common : ~OccurrenceWithin(le[k].occ, re[k].occ)}
      counted == extra <= 0 \/ (extra >= Last(re).occ.min /\ extra <= Last(re).occ.max)
      complete == repeated \/ \A k \in (Len(le) + 1)..Len(re) : re[k].occ.min = 0
      compared == IF misfits # {} THEN Min(misfits) - 1 ELSE IF extra > 0 /\ counted THEN Len(le) ELSE common
      against(k) == IF k <= fixed THEN re[k].type ELSE Last(re).type
      w == Every(compared, LAMBDA k, u : Within(le[k].type, against(k), u, d), seen)
  IN IF ~repeated /\ extra > 0 THEN No(seen) ELSE [w EXCEPT !.ok = @ /\ misfits = {} /\ counted /\ complete]

(* `flatten_def_entries`, `collect_choice_map_entries`: the entries of a   *)
(* group in the place of a name, with the occurrence of the name.          *)
Flattened(r, occ) ==
  LET own(es) == [k \in DOMAIN es |-> IF es[k].occ = Once THEN [es[k] EXCEPT !.occ = occ] ELSE es[k]]
  IN CASE r.kind = "map" -> own(r.entries)
       [] r.kind = "choice" ->
            FlattenSeq([k \in DOMAIN r.alts |-> IF r.alts[k].kind = "map" THEN own(r.alts[k].entries) ELSE <<>>])
       [] OTHER -> <<>>
SocketEntries(x) == FlattenSeq([k \in DOMAIN PlugsOf(x) |-> Flattened(PlugsOf(x)[k], Once)])

(* `expand_map_sockets`, `resolve_named_deep`: names in a map are replaced *)
(* by the entries of what they lead to; sockets stay.                      *)
RECURSIVE Deep(_, _)
Deep(x, visited) ==
  IF ~Defined(x) \/ x \in visited THEN Named(x)
  ELSE LET r == Definition[x] IN IF r.kind = "named" THEN Deep(r.name, visited \cup {x}) ELSE r
Expanded(entries) ==
  LET expand(e) ==
        IF e.key.kind = "socket" /\ PlugsOf(e.key.name) = <<>>
        THEN LET r == Deep(e.key.name, {}) IN IF r.kind = "named" THEN <<e>> ELSE Flattened(r, e.occ)
        ELSE <<e>>
  IN FlattenSeq([k \in DOMAIN entries |-> expand(entries[k])])

(* `map_entry_matches`: key and value, each compared anew; a socket on the *)
(* left with all its entries, on the right with some.                      *)
EntryMatches(l, r, d) ==
  LET lefts == IF l.key.kind = "socket" THEN SocketEntries(l.key.name) ELSE <<>>
      rights == IF r.key.kind = "socket" THEN SocketEntries(r.key.name) ELSE <<>>
      all == [k \in DOMAIN lefts |-> EntryMatches(lefts[k], r, d)]
      some == [k \in DOMAIN rights |-> EntryMatches(l, rights[k], d)]
      among(ok, rs) == [Result(ok, {}) EXCEPT !.deep = \E x \in Range(rs) : x.deep, !.stale = \E x \in Range(rs) : x.stale]
  IN CASE lefts # <<>> -> among(\A x \in Range(all) : x.ok, all)
       [] lefts = <<>> /\ rights # <<>> -> among(\E x \in Range(some) : x.ok, some)
       [] OTHER ->
            LET key == Within(l.key, r.key, {}, d)
            IN IF ~key.ok THEN key ELSE And(key, Within(l.value, r.value, {}, d))

(* `collect_map_conflicts`: what the right requires is there, and what the *)
(* left requires is provided for.                                          *)
MapWithin(le, re, seen, d) ==
  LET match == [p \in (DOMAIN le) \X (DOMAIN re) |-> EntryMatches(le[p[1]], re[p[2]], d)]
  IN [ok |-> /\ \A j \in DOMAIN re : Cardinality({k \in DOMAIN le : match[<<k, j>>].ok}) >= re[j].occ.min
             /\ \A k \in DOMAIN le : le[k].occ.min > 0 => \E j \in DOMAIN re : match[<<k, j>>].ok,
      seen |-> seen, deep |-> \E p \in DOMAIN match : match[p].deep, stale |-> \E p \in DOMAIN match : match[p].stale]

(* `collect_control_conflicts`: carriers, then operators and controllers.  *)
ControlWithin(l, r, seen, d) ==
  LET carrier == Within(l.carrier, r.carrier, seen, d)
  IN IF OpWithin(l.op, r.op) THEN And(carrier, Within(l.controller, r.controller, carrier.seen, d))
     ELSE And(carrier, No(carrier.seen))

(* The first alternative on the right that fits; what the others have      *)
(* seen stays seen.                                                        *)
SomeArm(l, alts, seen, d) ==
  FoldLeft(LAMBDA acc, a : IF acc.ok THEN acc
                           ELSE Besides(acc, Within(l, a, acc.seen, d)),
           No(seen), alts)

(* What is compared is remembered, whatever becomes of it (the history     *)
(* notes what was refuted, too).  Mutant: it is not.                       *)
Forget(seen, l, r) == seen
Remember(seen, l, r) == seen \cup {<<TypeName(l), TypeName(r)>>}
Judged(w, l, r) == IF w.ok THEN w ELSE [w EXCEPT !.seen = @ \cup {<<TypeName(l), TypeName(r), "refuted">>}]

(* A name: what was seen is taken to hold.                                 *)
NameWithin(l, r, seen, d) ==
  LET known(t) == t.kind = "named" /\ Defined(t.name)
      side(t) == IF known(t) THEN Definition[t.name] ELSE t
      now == Remember(seen, l, r)
  IN CASE l = r -> Yes(seen)
       [] l # r /\ <<TypeName(l), TypeName(r)>> \in seen ->
            [Yes(seen) EXCEPT !.stale = \E pair \in seen : Len(pair) = 3]
       [] d = 0 -> Overflow(seen)
       [] known(l) \/ known(r) -> Judged(Within(side(l), side(r), now, d - 1), l, r)
       [] OTHER -> Judged(No(now), l, r)

(* `collect_subtype_conflicts_inner`.                                      *)
Within(l, r, seen, d) ==
  LET kinds == <<l.kind, r.kind>>
      judge(ok) == IF ok THEN Yes(seen) ELSE No(seen)
  IN CASE r.kind = "any" \/ (l.kind = "label" /\ r.kind \in {"primitive", "label"}) -> Yes(seen)
       [] l.kind = "any" -> No(seen)
       [] kinds = <<"primitive", "primitive">> -> judge(PrimitiveWithin(l.name, r.name))
       [] kinds = <<"range", "range">> -> judge(l.lo >= r.lo /\ l.hi <= r.hi)
       [] kinds = <<"range", "primitive">> -> judge(RangeWithinPrimitive(l, r.name))
       [] kinds = <<"primitive", "range">> -> No(seen)
       [] kinds = <<"tag", "tag">> -> IF l.n # r.n THEN No(seen) ELSE Within(l.inner, r.inner, seen, d)
       [] kinds = <<"array", "array">> -> ArrayWithin(l.elements, r.elements, seen, d)
       [] kinds = <<"map", "map">> -> MapWithin(Expanded(l.entries), Expanded(r.entries), seen, d)
       [] l.kind = "choice" -> Every(Len(l.alts), LAMBDA k, u : Within(l.alts[k], r, u, d), seen)
       [] r.kind = "choice" -> SomeArm(l, r.alts, seen, d)
       [] l.kind = "socket" ->
            IF PlugsOf(l.name) = <<>> THEN No(seen) ELSE Within(Alternatives(PlugsOf(l.name)), r, seen, d)
       [] l.kind = "named" \/ r.kind = "named" -> NameWithin(l, r, seen, d)
       [] r.kind = "and" -> Every(Len(r.parts), LAMBDA k, u : Within(l, r.parts[k], u, d), seen)
       [] l.kind = "and" -> Every(Len(l.parts), LAMBDA k, u : Within(l.parts[k], r, u, d), seen)
       [] l.kind = "control" /\ l.op = ".within" -> Within(EffectiveShape(l.carrier), r, seen, d)
       [] r.kind = "control" /\ r.op = ".within" -> Within(l, r.carrier, seen, d)
       [] l.kind = "control" /\ l.op \in Narrowing /\ r.kind # "control" -> Within(EffectiveShape(l), r, seen, d)
       [] kinds = <<"control", "control">> -> ControlWithin(l, r, seen, d)
       [] OTHER -> No(seen)

Compared(a, b) == Within(Resolve(a), Resolve(b), {}, Stack)
--------------------------------------------------------------------------------
(* `validate_within_pass`, `check_within_constraint`: a constraint in a    *)
(* template is left to where the template is used.                         *)
Check ==
  /\ verdict = "none"
  /\ verdict' = IF template THEN "skipped"
                ELSE LET w == Compared(left, right)
                     IN IF w.deep THEN "overflow" ELSE IF w.ok THEN "within" ELSE "conflict"
  /\ stale' = (~template /\ Compared(left, right).stale)
  /\ UNCHANGED <<left, right, template>>
Next == Check
Spec == Init /\ [][Next]_vars
--------------------------------------------------------------------------------
Has(t, v) == Derive(FALSE, Schema, t, v, Root) # {}
Socketed(t) == t.kind = "name" /\ t.name \in DOMAIN Schema.plugs
Alike(a, b) ==
  \/ a = b /\ a.kind # "and" /\ ~Socketed(a)
  \/ b.kind = "name" /\ b.name \in DOMAIN Schema.rules /\ Schema.rules[b.name] = a
  \/ a.kind = "type" /\ b.kind = "type" /\ Range(a.alts) = Range(b.alts)

(* What a type is made of, the definitions of its names included.          *)
Entries(t) == IF t.kind \in {"array", "map", "group"} THEN UNION {Range(g) : g \in Range(t.groups)} ELSE {}
Below(t) ==
  CASE t.kind \in {"tag", "cbor"} -> {t.body}
    [] t.kind = "type" -> Range(t.alts)
    [] t.kind = "and" -> Range(t.parts)
    [] t.kind = "control" -> {t.carrier, t.controller}
    [] t.kind = "name" /\ t.name \in DOMAIN Schema.rules -> {Schema.rules[t.name]}
    [] t.kind = "name" /\ t.name \in DOMAIN Schema.plugs -> Range(Schema.plugs[t.name])
    [] OTHER -> {e.key : e \in Entries(t)} \cup {e.body : e \in Entries(t)}
RECURSIVE Closure(_, _)
Closure(new, old) ==
  IF new = {} THEN old ELSE Closure(UNION {Below(t) : t \in new} \ (old \cup new), old \cup new)
Reached(t) == Closure({t}, {})
EntriesOf(t, kind) == UNION {Entries(u) : u \in {u \in Reached(t) : u.kind = kind}}
GroupsOf(t, kind) == UNION {Range(u.groups) : u \in {u \in Reached(t) : u.kind = kind}}

(* Where the check departs from containment.  A text as a key passes for   *)
(* any text as a key, and for any primitive type.                          *)
TextKeys == \E t \in Reached(left) : t.kind = "label"

(* A repeated element at the end on the right stands for those before it   *)
(* too if they are missing, and an occurrence on the left for one element. *)
RepeatedLast ==
  \E g \in GroupsOf(left, "array"), h \in GroupsOf(right, "array") :
    /\ h # <<>> /\ Last(h).mark \notin {"", "?"}
    /\ Len(g) < Len(h) \/ \E e \in Range(g) : e.mark # ""

(* Members that may be absent on the left are not looked at, and how often *)
(* a member that is no literal may be there on the right is not either.    *)
AbsentMembers == \E e \in EntriesOf(left, "map") : e.min = 0
BoundedMembers == \E e \in EntriesOf(right, "map") : e.key.kind \notin {"none", "value", "label"} /\ e.max < Unbounded

(* Of several alternatives of a group the first is compared; the           *)
(* occurrence of what stands in parentheses is dropped.                    *)
GroupChoices ==
  \E t \in Reached(left) \cup Reached(right) :
    \/ t.kind \in {"array", "map", "group"} /\ Len(t.groups) > 1
    \/ \E e \in Entries(t) : e.key = NoKey /\ e.body.kind = "group" /\ e.mark # ""

(* A control on `any` is taken for its controller.                         *)
ControlledAny == \E t \in Reached(left) : t.kind = "control" /\ t.carrier = AnyValue

Departs == TextKeys \/ RepeatedLast \/ AbsentMembers \/ BoundedMembers \/ GroupChoices \/ ControlledAny

(* What passes the check is contained: every value that has the type on    *)
(* the left has the type on the right.  So says within.rs:1687             *)
(* ("structurally a subtype"); it does not hold of the types that Departs  *)
(* names, nor when a pair of names is met again after a pair had been      *)
(* refuted: `int` passes for (one / one), since the set of pairs that were *)
(* seen is never reduced (within.rs:2103).                                 *)
Sound == verdict = "within" /\ ~stale /\ ~Departs => \A v \in Values : Has(left, v) => Has(right, v)

(* A type that is no intersection and no socket is contained in itself,    *)
(* under another name too, whatever the order of its alternatives.         *)
Reflexive == verdict # "none" /\ ~template /\ Alike(left, right) => verdict = "within"

(* `.within` accepts nothing that is not contained, with these exceptions, *)
(* and does not refuse a type within itself.                               *)
Contained == Sound /\ Reflexive

(* Recursion ends (within.rs:1693, "Recursive types are detected via a     *)
(* visited set and assumed compatible") unless it leads through maps,      *)
(* whose entries are compared with a new set (within.rs:2882): that of two *)
(* different recursive maps never ends.                                    *)
RecursiveMap(t) == t.kind = "map" /\ \E u \in Below(t) : t \in Reached(u)
Ends == verdict = "overflow" => \A t \in {left, right} : \E u \in Reached(t) : RecursiveMap(u)
================================================================================
