------------------------------ MODULE CddlMeaning ------------------------------
(***************************************************************************)
(* Types, groups and values of CDDL and what it means that a value has a   *)
(* type (RFC 8610): a derivation, kept as the set of <<place, label>> it   *)
(* consists of.  `peg` tells two readings apart: generative, and as a      *)
(* parsing expression grammar, in which the first alternative that matches *)
(* is taken and an occurrence takes all it can.  This is the reference     *)
(* that Validation is compared with; it models no code.                    *)
(***************************************************************************)
EXTENDS Integers, Sequences, FiniteSets, SequencesExt, FiniteSetsExt

(* Values: integers, arrays of values, maps as the sequence of their       *)
(* <<key, value>>, byte strings that hold one encoded value, text, and     *)
(* tagged values.                                                          *)
Number(n) == [kind |-> "int", n |-> n]
List(items) == [kind |-> "list", items |-> items]
Dict(entries) == [kind |-> "dict", entries |-> entries]
Bytes(v) == [kind |-> "bytes", inner |-> v]
Text(x) == [kind |-> "text", text |-> x]
TagOf(n, v) == [kind |-> "tagged", n |-> n, inner |-> v]

(* Types.  `groups` are the alternatives of a group, each a sequence of    *)
(* entries; `type` is a choice of types; `cbor` is `bstr .cbor body`; a    *)
(* label is a text as the key of a map.                                    *)
Value(n) == [kind |-> "value", value |-> Number(n)]
AnyInt == [kind |-> "int"]
Unsigned == [kind |-> "uint"]
Negative == [kind |-> "nint"]
AnyBytes == [kind |-> "bytes"]
Embedded(t) == [kind |-> "cbor", body |-> t]
AnyText == [kind |-> "text"]
AnyValue == [kind |-> "any"]
Between(lo, hi) == [kind |-> "range", lo |-> lo, hi |-> hi]
Label(x) == [kind |-> "label", text |-> x]
Tagged(n, t) == [kind |-> "tag", n |-> n, body |-> t]
Both(parts) == [kind |-> "and", parts |-> parts]
AtMost(t, n) == [kind |-> "control", op |-> ".le", carrier |-> t, controller |-> Value(n)]
Inside(t, u) == [kind |-> "control", op |-> ".within", carrier |-> t, controller |-> u]
Name(x) == [kind |-> "name", name |-> x]
Choice(alts) == [kind |-> "type", alts |-> alts]
Array(groups) == [kind |-> "array", groups |-> groups]
Map(groups) == [kind |-> "map", groups |-> groups]
Group(groups) == [kind |-> "group", groups |-> groups]

Unbounded == 9
NoKey == [kind |-> "none"]
Entry(mark, min, max, key, body) == [mark |-> mark, min |-> min, max |-> max, key |-> key, body |-> body]
One(body) == Entry("", 1, 1, NoKey, body)
Optional(body) == Entry("?", 0, 1, NoKey, body)
Some(body) == Entry("+", 1, Unbounded, NoKey, body)
Many(body) == Entry("*", 0, Unbounded, NoKey, body)
Times(n, body) == Entry("n", n, n, NoKey, body)
AtLeast(n, body) == Entry("n*", n, Unbounded, NoKey, body)
Keyed(entry, key) == [entry EXCEPT !.key = key]

(* Places of a document.                                                   *)
Root == <<<<"doc", 0>>>>
At(path, step, n) == Append(path, <<step, n>>)
HintLabel == [kind |-> "hint"]

(* Whether a type is one of the given kinds, by its name or a choice too.  *)
RECURSIVE LeadsTo(_, _, _)
LeadsTo(s, t, kinds) ==
  \/ t.kind \in kinds
  \/ t.kind = "name" /\ t.name \in DOMAIN s.rules /\ LeadsTo(s, s.rules[t.name], kinds)
  \/ t.kind = "type" /\ \E a \in Range(t.alts) : LeadsTo(s, a, kinds)
--------------------------------------------------------------------------------
First(peg, alt(_), n) ==
  LET some == {k \in 1..n : alt(k) # {}}
  IN IF some = {} THEN {} ELSE IF peg THEN alt(Min(some)) ELSE UNION {alt(k) : k \in some}
Repeated(peg, e, size, start, step(_)) ==
  LET bound == IF e.max = Unbounded THEN e.min + size ELSE e.max
      after[n \in 0..bound] == IF n = 0 THEN {start} ELSE UNION {step(w) : w \in after[n - 1]}
      counts == {n \in e.min..bound : after[n] # {}}
  IN IF counts = {} THEN {} ELSE IF peg THEN after[Max(counts)] ELSE UNION {after[n] : n \in counts}

RECURSIVE Derive(_, _, _, _, _), Take(_, _, _, _, _, _)

(* The derivations of value v, at place `path`, from type t of schema s.   *)
Derive(peg, s, t, v, path) ==
  LET whole(n) == UNION {{w.marks : w \in {u \in Take(peg, s, Group(<<g>>), v, [used |-> {}, marks |-> {}], path) :
                                             u.used = 1..n}} : g \in Range(t.groups)}
      below ==
        CASE t.kind = "value" -> IF v = t.value THEN {{}} ELSE {}
          [] t.kind \in {"int", "bytes", "text"} -> IF v.kind = t.kind THEN {{}} ELSE {}
          [] t.kind = "uint" -> IF v.kind = "int" /\ v.n >= 0 THEN {{}} ELSE {}
          [] t.kind = "nint" -> IF v.kind = "int" /\ v.n < 0 THEN {{}} ELSE {}
          [] t.kind = "any" -> {{}}
          [] t.kind = "range" -> IF v.kind = "int" /\ t.lo <= v.n /\ v.n <= t.hi THEN {{}} ELSE {}
          [] t.kind = "label" -> IF v = Text(t.text) THEN {{}} ELSE {}
          [] t.kind = "tag" ->
               IF v.kind = "tagged" /\ v.n = t.n THEN Derive(peg, s, t.body, v.inner, At(path, "inner", 0)) ELSE {}
          [] t.kind = "and" ->
               LET all == [k \in DOMAIN t.parts |-> Derive(peg, s, t.parts[k], v, path)]
               IN IF \E k \in DOMAIN all : all[k] = {} THEN {} ELSE {UNION UNION Range(all)}
          [] t.kind = "control" ->
               IF \/ t.op = ".le" /\ v.kind = "int" /\ v.n <= t.controller.value.n
                  \/ t.op = ".within" /\ Derive(peg, s, t.controller, v, path) # {}
               THEN Derive(peg, s, t.carrier, v, path) ELSE {}
          [] t.kind = "cbor" ->
               IF v.kind # "bytes" THEN {}
               ELSE {d \cup {<<path, HintLabel>>} : d \in Derive(peg, s, t.body, v.inner, At(path, "embedded", 0))}
          [] t.kind = "name" ->
               IF t.name \in DOMAIN s.rules THEN Derive(peg, s, s.rules[t.name], v, path) ELSE {}
          [] t.kind = "type" -> UNION {Derive(peg, s, a, v, path) : a \in Range(t.alts)}
          [] t.kind = "array" -> IF v.kind = "list" THEN whole(Len(v.items)) ELSE {}
          [] t.kind = "map" -> IF v.kind = "dict" THEN whole(Len(v.entries)) ELSE {}
          [] OTHER -> {}
  IN {d \cup {<<path, t>>} : d \in below}

(* What an occurrence of t takes of the array or map v, of which w.used is *)
(* taken already: of an array the next item, of a map any entry.           *)
Take(peg, s, t, v, w, path) ==
  LET next == Cardinality(w.used) + 1
      more(i, ds) == {[used |-> w.used \cup {i}, marks |-> w.marks \cup d] : d \in ds}
      entry(e, u) ==
        IF v.kind = "list" \/ e.key = NoKey THEN Take(peg, s, e.body, v, u, path)
        ELSE UNION {{[used |-> u.used \cup {j}, marks |-> u.marks \cup d \cup f] :
                       d \in Derive(peg, s, e.key, v.entries[j][1], At(path, "key", j)),
                       f \in Derive(peg, s, e.body, v.entries[j][2], At(path, "value", j))} :
                    j \in DOMAIN v.entries \ u.used}
      size == IF v.kind = "list" THEN Len(v.items) ELSE Len(v.entries)
  IN CASE v.kind = "list" /\ ~LeadsTo(s, t, {"group"}) ->
            IF next > size THEN {} ELSE more(next, Derive(peg, s, t, v.items[next], At(path, "item", next)))
       [] t.kind = "group" ->
            First(peg, LAMBDA k :
              FoldLeft(LAMBDA ws, e :
                         UNION {Repeated(peg, e, size, u, LAMBDA x : entry(e, x)) : u \in ws},
                       {w}, t.groups[k]), Len(t.groups))
       [] t.kind = "name" ->
            IF t.name \in DOMAIN s.rules THEN Take(peg, s, s.rules[t.name], v, w, path)
            ELSE IF t.name \in DOMAIN s.plugs
            THEN First(peg, LAMBDA k : Take(peg, s, s.plugs[t.name][k], v, w, path), Len(s.plugs[t.name]))
            ELSE {}
       [] t.kind = "type" -> First(peg, LAMBDA k : Take(peg, s, t.alts[k], v, w, path), Len(t.alts))
       [] OTHER -> {}
================================================================================
