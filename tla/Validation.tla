------------------------------- MODULE Validation -------------------------------
(***************************************************************************)
(* The validator (validate.rs): one CBOR document against a root type, by  *)
(* a recursive descent that tries alternatives in order.  Two thread-local *)
(* lists that all levels share collect what the annotated dump shows: the  *)
(* notes (which part of the schema a place of the document is labelled     *)
(* with) and the hints (which byte strings are shown decoded).  The list   *)
(* of issues is reduced to whether it is empty, and constants are the      *)
(* values ConstantResolution gives them.                                   *)
(***************************************************************************)
EXTENDS CddlMeaning

CONSTANT Cases  \* schemas with documents to check

VARIABLES
  schema,    \* root type, rules by name, and what is plugged into sockets
  document,  \* its top-level items
  fails,     \* whether failure is expected (`--fails`)
  trace,     \* CURRENT_SCHEMA_NOTES and CURRENT_EMBEDDED_CBOR_HINTS
  accepted,  \* whether there are no issues
  outcome    \* "none", then "validated", then what the command returns

vars == <<schema, document, fails, trace, accepted, outcome>>

Rules == DOMAIN schema.rules
Clear == [notes |-> <<>>, hints |-> <<>>]
Init ==
  /\ \E c \in Cases : schema = c.schema /\ document \in c.documents /\ fails \in c.fails
  /\ trace = Clear /\ accepted = FALSE /\ outcome = "none"
--------------------------------------------------------------------------------
(* `record_schema_note_once`, `record_embedded_cbor_hint`: the first note  *)
(* of a place stays.                                                       *)
Note(tr, path, t) ==
  IF \E k \in DOMAIN tr.notes : tr.notes[k].path = path THEN tr
  ELSE [tr EXCEPT !.notes = Append(@, [path |-> path, label |-> t])]
Hint(tr, path) == IF path \in Range(tr.hints) THEN tr ELSE [tr EXCEPT !.hints = Append(@, path)]

(* Mutant: a failed alternative leaves its notes.                          *)
TruncatedNever(tr, size) == tr

(* `truncate_current_schema_notes` cuts both lists to the former length of *)
(* the notes.                                                              *)
Truncated(tr, size) ==
  [notes |-> SubSeq(tr.notes, 1, Min({size, Len(tr.notes)})),
   hints |-> SubSeq(tr.hints, 1, Min({size, Len(tr.hints)}))]

(* Result r of an attempt made with traces tr, undone if it failed.        *)
Settle(tr, r) == IF r.ok THEN r ELSE [r EXCEPT !.trace = Truncated(@, Len(tr.notes))]

(* Alternatives 1..n in order until one matches; failed ones are undone.   *)
FirstMatch(tr, n, Try(_, _)) ==
  FoldLeft(LAMBDA r, k : IF r.ok THEN r ELSE Settle(tr, Try(k, r.trace)),
           [ok |-> FALSE, trace |-> tr], [k \in 1..n |-> k])

RECURSIVE Check(_, _, _, _), Repeat(_, _, _, _, _, _), Splice(_, _, _, _, _),
          Sequence(_, _, _, _), MapBody(_, _, _, _, _), MapSequence(_, _, _, _, _, _)
--------------------------------------------------------------------------------
(* Arrays.                                                                 *)

(* `resolve_integer_bound`: the first type of a body, if it is a constant. *)
RECURSIVE Bound(_)
Bound(t) ==
  CASE t.kind = "value" -> {t.value.n}
    [] t.kind = "name" /\ t.name \in Rules -> Bound(schema.rules[t.name])
    [] t.kind = "type" -> Bound(t.alts[1])
    [] t.kind = "group" -> IF t.groups[1] = <<>> THEN {} ELSE Bound(t.groups[1][1].body)
    [] OTHER -> {}

(* A constant without occurrence that stands before a `*`.                 *)
LowerBound(group, k) ==
  k < Len(group) /\ group[k].mark = "" /\ group[k + 1].mark = "*" /\ Bound(group[k].body) # {}
(* `array_occurrence` looks for the upper bound of `n*` in its own body.   *)
UpperBound(e) == IF e.mark = "n*" /\ e.max = Unbounded THEN Bound(e.body) ELSE {}

(* `extract_array_group_elements`: the bounds of an occurrence may be      *)
(* entries of their own, a constant before a `*` or after `n*`.            *)
Elements(group) ==
  LET list[k \in Nat] ==
        IF k > Len(group) THEN [ok |-> TRUE, list |-> <<>>]
        ELSE LET split == LowerBound(group, k)
                 e == group[IF split THEN k + 1 ELSE k]
                 upper == UpperBound(e)
                 b == k + (IF split THEN 1 ELSE Cardinality(upper))
                 rest == list[b + 1]
             IN IF b > Len(group) THEN [ok |-> FALSE, list |-> <<>>]
                ELSE [ok |-> rest.ok,
                      list |-> <<[min |-> IF split THEN Max(Bound(group[k].body)) ELSE e.min,
                                  max |-> IF upper = {} THEN e.max ELSE Max(upper),
                                  once |-> e.mark = "", body |-> group[b].body]>> \o rest.list]
  IN list[1]

(* `validate_array_group_splice_group`: what a group takes from position   *)
(* `at` on, the longest part that one of its alternatives matches as a     *)
(* whole.  Places are counted from the beginning of the part.              *)
Parted(r, n) == [ok |-> r.ok, trace |-> r.trace, n |-> n]
Spliced(r) == [kind |-> IF r.ok THEN "taken" ELSE "refused", n |-> IF r.ok THEN r.n ELSE 0, trace |-> r.trace]
SpliceGroup(groups, list, at, path, tr) ==
  LET tries == (Len(list) - at + 1) * Len(groups)
      size(k) == Len(list) - at - ((k - 1) \div Len(groups))
      group(k) == groups[((k - 1) % Len(groups)) + 1]
      part(k) == SubSeq(list, at + 1, at + size(k))
  IN Spliced(FirstMatch(tr, tries, LAMBDA k, u : Parted(Sequence(group(k), part(k), path, u), size(k))))

(* Of several splices the one that takes most.                             *)
Longest(all) ==
  LET taken == {r.n : r \in {s \in all.each : s.kind = "taken"}}
  IN [kind |-> IF taken # {} THEN "taken"
               ELSE IF \E r \in all.each : r.kind = "refused" THEN "refused" ELSE "item",
      n |-> IF taken # {} THEN Max(taken) ELSE 1, trace |-> all.trace]

(* `validate_array_group_splice`: what leads to a group, or to a map where *)
(* no map stands, takes a part of the array; the traces of alternatives    *)
(* are undone.                                                             *)
Splice(t, list, at, path, tr) ==
  LET with(all, s) == [trace |-> Truncated(s.trace, Len(tr.notes)), each |-> all.each \cup {[kind |-> s.kind, n |-> s.n]}]
  IN CASE t.kind = "type" ->
            Longest(FoldLeft(LAMBDA all, a : with(all, Splice(a, list, at, path, all.trace)),
                             [trace |-> tr, each |-> {}], t.alts))
       [] t.kind = "name" /\ t.name \in Rules -> Splice(schema.rules[t.name], list, at, path, tr)
       [] t.kind = "group" \/ (t.kind = "map" /\ ~(at < Len(list) /\ list[at + 1].kind = "dict")) ->
            SpliceGroup(t.groups, list, at, path, tr)
       [] OTHER -> [kind |-> "item", n |-> 1, trace |-> tr]

(* `validate_array_element`: a splice s, or one item.                      *)
SplicedOrItem(t, list, at, path, s) ==
  LET here == At(path, "item", at + 1)
  IN IF s.kind # "item" THEN [ok |-> s.kind = "taken", n |-> s.n, trace |-> s.trace]
     ELSE IF at >= Len(list) THEN [ok |-> FALSE, n |-> 0, trace |-> s.trace]
     ELSE Parted(Check(t, list[at + 1], here, Note(s.trace, here, t)), 1)
Element(t, list, at, path, tr) == SplicedOrItem(t, list, at, path, Splice(t, list, at, path, tr))

(* Mutant: an element that fails in a repetition is taken all the same.    *)
AfterConsuming(e, count, list, at, path, r) ==
  IF r.ok /\ (count < e.min \/ r.n > 0) THEN Repeat(e, count + 1, list, at + r.n, path, r.trace)
  ELSE [ok |-> count >= e.min, at |-> at + r.n, trace |-> r.trace]

(* One more element, with result r.  One that fails ends the repetition;   *)
(* its notes stay.  (An unbounded repetition of nothing, which never ends, *)
(* ends here.)                                                             *)
AfterElement(e, count, list, at, path, r) ==
  IF r.ok /\ (count < e.min \/ r.n > 0) THEN Repeat(e, count + 1, list, at + r.n, path, r.trace)
  ELSE [ok |-> count >= e.min, at |-> at, trace |-> r.trace]

(* Mutant: a repetition stops one short of its upper bound.                *)
RepeatShort(e, count, list, at, path, tr) ==
  IF at >= Len(list) \/ (count >= e.min /\ count + 1 >= e.max)
  THEN [ok |-> count >= e.min, at |-> at, trace |-> tr]
  ELSE AfterElement(e, count, list, at, path, Element(e.body, list, at, path, tr))

(* `validate_array_repetition`: what is required, then all that follows.   *)
Repeat(e, count, list, at, path, tr) ==
  IF at >= Len(list) \/ (count >= e.min /\ count >= e.max)
  THEN [ok |-> count >= e.min, at |-> at, trace |-> tr]
  ELSE AfterElement(e, count, list, at, path, Element(e.body, list, at, path, tr))

(* `validate_grpchoice_array`: the elements in order and nothing after     *)
(* them.  One without occurrence may take nothing at the end.              *)
Sequence(group, list, path, tr) ==
  LET elements == Elements(group)
      past(at, r) == [ok |-> r.ok, at |-> at + r.n, trace |-> r.trace]
      step(acc, e) ==
        IF ~acc.ok THEN acc
        ELSE IF e.once THEN past(acc.at, Element(e.body, list, acc.at, path, acc.trace))
        ELSE Repeat(e, 0, list, acc.at, path, acc.trace)
      whole(end) == [ok |-> end.ok /\ end.at = Len(list), trace |-> end.trace]
  IN whole(FoldLeft(step, [ok |-> elements.ok, at |-> 0, trace |-> tr], elements.list))
--------------------------------------------------------------------------------
(* Maps.  `used` are the entries that are taken.                           *)

(* Mutant: only the first entry that is left is looked at.                 *)
MatchingEntriesInOrder(key, entries, used) ==
  {i \in DOMAIN entries \ used : (\A j \in 1..(i - 1) : j \in used) /\ Check(key, entries[i][1], <<>>, Clear).ok}

(* `find_matching_map_entry` takes the first of the free entries whose key *)
(* has the type.  (What this probe notes is at no place of the document.)  *)
MatchingEntries(key, entries, used) ==
  {i \in DOMAIN entries \ used : Check(key, entries[i][1], <<>>, Clear).ok}

(* An entry with a key takes one entry of the map; only after "?" may none *)
(* be there.  A value that fails does not end the group.                   *)
KeyedEntry(acc, e, entries, path) ==
  LET checked(i, key, value) ==
        [acc EXCEPT !.ok = @ /\ key.ok /\ value.ok, !.used = @ \cup {i}, !.trace = value.trace]
      valued(i, key) ==
        LET place == At(path, "value", i)
        IN checked(i, key, Check(e.body, entries[i][2], place, Note(key.trace, place, e.body)))
      keyed(i) ==
        LET place == At(path, "key", i)
        IN valued(i, Check(e.key, entries[i][1], place, Note(acc.trace, place, e.key)))
      found(fit) == IF fit = {} THEN [acc EXCEPT !.ok = @ /\ e.mark = "?", !.going = e.mark = "?"]
                    ELSE keyed(Min(fit))
  IN found(MatchingEntries(e.key, entries, acc.used))

(* `try_validate_map_group_body`: a group has to take something.           *)
Taking(used, r) == [r EXCEPT !.ok = @ /\ r.used # used]
Undone(used, tr, r) == IF r.ok THEN r ELSE [Settle(tr, r) EXCEPT !.used = used]
TryBody(t, entries, used, path, tr) ==
  Undone(used, tr, Taking(used, MapBody(t, entries, used, path, tr)))

RECURSIVE TryRepeatedly(_, _, _, _, _)
TryRepeatedly(t, entries, used, path, tr) ==
  LET more(r) == IF r.ok THEN [TryRepeatedly(t, entries, r.used, path, r.trace) EXCEPT !.ok = TRUE] ELSE r
  IN more(TryBody(t, entries, used, path, tr))

(* `validate_nested_map_group_entry`: an entry without a key.              *)
NestedEntry(acc, e, entries, path) ==
  LET result(fine, r) == [ok |-> acc.ok /\ fine, going |-> fine, used |-> r.used, trace |-> r.trace]
      judged(r) == result(r.ok \/ e.mark \in {"?", "*"}, r)
  IN judged(IF e.mark \in {"+", "*"} THEN TryRepeatedly(e.body, entries, acc.used, path, acc.trace)
            ELSE TryBody(e.body, entries, acc.used, path, acc.trace))

(* `validate_grpchoice_map`.                                               *)
MapSequence(group, entries, used, path, tr, all) ==
  LET over(end) == [ok |-> end.ok /\ (all => end.used = DOMAIN entries), used |-> end.used, trace |-> end.trace]
  IN over(FoldLeft(LAMBDA acc, e : IF ~acc.going THEN acc
                                   ELSE IF e.key = NoKey THEN NestedEntry(acc, e, entries, path)
                                   ELSE KeyedEntry(acc, e, entries, path),
                   [ok |-> TRUE, going |-> TRUE, used |-> used, trace |-> tr], group))

(* `validate_map_group_body`: what a type in the place of a group takes of *)
(* a map, the first alternative that takes something.                      *)
MapBody(t, entries, used, path, tr) ==
  LET alternatives ==
        CASE t.kind \in {"group", "array", "map"} -> t.groups
          [] t.kind = "type" -> t.alts
          [] t.kind = "name" /\ t.name \in Rules -> <<schema.rules[t.name]>>
          [] t.kind = "name" /\ t.name \in DOMAIN schema.plugs \ Rules -> schema.plugs[t.name]
          [] OTHER -> <<>>
      try(k, u) ==
        Taking(used, IF t.kind \in {"group", "array", "map"}
                     THEN MapSequence(alternatives[k], entries, used, path, u, FALSE)
                     ELSE MapBody(alternatives[k], entries, used, path, u))
      result(r) == IF r.ok THEN r ELSE [ok |-> FALSE, used |-> used, trace |-> r.trace]
  IN result(FirstMatch(tr, Len(alternatives), try))
--------------------------------------------------------------------------------
(* Types.                                                                  *)

(* `validate_array_group`: the alternatives, with nothing undone.          *)
ArrayGroup(groups, list, path, tr) ==
  FoldLeft(LAMBDA r, g : IF r.ok THEN r ELSE Sequence(g, list, path, r.trace), [ok |-> FALSE, trace |-> tr], groups)

(* `validate_type_choice`.                                                 *)
TypeChoice(t, v, path, tr) ==
  FirstMatch(tr, Len(t.alts), LAMBDA k, u : Check(t.alts[k], v, path, u))

(* What the kinds of types require of v.                                   *)
Matched(t, v, path, tr) ==
  LET verdict(ok) == [ok |-> ok, trace |-> tr]
      hinted(r) == [r EXCEPT !.trace = Hint(@, path)]
  IN CASE t.kind = "value" -> verdict(v = t.value)
       [] t.kind \in {"int", "bytes"} -> verdict(v.kind = t.kind)
       [] t.kind = "cbor" ->
            IF v.kind # "bytes" THEN verdict(FALSE)
            ELSE hinted(Check(t.body, v.inner, At(path, "embedded", 0), tr))
       [] t.kind = "name" ->
            IF t.name \in Rules THEN Check(schema.rules[t.name], v, path, Note(tr, path, t))
            ELSE [ok |-> FALSE, trace |-> Note(tr, path, t)]
       [] t.kind = "type" -> TypeChoice(t, v, path, tr)
       [] t.kind = "array" -> IF v.kind = "list" THEN ArrayGroup(t.groups, v.items, path, tr) ELSE verdict(FALSE)
       [] t.kind = "group" ->
            IF v.kind # "list" THEN verdict(FALSE)
            ELSE FirstMatch(tr, Len(t.groups), LAMBDA k, u : Sequence(t.groups[k], v.items, path, u))
       [] t.kind = "map" ->
            IF v.kind # "dict" THEN verdict(FALSE)
            ELSE FirstMatch(tr, Len(t.groups), LAMBDA k, u : MapSequence(t.groups[k], v.entries, {}, path, u, TRUE))

(* `validate_schema_node`: value v against t.  A type is always a choice,  *)
(* if only of one, so that what a failed one noted is undone.              *)
Check(t, v, path, tr) ==
  LET noted == IF path # <<>> /\ Last(path)[1] = "key" THEN tr ELSE Note(tr, path, t)
      verdict(r) == Settle(noted, [ok |-> r.ok, trace |-> r.trace])
  IN verdict(Matched(t, v, path, noted))
--------------------------------------------------------------------------------
(* `validate_document`: a document is one item.                            *)
Validate ==
  /\ outcome = "none"
  /\ LET r == IF Len(document) = 1 THEN Check(Name("root"), document[1], Root, Clear)
              ELSE [ok |-> FALSE, trace |-> Clear]
     IN accepted' = r.ok /\ trace' = r.trace
  /\ outcome' = "validated"
  /\ UNCHANGED <<schema, document, fails>>

(* `exec`.                                                                 *)
Report ==
  /\ outcome = "validated"
  /\ outcome' = IF accepted # fails THEN "success" ELSE "failure"
  /\ UNCHANGED <<schema, document, fails, trace, accepted>>

Next == Validate \/ Report
Spec == Init /\ [][Next]_vars
--------------------------------------------------------------------------------
(* The types that occur in the schema.                                     *)
RECURSIVE Parts(_)
Parts(t) ==
  {t} \cup CASE t.kind = "type" -> UNION {Parts(a) : a \in Range(t.alts)}
             [] t.kind = "cbor" -> Parts(t.body)
             [] t.kind \in {"array", "map", "group"} ->
                  UNION {UNION {Parts(e.key) \cup Parts(e.body) : e \in Range(g)} : g \in Range(t.groups)}
             [] OTHER -> {}
AllParts ==
  (UNION {Parts(schema.rules[x]) : x \in Rules})
    \cup (UNION {UNION {Parts(t) : t \in Range(schema.plugs[x])} : x \in DOMAIN schema.plugs})
KeyedEntries ==
  {<<t, a, k>> \in {<<t, a, k>> \in {p \in AllParts : p.kind \in {"group", "map"}} \X (1..3) \X (1..4) :
       a \in DOMAIN t.groups /\ k \in DOMAIN t.groups[a]} : t.groups[a][k].key # NoKey}
KeyOf(e) == e[1].groups[e[2]][e[3]].key

(* Every key is a literal, and no two entries are for the same one.        *)
LiteralKeys == \A e \in KeyedEntries : KeyOf(e).kind = "value"
KeysApart == LiteralKeys /\ \A e, f \in KeyedEntries : KeyOf(e) = KeyOf(f) => e = f

(* What the validator does not read as RFC 8610 does.  An array with a     *)
(* constant that it takes for a bound (validate.rs:4424, 4519).            *)
Groups(kinds) == UNION {Range(t.groups) : t \in {u \in AllParts : u.kind \in kinds}}
BoundsRead ==
  \E g \in Groups({"array", "group"}) : \E k \in DOMAIN g : LowerBound(g, k) \/ UpperBound(g[k]) # {}

(* A map as an element of an array: where no map stands, its entries are   *)
(* spliced into the array (validate.rs:4757).                              *)
MapsInArrays ==
  \E g \in Groups({"array"}) : \E e \in Range(g) : LeadsTo(schema, e.body, {"map"})

(* An entry with a key that may be absent by a `*` (validate.rs:5137).     *)
StarredKeys == \E e \in KeyedEntries : e[1].groups[e[2]][e[3]].mark = "*"

(* An entry of a map without a key that may take nothing of it, and has to *)
(* (`try_validate_map_group_body`).                                        *)
RECURSIVE MayBeEmpty(_)
MayBeEmpty(t) ==
  \/ t.kind = "group" /\ \E g \in Range(t.groups) :
                           \A e \in Range(g) : e.min = 0 \/ (e.key = NoKey /\ MayBeEmpty(e.body))
  \/ t.kind = "name" /\ t.name \in Rules /\ MayBeEmpty(schema.rules[t.name])
  \/ t.kind = "type" /\ \E a \in Range(t.alts) : MayBeEmpty(a)
EmptyGroups == \E g \in Groups({"map"}) : \E e \in Range(g) : e.key = NoKey /\ MayBeEmpty(e.body)

(* No group has several alternatives.                                      *)
OneWay ==
  \A t \in AllParts : /\ t.kind = "group" => Len(t.groups) = 1
                      /\ t.kind = "type" => ~LeadsTo(schema, t, {"group"})

(* Nothing is tried in an array that may fail and be passed over, and no   *)
(* byte string is decoded.                                                 *)
NoGuessing ==
  \A t \in AllParts :
    /\ t.kind # "cbor"
    /\ t.kind = "array" => /\ Len(t.groups) = 1
                           /\ \A e \in Range(t.groups[1]) :
                                e.mark = "" /\ ~LeadsTo(schema, e.body, {"group", "map"})

Validated == outcome = "validated"
Derivations(peg) == Derive(peg, schema, Name("root"), document[1], Root)
--------------------------------------------------------------------------------
(* The schema read without the braces of its maps, with or without them.   *)
RECURSIVE Loose(_)
Loose(t) ==
  LET groups == [a \in DOMAIN t.groups |->
                   [k \in DOMAIN t.groups[a] |-> [t.groups[a][k] EXCEPT !.body = Loose(@)]]]
  IN CASE t.kind = "type" -> Choice([k \in DOMAIN t.alts |-> Loose(t.alts[k])])
       [] t.kind = "map" -> Choice(<<Map(groups), Group(groups)>>)
       [] t.kind \in {"array", "group"} -> [t EXCEPT !.groups = groups]
       [] OTHER -> t
Braceless == [schema EXCEPT !.rules = [x \in Rules |-> Loose(@[x])]]

(* A document that is accepted has the type of the schema (RFC 8610): no   *)
(* backtracking step forgets an item, takes one twice or skips a check.    *)
(* Of the schema as the validator reads it, that is: nothing is said of    *)
(* arrays with a constant that it takes for a bound, and if a map is an    *)
(* element of an array, only that the document has the type when braces    *)
(* may be left out: [7] is accepted for [{1 => int}].                      *)
Sound ==
  Validated /\ accepted /\ ~BoundsRead =>
    /\ Len(document) = 1
    /\ Derive(FALSE, IF MapsInArrays THEN Braceless ELSE schema, Name("root"), document[1], Root) # {}

(* What the grammar of RFC 8610 matches, read with prioritised choice and  *)
(* greedy occurrences, is accepted.                                        *)
AcceptsWhatMatches == Validated /\ Len(document) = 1 /\ Derivations(TRUE) # {} => accepted

(* That holds of maps in which each key is described once, by a literal    *)
(* without a `*` ({* 1 => int} refuses the empty map), and in which no     *)
(* group may take nothing ({(? 1 => int)} refuses it too); and of arrays   *)
(* without a constant taken for a bound, without groups of several         *)
(* alternatives, of which the validator takes the longest match and a      *)
(* prioritised choice the first, and without a map where an item is none.  *)
Complete ==
  /\ Validated /\ KeysApart /\ ~StarredKeys /\ ~EmptyGroups /\ ~BoundsRead
  /\ \A i \in DOMAIN document : document[i].kind = "list" =>
       OneWay /\ (MapsInArrays => \A v \in Range(document[i].items) : v.kind = "dict")
  => AcceptsWhatMatches

(* With literal keys the order in which a map has its entries does not     *)
(* matter, whatever groups, sockets and occurrences they are taken by.     *)
AnyEntryOrder ==
  Validated /\ Len(document) = 1 /\ document[1].kind = "dict" /\ LiteralKeys =>
    LET entries == document[1].entries
    IN \A p \in SetToSeqs(DOMAIN entries) :
         Check(Name("root"), Dict([k \in DOMAIN entries |-> entries[p[k]]]), Root, Clear).ok = accepted

(* No place of the dump has two labels or two decoded views.               *)
OneViewOfEach ==
  /\ \A j, k \in DOMAIN trace.notes : trace.notes[j].path = trace.notes[k].path => j = k
  /\ \A j, k \in DOMAIN trace.hints : trace.hints[j] = trace.hints[k] => j = k

(* The dump of an accepted document shows one derivation: every label and  *)
(* every decoded byte string is one that this derivation has there.        *)
DumpIsADerivation ==
  Validated /\ accepted =>
    \E d \in Derivations(FALSE) :
      /\ \A k \in DOMAIN trace.notes : <<trace.notes[k].path, trace.notes[k].label>> \in d
      /\ \A p \in Range(trace.hints) : <<p, HintLabel>> \in d

(* Nothing is left in the dump of the alternatives that failed, unless     *)
(* arrays have occurrences, alternatives, groups or maps that are tried    *)
(* and passed over, or byte strings are decoded.                           *)
DumpUnlessGuessed == OneViewOfEach /\ (NoGuessing => DumpIsADerivation)
================================================================================
