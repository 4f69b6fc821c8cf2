------------------------------ MODULE MCRendering ------------------------------
(***************************************************************************)
(* Schemas of three rules and up to two sockets, and what they mean.       *)
(***************************************************************************)
EXTENDS Rendering

a == Name("a")
b == Name("b")
t == Name("$t")
g == Name("$$g")
k == Label("k")

Roots == {
  Choice(<<a, AnyText>>), Array(<<<<Many(a)>>>>), Array(<<<<One(a), Optional(b)>>>>),
  AtMost(a, 5), Embedded(a), Tagged(1, a), Array(<<<<One(Parens(Choice(<<a, b>>)))>>>>),
  Map(<<<<Keyed(One(Choice(<<a, b>>)), k)>>>>), Inside(a, b), Choice(<<Inside(a, AnyInt), AnyText>>),
  Map(<<<<One(g)>>>>), Map(<<<<Optional(g)>>>>), Array(<<<<One(a)>>, <<One(b)>>>>), Choice(<<Below(0, 5), a>>),
  Array(<<<<One(Choice(<<Array(<<<<One(a)>>>>), AnyText>>))>>>>), Array(<<<<Optional(Choice(<<Array(<<<<One(a)>>>>), b>>))>>>>),
  Array(<<<<Many(t)>>>>), Inside(t, a), Tagged(1, Choice(<<a, t>>))}
As == {
  Value(1), AnyInt, Choice(<<AnyInt, AnyText>>), b, Array(<<<<Optional(Name("root"))>>>>),
  Choice(<<a, AnyInt>>), Group(<<<<One(AnyInt), Optional(AnyText)>>>>), AtMost(AnyInt, 5),
  Choice(<<b, AtMost(AnyInt, 0)>>), Choice(<<Parens(AtMost(AnyInt, 5)), Parens(AtMost(AnyInt, 0))>>), Choice(<<AnyInt, Array(<<<<Many(a)>>>>)>>),
  Choice(<<a, Tagged(1, Choice(<<a, AnyInt>>))>>), Array(<<<<One(Tagged(1, b))>>>>)}
Bs == {AnyInt, Value(7), Choice(<<a, AnyText>>), Embedded(a), Array(<<<<Some(a)>>>>), AtMost(AnyInt, 5), t, Array(<<<<Many(t)>>>>)}
Sockets == {
  [types |-> [x \in {"$t"} |-> <<AnyInt, Array(<<<<Many(t)>>>>)>>], groups |-> <<>>],
  [types |-> <<>>, groups |-> [x \in {"$$g"} |-> <<Group(<<<<Keyed(One(a), k), Keyed(One(b), Label("l"))>>>>)>>]],
  [types |-> <<>>, groups |-> <<>>],
  [types |-> [x \in {"$t"} |-> <<AnyInt, Array(<<<<One(b)>>>>)>>], groups |-> <<>>],
  [types |-> <<>>, groups |-> [x \in {"$$g"} |-> <<Group(<<<<Keyed(One(a), k)>>>>)>>]],
  [types |-> <<>>, groups |-> [x \in {"$$g"} |-> <<Group(<<<<Keyed(One(a), k)>>>>), Group(<<<<Keyed(One(b), Label("l"))>>>>)>>]]}

(* Schemas that compile: every name is defined, and what stands for a      *)
(* group is only named where an entry may stand.                           *)
RECURSIVE AsType(_)
AsTypeIn(groups) == UNION {UNION {IF IsBare(e.body) /\ e.key = NoKey THEN {} ELSE AsType(e.body) : e \in Range(n)} : n \in Range(groups)}
AsType(u) ==
  CASE u.kind = "name" -> {u.name}
    [] u.kind = "type" -> UNION {AsType(v) : v \in Range(u.alts)}
    [] u.kind \in {"array", "map", "group"} -> AsTypeIn(u.groups)
    [] u.kind \in {"tag", "paren", "cbor"} -> AsType(u.body)
    [] u.kind = "control" -> AsType(u.carrier) \cup AsType(u.controller)
    [] OTHER -> {}
Stands(s, u) == u.kind = "group" \/ (IsBare(u) /\ u.name \in DOMAIN s.rules /\ s.rules[u.name].kind = "group")
Compiles(s) ==
  LET bodies == Range(s.rules) \cup UNION {Range(s.types[x]) : x \in DOMAIN s.types} \cup UNION {Range(s.groups[x]) : x \in DOMAIN s.groups}
  IN /\ UNION {Mentioned(u) : u \in bodies} \subseteq DOMAIN s.rules \cup DOMAIN s.types \cup DOMAIN s.groups
     /\ \A x \in DOMAIN s.rules : Stands(s, s.rules[x]) => \A u \in bodies : x \notin AsType(u)

AllSchemas ==
  {[rules |-> [x \in {"root", "a", "b"} |-> CASE x = "root" -> r [] x = "a" -> p [] OTHER -> q],
    types |-> s.types, groups |-> s.groups] : r \in Roots, p \in As, q \in Bs, s \in Sockets}

MCSchemas == {s \in AllSchemas : Compiles(s)}

(* Values by which types are told apart.                                   *)
MCValues ==
  {Number(1), Number(7), Number(-1), Text("k"), List(<<>>), List(<<Number(1)>>), List(<<Number(1), Number(7)>>),
   List(<<List(<<>>)>>), List(<<Text("k")>>), List(<<List(<<Number(1)>>)>>), List(<<Number(1), Text("k")>>), TagOf(1, Number(1)), TagOf(1, TagOf(1, Number(7))),
   Bytes(Number(1)), List(<<TagOf(1, Number(1))>>), Dict(<<>>), Dict(<<<<Text("k"), Number(1)>>>>),
   Dict(<<<<Text("k"), Text("k")>>>>)}

(* A schema as CddlMeaning has it: without parentheses, a rule and the     *)
(* rules it names without more as one choice, a socket as a rule.          *)
RECURSIVE Plain(_)
PlainEntry(e) == [e EXCEPT !.key = IF e.key = NoKey THEN NoKey ELSE Plain(e.key), !.body = Plain(e.body)]
PlainGroups(groups) == [n \in DOMAIN groups |-> [i \in DOMAIN groups[n] |-> PlainEntry(groups[n][i])]]
Plain(u) ==
  CASE u.kind = "paren" -> Plain(u.body)
    [] u.kind = "type" -> Choice([n \in DOMAIN u.alts |-> Plain(u.alts[n])])
    [] u.kind \in {"tag", "cbor"} -> [u EXCEPT !.body = Plain(u.body)]
    [] u.kind = "control" -> [u EXCEPT !.carrier = Plain(u.carrier), !.controller = Plain(u.controller)]
    [] u.kind \in {"array", "map", "group"} -> [u EXCEPT !.groups = PlainGroups(u.groups)]
    [] OTHER -> u
AllRules(s) == [x \in DOMAIN s.rules \cup DOMAIN s.types |->
                  Plain(IF x \in DOMAIN s.rules THEN s.rules[x] ELSE Choice(s.types[x]))]
RECURSIVE Arms(_)
Arms(u) == IF u.kind = "type" THEN UNION {Arms(v) : v \in Range(u.alts)} ELSE {u}
Grounded(rules, x) ==
  LET next(s) == s \cup UNION {{u.name : u \in {v \in Arms(rules[y]) : IsBare(v)}} : y \in s \cap DOMAIN rules}
      after[n \in 0..Cardinality(DOMAIN rules)] == IF n = 0 THEN {x} ELSE next(after[n - 1])
  IN Choice(SetToSeq(UNION {{v \in Arms(rules[y]) : ~(IsBare(v) /\ v.name \in DOMAIN rules)} :
                              y \in after[Cardinality(DOMAIN rules)] \cap DOMAIN rules}))
Meaning(s) ==
  LET rules == AllRules(s)
  IN [rules |-> [x \in DOMAIN rules |-> Grounded(rules, x)], plugs |-> s.groups]
Means(s, v) == Derive(FALSE, Meaning(s), Name(RootRule), v, Root) # {}
--------------------------------------------------------------------------------
(* Schemas whose rendering means something else, is no CDDL or never ends: *)
(*  - `.within` in one of several arms is printed as it was written, and   *)
(*    the names in it are lost;                                            *)
(*  - a name right of `.within` that stands for a choice lets it escape;   *)
(*  - a control is added to a name that stands for a control;              *)
(*  - a choice of controls right of a control looks as if in parentheses;  *)
(*  - a self-arm below a tag is left out too;                              *)
(*  - plugs of a group socket are printed as a sequence, and only the      *)
(*    first entry of each; an occurrence before the socket is lost;        *)
(*  - a plug of a type socket that names the socket is put in its own      *)
(*    place for ever;                                                      *)
(*  - `lo...hi` is printed as `lo..hi`, `//` as a comma;                   *)
(*  - of an entry that begins with an array or a map, the other arms are   *)
(*    lost.                                                                *)
Behind(s, u) == IF IsBare(u) THEN Range(Grounded(AllRules(s), u.name).alts) ELSE Arms(Plain(u))
RECURSIVE Below1(_)
Parts(u) ==
  CASE u.kind = "type" -> Range(u.alts)
    [] u.kind \in {"tag", "paren"} -> {u.body}
    [] u.kind \in {"control", "cbor"} -> {LeftOf(u), RightOf(u)}
    [] u.kind \in {"array", "map", "group"} -> {e.body : e \in UNION {Range(n) : n \in Range(u.groups)}}
    [] OTHER -> {}
Below1(u) == {u} \cup UNION {Below1(v) : v \in Parts(u)}
Written(s) == UNION {Below1(u) : u \in Range(s.rules) \cup UNION {Range(s.types[x]) : x \in DOMAIN s.types}}
IsMany(set) == Cardinality(set) > 1
Expressions(set) == {u \in set : IsExpression(u)}
ManyPlugs(s) == \E x \in DOMAIN s.groups : Len(s.groups[x]) > 1
SelfPlugged(s) == \E x \in DOMAIN s.types : \E p \in Range(s.types[x]) : x \in Mentioned(p)
DepartsOtherwise(s) ==
  \/ \E u \in Written(s) : u.kind = "type" /\ \E v \in Range(u.alts) : IsWithin(v)
  \/ \E u \in Written(s) : IsWithin(u) /\ IsMany(Behind(s, RightOf(u)))
  \/ \E u \in Written(s) : u.kind \in {"control", "cbor"} /\ ~IsMany(Behind(s, LeftOf(u))) /\ Expressions(Behind(s, LeftOf(u))) # {}
  \/ \E u \in Written(s) : u.kind \in {"control", "cbor"} /\ IsMany(Behind(s, RightOf(u))) /\ Behind(s, RightOf(u)) = Expressions(Behind(s, RightOf(u)))
  \/ \E x \in DOMAIN s.rules : \E u \in Below1(s.rules[x]) : u.kind = "tag" /\ Name(x) \in Range(Alts(u.body))
  \/ \E x \in DOMAIN s.groups : \E p \in Range(s.groups[x]) : Len(FlattenSeq(p.groups)) > 1
  \/ SelfPlugged(s)
  \/ \E u \in Written(s) : u.kind = "below"
  \/ \E u \in Written(s) : u.kind \in {"array", "map", "group"} /\ Len(u.groups) > 1
  \/ \E u \in Written(s) : u.kind \in {"array", "map", "group"} /\ \E e \in Range(FlattenSeq(u.groups)) :
       \/ e.mark # "" /\ IsBare(e.body) /\ e.body.name \in DOMAIN s.groups
       \/ e.mark = "" /\ e.key = NoKey /\ IsMany(Range(Alts(e.body))) /\ LeadingBlock(e.body) # <<>>
(* What the second rendering sees otherwise: a control that stayed a name, *)
(* and has got parentheses around its arms or around its name; a rule that *)
(* names itself through a socket, which it does without once rendered.     *)
Shifts(s) ==
  \/ \E u \in Written(s) :
       \/ u.kind \in {"control", "cbor"} /\ IsBare(RightOf(u)) /\ Expressions(Behind(s, RightOf(u))) # {}
       \/ u.kind = "type" /\ \E v \in Range(u.alts) : IsBare(v) /\ Expressions(Behind(s, v)) # {}
  \/ \E x \in DOMAIN s.types : \E p \in Range(s.types[x]) : \E y \in Mentioned(p) \cap DOMAIN s.rules : x \in Mentioned(s.rules[y])
Origin == IF pass = 1 THEN schema ELSE previous.schema
Regular == ~ManyPlugs(Origin) /\ ~DepartsOtherwise(Origin)
Rendered(p) == phase = "done" /\ pass = p /\ ~deep /\ Regular

(* However rules name one another and the sockets, and plugs name rules, a *)
(* rendering goes no deeper than the stack allows: the renderer does not   *)
(* follow a cycle (`build_resolution`, `in_progress`).  One it does follow:*)
(* a plug of a type socket that names the socket itself (`SelfPlugged`) is *)
(* put in its own place for ever (`type_plugs_for`).                       *)
Ends == ~SelfPlugged(Origin) => ~deep

(* Every name in the printed document is defined in it: whatever path      *)
(* printed the name has asked for its definition to be kept.               *)
Bodies(s) == Range(s.rules) \cup UNION {Range(s.types[x]) : x \in DOMAIN s.types}
Closed == Rendered(1) => UNION {Mentioned(u) : u \in Bodies(Reread)} \subseteq DOMAIN Printout

(* The printed document is CDDL, and its first rule matches what the first *)
(* rule of the schema matches: nothing is lost and no operand escapes its  *)
(* operator when references are replaced.                                  *)
SameMeaning == Rendered(1) => Legible /\ \A v \in MCValues : Means(schema, v) <=> Means(Reread, v)

(* What is printed can stand for the schema: it is complete and means the  *)
(* same.                                                                   *)
Faithful == Closed /\ SameMeaning

(* The rendering of a rendering is that rendering: no parentheses pile up  *)
(* and no name is kept that was put in place before.                       *)
Stable == Rendered(2) /\ ~Shifts(Origin) => Printout = previous.out
================================================================================
