---------------------------- MODULE MCDocumentChecks ----------------------------
(***************************************************************************)
(* Small documents for DocumentChecks, in three families: directives of    *)
(* every kind in every order, rules that refer to each other in every way, *)
(* and uses of two libraries with names of one's own.                      *)
(***************************************************************************)
EXTENDS DocumentChecks

A == <<"a">>  B == <<"b">>  C == <<"c">>  S == <<"s">>  LA == <<"l", "a">>  LB == <<"l", "b">>  LC == <<"l", "c">>
L == <<"l">>
MCNames == {A, B, C, S, L, LA, LB, LC}
MCFiles == {"main", "lib", "plain"}
MCTypeSockets == {S}
MCInvalid == {L}

Note(s) == [kind |-> "comment", says |-> s, names |-> {}, trailing |-> FALSE]
Trails(s) == [Note(s) EXCEPT !.trailing = TRUE]
Externs(ns) == [Note("Extern") EXCEPT !.names = ns]
Wrote(n, ns) == [kind |-> "rule", name |-> n, assign |-> "=", written |-> ns, pulled |-> {}, groups |-> {},
                 params |-> {}, angle |-> FALSE, inside |-> {}, names |-> {}]
Imports(f, alias) == [kind |-> "use", include |-> FALSE, file |-> f, alias |-> alias]
Includes(f, alias) == [Imports(f, alias) EXCEPT !.include = TRUE]

(* `lib` exports a, keeps b to itself and declares c; `plain` is no        *)
(* library, and has a c of its own.                                        *)
Lib == <<Note("Library"), Externs({C}), Note("Export"), Wrote(A, {B}), Wrote(B, {})>>
Plain == <<Wrote(C, {})>>
Beside(main, lib) == [f \in MCFiles |-> CASE f = "main" -> main [] f = "lib" -> lib [] f = "plain" -> Plain]
Around(main) == Beside(main, Lib)

(* Directives: up to four lines after the first, three after a longer      *)
(* opening, a trailing comment only behind a rule.                         *)
Items == {Note("Export"), Trails("Export"), Note("nothing"), Imports("lib", L), Wrote(A, {}), Wrote(B, {A})}
Openings == {<<Note("Library"), Note("Library"), Externs({A, L}), Externs({A})>>,
             <<Note("Library"), [Wrote(C, {}) EXCEPT !.inside = {"Export"}]>>,
             <<Externs({B}), Note("Unknown"), Note("Foreign"),
               [Wrote(C, {}) EXCEPT !.inside = {"Extern", "Library"}, !.names = {A}], Note("Library")>>}
UpTo(most) == UNION {[1..k -> Items] : k \in 0..most}
Marked == {<<first>> \o body : first \in {Note("Library"), Note("nothing")}, body \in UpTo(4)}
          \cup {open \o body : open \in Openings, body \in UpTo(3)}
Directives == {t \in Marked : \A i \in DOMAIN t : t[i].kind = "comment" /\ t[i].trailing =>
                                i > 1 /\ t[i - 1].kind = "rule"}

(* Three rules with any references between them, as types or as groups.    *)
Webs == {<<Wrote(A, r[1]), Wrote(B, r[2]), [Wrote(C, r[3]) EXCEPT !.groups = r[3]]>> :
           r \in [1..3 -> SUBSET {A, B, C}]}
        \cup {[i \in 1..3 |-> [Wrote(<<A, B, C>>[i], r[i]) EXCEPT !.groups = r[i]]] :
                r \in [1..3 -> SUBSET {A, B, C}]}
Extended == {<<Wrote(A, {S}), [Wrote(S, {B}) EXCEPT !.assign = assign], Wrote(B, r), Wrote(C, {B})>> :
               assign \in {"=", "/="}, r \in SUBSET {A, B, C}}

(* Uses of the two files, before the rules or after the first one, by a    *)
(* rule that names what is theirs or its own.                              *)
Bodies == {[Wrote(A, {n, m}) EXCEPT !.pulled = p, !.angle = g] :
             n \in {LA, LC, B, C}, m \in {B, C, LB}, p \in {{}, {B}}, g \in BOOLEAN}
Consumers == {<<Imports("lib", alias)>> \o before \o <<body>> \o after :
                alias \in {<<>>, L}, before \in {<<>>, <<Note("Library"), Externs({B})>>, <<Imports("plain", <<>>)>>},
                body \in Bodies, after \in {<<>>, <<Wrote(C, {})>>, <<Imports("plain", <<>>)>>}}
             \cup {<<Note("Library"), Externs({B}), Imports("lib", <<>>), Wrote(A, {n, C})>> : n \in {B, C}}

(* Uses of a library that exports nothing, imported or included.           *)
Closed == [Lib EXCEPT ![3] = Note("nothing")]
Outsiders == {<<use, Wrote(C, {n, m})>> : use \in {Imports("lib", L), Includes("lib", L)},
                                        n \in {LA, LB, C}, m \in {LA, LB, B}}

Documents == {Around(main) : main \in Directives \cup Webs \cup Extended \cup Consumers}
             \cup {Beside(main, Closed) : main \in Outsiders}

(* They are documents that DocumentSpec and TreeSpec speak of.             *)
ASSUME TextsAreLines == \A t \in Documents : \A f \in Files : t[f] \in Text
ASSUME TextsAreTrees == \A t \in Documents : \E depth \in [Files -> 0..1] : Descends(t, depth)

Spec == InitFrom(Documents) /\ [][Next]_vars

===============================================================================
