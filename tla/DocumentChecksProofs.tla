-------------------------- MODULE DocumentChecksProofs --------------------------
(***************************************************************************)
(* The Export directives of a document and its libraries are accounted     *)
(* for, and what the compiler says of definitions that nothing refers to   *)
(* (E020) and of groups that include each other (E030) is exact, for       *)
(* documents of any length, whatever order the search looks at names in.   *)
(*                                                                         *)
(* ComponentsProofs shows that a finished search has found the sets of     *)
(* names that lead to each other.  What is left is that the graph that is  *)
(* searched is the document's, that nothing else reports these two codes,  *)
(* that the removal of duplicates loses none of the names reported, and    *)
(* that naming one member of every component without an edge into it       *)
(* covers them all: of the names that are not covered, one with the fewest *)
(* names leading to it would be in a component that should be named.       *)
(*                                                                         *)
(* What the compiler says of names that a library hides (W003) is exact    *)
(* too: of every file that is read the surface is what its text offers,    *)
(* and the tree of a document whose files are not inside themselves is a   *)
(* list, so that a name has a first definition to be meant.                *)
(***************************************************************************)
EXTENDS DocumentChecks, ComponentsProofs, Induction, FiniteSetTheorems

-----------------------------------------------------------------------------
(* The Export directives of every document are accounted for: any files    *)
(* of any length, used any number of times.  While a file is read, each    *)
(* Export above the line that is read has its rule marked, is reported, or *)
(* is the one that waits; and nothing stands between that one and the line *)
(* that is read.                                                           *)

Stages == {"scan", "mark", "next", "unreferenced"}
Surface == [library : BOOLEAN, extern : SUBSET Names, exported : SUBSET Names]

(* What the files and the surfaces are, whatever is read.                  *)
Typed ==
  /\ texts \in [Files -> Text]
  /\ stage \in Stages
  /\ file \in Files
  /\ pending \in Nat
  /\ tagged \in [Files -> SUBSET Nat]
  /\ surface \in [Files -> Surface]

(* The rules of a file that an Export is for, and those above a line.      *)
Bound(t) == {r \in Rules(t) : \E e \in Exports(t) : Binds(t, e, r)}
Preceding(S, k) == {i \in S : i < k}
Lost(t) == {e \in Exports(t) : \A r \in Rules(t) : ~Binds(t, e, r)}
Told == {d.at : d \in {f \in found : f.code = "E022"}}
NamesOf(t, S) == {t[r].name : r \in S}

(* Nothing is marked that should not be, in any file at any time.          *)
OnlyBound == \A f \in Files : tagged[f] \subseteq Bound(texts[f])

(* The Export that waits, in a library, with nothing between it and `at`.  *)
Waits(t) ==
  /\ IsLibrary(t)
  /\ pending \in Exports(t) /\ pending < at
  /\ \A i \in Stops(t) : ~(pending < i /\ i < at)

(* An Export above `at` that does not wait is for no rule from `at` on.    *)
Decided(t) == \A e \in Preceding(Exports(t), at), r \in Rules(t) : Binds(t, e, r) /\ r >= at => e = pending

Reading ==
  LET t == texts[file]
  IN /\ at \in 1..(Len(t) + 1)
     /\ surface[file].library = IsLibrary(t)
     /\ pending = 0 \/ Waits(t)
     /\ Decided(t)
     /\ Told = Preceding(Lost(t), at) \ {pending}
     /\ Preceding(Bound(t), at) \subseteq tagged[file]
     /\ NamesOf(t, Preceding(Bound(t), at)) \subseteq surface[file].exported
     /\ surface[file].exported \subseteq NamesOf(t, Bound(t))

MarkInv ==
  /\ Typed
  /\ OnlyBound
  /\ stage = "mark" => Reading
  /\ ExportsAccounted

-----------------------------------------------------------------------------
(* The lines of a file, and what kind each is.                             *)
LEMMA TextLines ==
  ASSUME NEW t \in Text
  PROVE  /\ Len(t) \in Nat /\ DOMAIN t = 1..Len(t)
         /\ \A i \in DOMAIN t : t[i] \in Comment \cup Rule \cup Use
         /\ Exports(t) \subseteq Comments(t)
         /\ Rules(t) \subseteq DOMAIN t /\ Uses(t) \subseteq DOMAIN t /\ Comments(t) \subseteq DOMAIN t
         /\ DOMAIN t = Rules(t) \cup Uses(t) \cup Comments(t)
         /\ Rules(t) \cap Uses(t) = {} /\ Rules(t) \cap Comments(t) = {} /\ Uses(t) \cap Comments(t) = {}
         /\ \A r \in Rules(t) : t[r].name \in Names /\ t[r].names \subseteq Names
         /\ \A c \in Comments(t) : t[c].names \subseteq Names
         /\ \A i \in Uses(t) : t[i].file \in Files
<1>1. t \in Seq(Comment \cup Rule \cup Use)
  BY DEF Text
<1>2. Len(t) \in Nat /\ DOMAIN t = 1..Len(t) /\ \A i \in DOMAIN t : t[i] \in Comment \cup Rule \cup Use
  BY <1>1
<1>3. \A x \in Comment \cup Rule \cup Use :
        /\ x.kind \in {"comment", "rule", "use"}
        /\ x.kind = "rule" => x.name \in Names /\ x.names \subseteq Names
        /\ x.kind = "comment" => x.names \subseteq Names
        /\ x.kind = "use" => x.file \in Files
  BY DEF Comment, Rule, Use
<1> QED
  BY <1>2, <1>3 DEF Exports, Rules, Uses, Comments

LEMMA LineNumbers ==
  ASSUME NEW t \in Text
  PROVE  /\ Len(t) \in Nat
         /\ Exports(t) \subseteq 1..Len(t) /\ Rules(t) \subseteq 1..Len(t) /\ Stops(t) \subseteq 1..Len(t)
         /\ Exports(t) \cap Rules(t) = {}
<1>1. Exports(t) \subseteq Comments(t) /\ Comments(t) \subseteq DOMAIN t /\ Rules(t) \subseteq DOMAIN t
      /\ Uses(t) \subseteq DOMAIN t /\ Rules(t) \cap Comments(t) = {}
  BY TextLines
<1>2. Len(t) \in Nat /\ DOMAIN t = 1..Len(t)
  BY TextLines
<1> QED
  BY <1>1, <1>2 DEF Stops

LEMMA NextLine == ASSUME NEW t \in Text, NEW k \in DOMAIN t PROVE k + 1 \in 1..(Len(t) + 1)
<1>1. Len(t) \in Nat /\ DOMAIN t = 1..Len(t)
  BY TextLines
<1> QED
  BY <1>1

(* The scan reports no useless Export.                                     *)
LEMMA ScanTells == ASSUME NEW f \in Files PROVE \A d \in ScanFindings(f) : d.code # "E022"
BY DEF ScanFindings, Finding

(* Where none of the four cases shows, an Export is for the rule that the  *)
(* comments give it.                                                       *)
LEMMA AsIntended ==
  ASSUME NEW t \in Text, ~TrailingExport(t), ~EnclosedExport(t), ~PassedUse(t), ~ResumedChain(t)
  PROVE  /\ Said(t, "Export") = Exports(t)
         /\ \A e \in Exports(t), r \in Rules(t) : Binds(t, e, r) <=> Intends(t, e, r)
<1>1. Said(t, "Export") = Exports(t)
  BY DEF Said, Exports, TrailingExport, EnclosedExport
<1>2. Exports(t) \subseteq DOMAIN t /\ Rules(t) \subseteq DOMAIN t /\ Uses(t) \subseteq DOMAIN t
  BY TextLines
<1>3. ASSUME NEW e \in Exports(t), NEW r \in Rules(t), Binds(t, e, r) PROVE Intends(t, e, r)
  <2>1. \A u \in Uses(t) : ~(e < u /\ u < r)
    BY <1>2, <1>3 DEF PassedUse
  <2>2. ~Resumes(t, e)
    BY <1>2, <1>3 DEF ResumedChain
  <2>3. QED BY <1>1, <1>3, <2>1, <2>2 DEF Binds, Intends, Stops
<1>4. ASSUME NEW e \in Exports(t), NEW r \in Rules(t), Intends(t, e, r) PROVE Binds(t, e, r)
  BY <1>1, <1>4 DEF Binds, Intends, Stops
<1>5. QED BY <1>1, <1>3, <1>4

(* What is told once an Export more is reported.                           *)
LEMMA Telling ==
  ASSUME NEW D, NEW line
  PROVE  {d.at : d \in {f \in D \cup {Useless(line)} : f.code = "E022"}}
           = {d.at : d \in {f \in D : f.code = "E022"}} \cup {line}
<1>1. Useless(line).code = "E022" /\ Useless(line).at = line
  BY DEF Useless, Finding
<1> QED
  BY <1>1

(* An Export whose way down is cut by a line that stops it, with no rule   *)
(* above that line, is useless.                                            *)
LEMMA CutOff ==
  ASSUME NEW t \in Text, NEW e \in Exports(t), NEW k \in Int, e < k,
         k \in Stops(t) \ Rules(t) \/ k > Len(t),
         \A i \in Stops(t) : ~(e < i /\ i < k)
  PROVE  e \in Lost(t)
<1> SUFFICES ASSUME NEW r \in Rules(t), Binds(t, e, r) PROVE FALSE
  BY DEF Lost
<1>1. r \in Int /\ r <= Len(t) /\ e \in Int
  BY LineNumbers
<1>2. r > e /\ r \in Stops(t)
  BY DEF Binds, Stops
<1>3. ~(r < k)
  BY <1>2
<1>4. r # k
  BY <1>1
<1>5. k < r /\ k \in Stops(t)
  BY <1>1, <1>3, <1>4
<1> QED
  BY <1>5 DEF Binds

(* In a file that is no library every Export is useless.                   *)
LEMMA NoLibrary ==
  ASSUME NEW t \in Text, ~IsLibrary(t)
  PROVE  Lost(t) = Exports(t) /\ Bound(t) = {}
BY DEF Lost, Bound, Binds
-----------------------------------------------------------------------------
(* Init and the actions, one lemma each.                                   *)
LEMMA InitMarkInv == ReadingInit([Files -> Text]) => MarkInv
<1> SUFFICES ASSUME ReadingInit([Files -> Text]) PROVE MarkInv
  OBVIOUS
<1>1. [library |-> FALSE, extern |-> {}, exported |-> {}] \in Surface
  BY DEF Surface
<1> QED
  BY <1>1, MainIsAFile DEF ReadingInit, MarkInv, Typed, Stages, OnlyBound, ExportsAccounted

LEMMA ScanMarkInv == MarkInv /\ Scan => MarkInv'
<1> SUFFICES ASSUME MarkInv, Scan PROVE MarkInv'
  OBVIOUS
<1> DEFINE t == texts[file]
<1>1. t \in Text /\ file \in Files /\ texts' = texts /\ file' = file /\ tagged' = tagged
  BY DEF MarkInv, Typed, Scan
<1>2. [library |-> IsLibrary(t), extern |-> Declared(t), exported |-> {}] \in Surface
  <2>1. IsLibrary(t) \in BOOLEAN
    BY DEF IsLibrary
  <2>2. Declared(t) \subseteq Names
    <3>1. \A i \in Said(t, "Extern") : t[i].names \subseteq Names
      BY <1>1, TextLines DEF Said
    <3> QED
      BY <3>1 DEF Declared
  <2> QED
    BY <2>1, <2>2 DEF Surface
<1>3. Typed'
  BY <1>1, <1>2 DEF MarkInv, Typed, Stages, Scan
<1>4. OnlyBound'
  BY <1>1 DEF MarkInv, OnlyBound
<1>5. Reading'
  <2>1. at' = 1 /\ pending' = 0 /\ found' = ScanFindings(file)
    BY DEF Scan
  <2>2. surface'[file].library = IsLibrary(t) /\ surface'[file].exported = {}
    BY <1>1 DEF Scan, MarkInv, Typed
  <2>3. Told' = {}
    BY <1>1, <2>1, ScanTells DEF Told
  <2>4. Preceding(Exports(t), 1) = {} /\ Preceding(Lost(t), 1) = {} /\ Preceding(Bound(t), 1) = {}
    BY <1>1, LineNumbers DEF Preceding, Lost, Bound
  <2>5. 1 \in 1..(Len(t) + 1)
    BY <1>1, LineNumbers
  <2> QED
    BY <1>1, <2>1, <2>2, <2>3, <2>4, <2>5 DEF Reading, Decided, NamesOf
<1> QED
  BY <1>3, <1>4, <1>5 DEF MarkInv, ExportsAccounted, Scan

(* What the lemmas about the Mark actions start from.                      *)
LEMMA WhileReading ==
  ASSUME MarkInv, stage = "mark"
  PROVE  LET t == texts[file]
         IN /\ t \in Text /\ file \in Files
            /\ at \in Nat /\ pending \in Nat
            /\ Reading /\ OnlyBound
            /\ Exports(t) \subseteq Nat \ {0} /\ Rules(t) \subseteq Nat \ {0}
            /\ Lost(t) \subseteq Exports(t) /\ Bound(t) \subseteq Rules(t)
<1> DEFINE t == texts[file]
<1>1. t \in Text /\ file \in Files /\ pending \in Nat /\ Reading /\ OnlyBound
  BY DEF MarkInv, Typed
<1>2. Len(t) \in Nat /\ Exports(t) \subseteq 1..Len(t) /\ Rules(t) \subseteq 1..Len(t)
  BY <1>1, LineNumbers
<1>3. at \in 1..(Len(t) + 1)
  BY <1>1 DEF Reading
<1> QED
  BY <1>1, <1>2, <1>3 DEF Lost, Bound

(* The line `at` is below those above the next one.                        *)
LEMMA AboveNext ==
  ASSUME NEW S \in SUBSET Nat, NEW k \in Int
  PROVE  Preceding(S, k + 1) = Preceding(S, k) \cup (S \cap {k})
<1>1. \A i \in S : i < k + 1 <=> i < k \/ i = k
  <2> SUFFICES ASSUME NEW i \in S PROVE i < k + 1 <=> i < k \/ i = k
    OBVIOUS
  <2>1. i \in Int
    OBVIOUS
  <2> QED
    BY <2>1
<1>2. \A i \in S : i = k => ~(i < k)
  OBVIOUS
<1> QED
  BY <1>1, <1>2 DEF Preceding

(* A line that is neither Export nor rule, and does not concern the Export *)
(* that waits.                                                             *)
LEMMA Passing ==
  ASSUME MarkInv, stage = "mark", Advance, UNCHANGED <<pending, found, tagged, surface>>,
         at \in DOMAIN texts[file], at \notin Rules(texts[file]) \cup Exports(texts[file]),
         pending = 0 \/ at \notin Stops(texts[file])
  PROVE  Reading'
<1> DEFINE t == texts[file]
<1>1. /\ t \in Text /\ at \in Int /\ Reading
      /\ Exports(t) \subseteq Nat /\ Rules(t) \subseteq Nat
      /\ Lost(t) \subseteq Exports(t) /\ Bound(t) \subseteq Rules(t)
  BY WhileReading
<1>2. texts' = texts /\ file' = file /\ at' = at + 1 /\ UNCHANGED <<pending, found, tagged, surface>>
  BY DEF Advance
<1>3. /\ Preceding(Exports(t), at + 1) = Preceding(Exports(t), at)
      /\ Preceding(Lost(t), at + 1) = Preceding(Lost(t), at)
      /\ Preceding(Bound(t), at + 1) = Preceding(Bound(t), at)
  BY <1>1 DEF Preceding
<1>4. at + 1 \in 1..(Len(t) + 1)
  BY <1>1, NextLine
<1>5. pending = 0 \/ Waits(t)'
  <2>1. CASE pending = 0
    BY <2>1
  <2>2. CASE pending # 0
    <3>1. at \notin Stops(t) /\ Waits(t)
      BY <1>1, <2>2 DEF Reading
    <3>2. Stops(t) \subseteq Int
      BY <1>1, LineNumbers
    <3>3. \A i \in Stops(t) : i < at + 1 => i < at
      BY <1>1, <3>1, <3>2
    <3>4. pending < at + 1
      BY <1>1, <3>1 DEF Waits
    <3> QED
      BY <1>2, <3>1, <3>3, <3>4 DEF Waits
  <2> QED
    BY <2>1, <2>2
<1>6. Decided(t)'
  <2>1. \A r \in Rules(t) : r >= at + 1 => r >= at
    BY <1>1
  <2> QED
    BY <1>1, <1>2, <1>3, <2>1 DEF Reading, Decided
<1> QED
  BY <1>1, <1>2, <1>3, <1>4, <1>5, <1>6 DEF Reading, Told

(* An Export that waits is useless if a line that is no rule stops it.     *)
LEMMA Stopped ==
  ASSUME MarkInv, stage = "mark", pending # 0, at \in Stops(texts[file])
  PROVE  LET t == texts[file]
         IN /\ at \notin Rules(t) => pending \in Lost(t)
            /\ pending \in Exports(t) /\ pending < at
            /\ \A r \in Rules(t) : r > at => ~Binds(t, pending, r)
<1> DEFINE t == texts[file]
<1>1. t \in Text /\ at \in Int /\ Waits(t)
  BY WhileReading DEF Reading
<1>2. pending \in Exports(t) /\ pending < at /\ \A i \in Stops(t) : ~(pending < i /\ i < at)
  BY <1>1 DEF Waits
<1>3. at \notin Rules(t) => pending \in Lost(t)
  BY <1>1, <1>2, CutOff
<1>4. \A r \in Rules(t) : r > at => ~Binds(t, pending, r)
  <2> SUFFICES ASSUME NEW r \in Rules(t), r > at, Binds(t, pending, r) PROVE FALSE
    OBVIOUS
  <2>1. ~(pending < at /\ at < r)
    BY DEF Binds
  <2>2. at < r
    BY <1>1, LineNumbers
  <2> QED
    BY <1>2, <2>1, <2>2
<1> QED
  BY <1>2, <1>3, <1>4

LEMMA CommentMarkInv == MarkInv /\ MarkComment => MarkInv'
<1> SUFFICES ASSUME MarkInv, MarkComment PROVE MarkInv'
  OBVIOUS
<1> DEFINE t == texts[file]
<1>1. stage = "mark" /\ at \in Comments(t) /\ Advance /\ UNCHANGED <<tagged, surface>>
  BY DEF MarkComment
<1>2. UNCHANGED <<texts, stage, file, tagged, surface>> /\ at' = at + 1
  BY <1>1 DEF Advance
<1>3. /\ t \in Text /\ at \in Nat /\ pending \in Nat /\ Reading /\ OnlyBound
      /\ Exports(t) \subseteq Nat \ {0} /\ Rules(t) \subseteq Nat \ {0}
      /\ Lost(t) \subseteq Exports(t) /\ Bound(t) \subseteq Rules(t)
  BY <1>1, WhileReading
<1>4. at \in DOMAIN t /\ at \notin Rules(t) /\ at \notin Uses(t)
  BY <1>1, <1>3, TextLines
<1>5. at + 1 \in 1..(Len(t) + 1)
  BY <1>3, <1>4, NextLine
<1>6. Typed'
  <2>1. pending' \in {pending, at, 0}
    BY DEF MarkComment
  <2>2. pending' \in Nat
    BY <1>3, <2>1
  <2> QED
    BY <1>2, <2>2 DEF MarkInv, Typed
<1>7. OnlyBound'
  BY <1>2, <1>3 DEF OnlyBound
<1>8. Preceding(Bound(t), at + 1) = Preceding(Bound(t), at)
  BY <1>3, <1>4 DEF Preceding
<1>9. Reading'
  <2>1. CASE at \notin Exports(t)
    <3>1. UNCHANGED <<pending, found>>
      BY <1>1, <2>1 DEF MarkComment, Exports, Line
    <3>2. at \notin Stops(t)
      BY <1>4, <2>1 DEF Stops
    <3> QED
      BY <1>1, <1>4, <2>1, <3>1, <3>2, Passing
  <2>2. CASE at \in Exports(t) /\ ~IsLibrary(t)
    <3>1. pending' = 0 /\ found' = found \cup {Useless(at)}
      BY <1>1, <1>3, <2>2 DEF MarkComment, Exports, Line, Reading
    <3>2. pending = 0
      BY <1>3, <2>2 DEF Reading, Waits
    <3>3. Told' = Told \cup {at}
      BY <3>1, Telling DEF Told
    <3>4. Lost(t) = Exports(t) /\ \A e \in Exports(t), r \in Rules(t) : ~Binds(t, e, r)
      BY <1>3, <2>2, NoLibrary DEF Binds
    <3>5. Preceding(Lost(t), at + 1) \ {0} = (Preceding(Lost(t), at) \ {0}) \cup {at}
      BY <1>3, <2>2, <3>4, AboveNext
    <3>6. Told' = Preceding(Lost(t), at + 1) \ {pending'}
      BY <1>3, <3>1, <3>2, <3>3, <3>5 DEF Reading
    <3>7. Decided(t)'
      BY <1>2, <3>4 DEF Decided, Preceding
    <3> QED
      BY <1>2, <1>3, <1>5, <1>8, <3>1, <3>6, <3>7 DEF Reading
  <2>3. CASE at \in Exports(t) /\ IsLibrary(t)
    <3>1. /\ found' = found \cup (IF pending = 0 THEN {} ELSE {Useless(pending)})
          /\ pending' = at
      BY <1>1, <1>3, <2>3 DEF MarkComment, Exports, Line, Reading
    <3>2. at \in Stops(t) /\ Stops(t) \subseteq Int
      BY <1>3, <2>3, LineNumbers DEF Stops
    <3>3. Waits(t)'
      <4>1. \A i \in Stops(t) : ~(at < i /\ i < at + 1)
        BY <1>3, <3>2
      <4> QED
        BY <1>2, <1>3, <2>3, <3>1, <4>1 DEF Waits
    <3>4. Told' = Preceding(Lost(t), at + 1) \ {at}
      <4>1. Preceding(Lost(t), at + 1) \ {at} = Preceding(Lost(t), at)
        <5>1. at \notin Preceding(Lost(t), at)
          BY <1>3 DEF Preceding
        <5> QED
          BY <1>3, <5>1, AboveNext
      <4>2. CASE pending = 0
        <5>1. Told' = Told /\ 0 \notin Lost(t)
          BY <1>3, <3>1, <4>2 DEF Told
        <5> QED
          BY <1>3, <4>1, <4>2, <5>1 DEF Reading, Preceding
      <4>3. CASE pending # 0
        <5>1. Told' = Told \cup {pending}
          BY <3>1, <4>3, Telling DEF Told
        <5>2. pending \in Preceding(Lost(t), at)
          BY <1>1, <1>4, <3>2, <4>3, Stopped DEF Preceding
        <5> QED
          BY <1>3, <4>1, <5>1, <5>2 DEF Reading
      <4> QED
        BY <4>2, <4>3
    <3>5. Decided(t)'
      <4> SUFFICES ASSUME NEW e \in Preceding(Exports(t), at + 1), NEW r \in Rules(t), Binds(t, e, r), r >= at + 1
                   PROVE  e = at
        BY <1>2, <3>1 DEF Decided
      <4>1. e \in Exports(t) /\ (e < at \/ e = at)
        BY <1>3, AboveNext DEF Preceding
      <4>2. r > at /\ r >= at
        BY <1>3
      <4>3. CASE e < at
        <5>1. e = pending
          BY <1>3, <4>1, <4>2, <4>3 DEF Reading, Decided, Preceding
        <5>2. pending # 0
          BY <1>3, <4>1, <5>1
        <5> QED
          BY <1>1, <3>2, <4>2, <5>1, <5>2, Stopped
      <4> QED
        BY <4>1, <4>3
    <3> QED
      BY <1>2, <1>3, <1>5, <1>8, <3>1, <3>3, <3>4, <3>5 DEF Reading
  <2> QED
    BY <2>1, <2>2, <2>3
<1> QED
  BY <1>1, <1>2, <1>6, <1>7, <1>9 DEF MarkInv, ExportsAccounted

LEMMA UseMarkInv == MarkInv /\ MarkUse => MarkInv'
<1> SUFFICES ASSUME MarkInv, MarkUse PROVE MarkInv'
  OBVIOUS
<1> DEFINE t == texts[file]
<1>1. stage = "mark" /\ at \in Uses(t) /\ Advance /\ UNCHANGED <<tagged, surface>>
  BY DEF MarkUse
<1>2. UNCHANGED <<texts, stage, file, tagged, surface>> /\ at' = at + 1
  BY <1>1 DEF Advance
<1>3. /\ t \in Text /\ at \in Nat /\ pending \in Nat /\ Reading /\ OnlyBound
      /\ Exports(t) \subseteq Nat \ {0} /\ Rules(t) \subseteq Nat \ {0}
      /\ Lost(t) \subseteq Exports(t) /\ Bound(t) \subseteq Rules(t)
  BY <1>1, WhileReading
<1>4. at \in DOMAIN t /\ at \notin Rules(t) /\ at \notin Exports(t)
  BY <1>1, <1>3, TextLines
<1>5. pending' \in {pending, 0}
  BY DEF MarkUse
<1>6. Typed'
  <2>1. pending' \in Nat
    BY <1>3, <1>5
  <2> QED
    BY <1>2, <2>1 DEF MarkInv, Typed
<1>7. OnlyBound'
  BY <1>2, <1>3 DEF OnlyBound
<1>8. Reading'
  <2>1. CASE pending = 0 \/ Nested(t, at)
    <3>1. UNCHANGED <<pending, found>>
      BY <2>1 DEF MarkUse
    <3>2. pending = 0 \/ at \notin Stops(t)
      BY <1>4, <2>1 DEF Stops
    <3> QED
      BY <1>1, <1>4, <3>1, <3>2, Passing
  <2>2. CASE pending # 0 /\ ~Nested(t, at)
    <3>1. pending' = 0 /\ found' = found \cup {Useless(pending)}
      BY <2>2 DEF MarkUse
    <3>2. at \in Stops(t)
      BY <1>1, <2>2 DEF Stops
    <3>3. pending \in Lost(t) /\ pending < at /\ \A r \in Rules(t) : r > at => ~Binds(t, pending, r)
      BY <1>1, <1>4, <2>2, <3>2, Stopped
    <3>4. /\ Preceding(Exports(t), at + 1) = Preceding(Exports(t), at)
          /\ Preceding(Lost(t), at + 1) = Preceding(Lost(t), at)
          /\ Preceding(Bound(t), at + 1) = Preceding(Bound(t), at)
      BY <1>3, <1>4 DEF Preceding
    <3>5. Told' = Preceding(Lost(t), at + 1) \ {0}
      <4>1. Told' = Told \cup {pending}
        BY <3>1, Telling DEF Told
      <4>2. pending \in Preceding(Lost(t), at) /\ 0 \notin Preceding(Lost(t), at)
        BY <1>3, <3>3 DEF Preceding
      <4> QED
        BY <1>3, <3>4, <4>1, <4>2 DEF Reading
    <3>6. Decided(t)'
      <4> SUFFICES ASSUME NEW e \in Preceding(Exports(t), at + 1), NEW r \in Rules(t), Binds(t, e, r), r >= at + 1
                   PROVE  FALSE
        BY <1>2 DEF Decided
      <4>1. r > at /\ r >= at
        BY <1>3
      <4>2. e = pending
        BY <1>3, <3>4, <4>1 DEF Reading, Decided
      <4> QED
        BY <3>3, <4>1, <4>2
    <3>7. at + 1 \in 1..(Len(t) + 1)
      BY <1>3, <1>4, NextLine
    <3> QED
      BY <1>2, <1>3, <3>1, <3>4, <3>5, <3>6, <3>7 DEF Reading
  <2> QED
    BY <2>1, <2>2
<1> QED
  BY <1>1, <1>2, <1>6, <1>7, <1>8 DEF MarkInv, ExportsAccounted

LEMMA RuleMarkInv == MarkInv /\ MarkRule => MarkInv'
<1> SUFFICES ASSUME MarkInv, MarkRule PROVE MarkInv'
  OBVIOUS
<1> DEFINE t == texts[file]
<1>1. stage = "mark" /\ at \in Rules(t) /\ Advance /\ pending' = 0 /\ found' = found
  BY DEF MarkRule
<1>2. UNCHANGED <<texts, stage, file>> /\ at' = at + 1
  BY <1>1 DEF Advance
<1>3. /\ t \in Text /\ file \in Files /\ at \in Nat /\ pending \in Nat /\ Reading /\ OnlyBound
      /\ Exports(t) \subseteq Nat \ {0} /\ Rules(t) \subseteq Nat \ {0}
      /\ Lost(t) \subseteq Exports(t) /\ Bound(t) \subseteq Rules(t)
  BY <1>1, WhileReading
<1>4. at \notin Exports(t) /\ at \in Stops(t) /\ at \in DOMAIN t /\ t[at].name \in Names
  BY <1>1, <1>3, LineNumbers, TextLines DEF Stops
<1>5. at + 1 \in 1..(Len(t) + 1)
  BY <1>3, <1>4, NextLine
<1>6. Preceding(Exports(t), at + 1) = Preceding(Exports(t), at) /\ Preceding(Lost(t), at + 1) = Preceding(Lost(t), at)
  BY <1>3, <1>4 DEF Preceding
<1>7. CASE pending = 0
  <2>1. UNCHANGED <<tagged, surface>>
    BY <1>7 DEF MarkRule
  <2>2. at \notin Bound(t)
    <3> SUFFICES ASSUME NEW e \in Exports(t), Binds(t, e, at) PROVE FALSE
      BY DEF Bound
    <3>1. e < at
      BY <1>3 DEF Binds
    <3>2. e = pending
      BY <1>1, <1>3, <3>1 DEF Reading, Decided, Preceding
    <3> QED
      BY <1>3, <1>7, <3>2
  <2>3. Preceding(Bound(t), at + 1) = Preceding(Bound(t), at)
    BY <1>3, <2>2 DEF Preceding
  <2>4. Decided(t)'
    <3>1. \A r \in Rules(t) : r >= at + 1 => r >= at
      BY <1>3
    <3> QED
      BY <1>1, <1>2, <1>3, <1>6, <1>7, <3>1 DEF Reading, Decided
  <2>5. Reading'
    BY <1>1, <1>2, <1>3, <1>5, <1>6, <1>7, <2>1, <2>3, <2>4 DEF Reading, Told
  <2>6. Typed' /\ OnlyBound'
    BY <1>1, <1>2, <1>3, <2>1 DEF MarkInv, Typed, OnlyBound
  <2> QED
    BY <1>1, <1>2, <2>5, <2>6 DEF MarkInv, ExportsAccounted
<1>8. CASE pending # 0
  <2>1. /\ tagged' = [tagged EXCEPT ![file] = @ \cup {at}]
        /\ surface' = [surface EXCEPT ![file].exported = @ \cup {t[at].name}]
    BY <1>8 DEF MarkRule, Line
  <2>2. tagged \in [Files -> SUBSET Nat] /\ surface \in [Files -> Surface]
    BY DEF MarkInv, Typed
  <2>3. /\ tagged'[file] = tagged[file] \cup {at}
        /\ \A f \in Files : f # file => tagged'[f] = tagged[f]
        /\ tagged' \in [Files -> SUBSET Nat]
    BY <1>3, <2>1, <2>2
  <2>4. /\ surface'[file].library = surface[file].library
        /\ surface'[file].exported = surface[file].exported \cup {t[at].name}
        /\ surface' \in [Files -> Surface]
    BY <1>3, <1>4, <2>1, <2>2 DEF Surface
  <2>5. Waits(t) /\ pending \in Exports(t) /\ pending < at
    BY <1>3, <1>8 DEF Reading, Waits
  <2>6. Binds(t, pending, at)
    BY <1>1, <1>3, <2>5 DEF Waits, Binds
  <2>7. at \in Bound(t) /\ pending \notin Lost(t)
    BY <1>1, <2>5, <2>6 DEF Bound, Lost
  <2>8. Preceding(Bound(t), at + 1) = Preceding(Bound(t), at) \cup {at}
    BY <1>3, <2>7, AboveNext
  <2>9. Typed'
    BY <1>1, <1>2, <2>3, <2>4 DEF MarkInv, Typed
  <2>10. OnlyBound'
    BY <1>2, <1>3, <2>3, <2>7 DEF OnlyBound
  <2>11. Decided(t)'
    <3> SUFFICES ASSUME NEW e \in Preceding(Exports(t), at + 1), NEW r \in Rules(t), Binds(t, e, r), r >= at + 1
                 PROVE  FALSE
      BY <1>2 DEF Decided
    <3>1. r > at /\ r >= at
      BY <1>3
    <3>2. e = pending
      BY <1>3, <1>6, <3>1 DEF Reading, Decided
    <3> QED
      BY <1>1, <1>4, <1>8, <3>1, <3>2, Stopped
  <2>12. Told' = Preceding(Lost(t), at + 1) \ {0}
    <3>1. Told' = Told /\ Told = Preceding(Lost(t), at) \ {pending}
      BY <1>1, <1>3 DEF Told, Reading
    <3>2. pending \notin Preceding(Lost(t), at) /\ 0 \notin Preceding(Lost(t), at)
      BY <1>3, <2>7 DEF Preceding
    <3> QED
      BY <1>6, <3>1, <3>2
  <2>13. NamesOf(t, Preceding(Bound(t), at + 1)) = NamesOf(t, Preceding(Bound(t), at)) \cup {t[at].name}
    BY <2>8 DEF NamesOf
  <2>14. t[at].name \in NamesOf(t, Bound(t))
    BY <2>7 DEF NamesOf
  <2>15. Reading'
    BY <1>1, <1>2, <1>3, <1>5, <2>3, <2>4, <2>8, <2>11, <2>12, <2>13, <2>14 DEF Reading
  <2> QED
    BY <1>1, <1>2, <2>9, <2>10, <2>15 DEF MarkInv, ExportsAccounted
<1> QED
  BY <1>7, <1>8

LEMMA EndMarkInv == MarkInv /\ MarkEnd => MarkInv'
<1> SUFFICES ASSUME MarkInv, MarkEnd PROVE MarkInv'
  OBVIOUS
<1> DEFINE t == texts[file]
<1>1. /\ stage = "mark" /\ stage' = "next" /\ at > Len(t) /\ pending' = 0
      /\ found' = found \cup (IF pending = 0 THEN {} ELSE {Useless(pending)})
      /\ UNCHANGED <<texts, file, at, tagged, surface>>
  BY DEF MarkEnd
<1>2. /\ t \in Text /\ file \in Files /\ at \in Nat /\ pending \in Nat /\ Reading /\ OnlyBound
      /\ Exports(t) \subseteq Nat \ {0} /\ Rules(t) \subseteq Nat \ {0}
      /\ Lost(t) \subseteq Exports(t) /\ Bound(t) \subseteq Rules(t)
  BY <1>1, WhileReading
<1>3. Preceding(Lost(t), at) = Lost(t) /\ Preceding(Bound(t), at) = Bound(t)
  <2>1. \A i \in Exports(t) \cup Rules(t) : i < at
    BY <1>1, <1>2, LineNumbers
  <2> QED
    BY <1>2, <2>1 DEF Preceding
<1>4. Told' = Lost(t)
  <2>1. CASE pending = 0
    <3>1. Told' = Told
      BY <1>1, <2>1 DEF Told
    <3> QED
      BY <1>2, <1>3, <2>1, <3>1 DEF Reading
  <2>2. CASE pending # 0
    <3>1. Told' = Told \cup {pending}
      BY <1>1, <2>2, Telling DEF Told
    <3>2. Waits(t)
      BY <1>2, <2>2 DEF Reading
    <3>3. pending \in Lost(t)
      BY <1>1, <1>2, <3>2, CutOff DEF Waits
    <3> QED
      BY <1>2, <1>3, <3>1, <3>3 DEF Reading
  <2> QED
    BY <2>1, <2>2
<1>5. tagged[file] = Bound(t)
  BY <1>2, <1>3 DEF Reading, OnlyBound
<1>6. surface[file].exported = NamesOf(t, tagged[file])
  BY <1>2, <1>3, <1>5 DEF Reading
<1>7. ExportsAccounted'
  <2> DEFINE u == (texts')[file']
             told == {d.at : d \in {f \in found' : f.code = "E022"}}
  <2>1. u = t
    BY <1>1
  <2>2. /\ tagged'[file'] = {r \in Rules(u) : \E e \in Exports(u) : Binds(u, e, r)}
        /\ told = {e \in Exports(u) : \A r \in Rules(u) : ~Binds(u, e, r)}
    BY <1>1, <1>4, <1>5, <2>1 DEF Told, Lost, Bound
  <2>3. surface'[file'].exported = {u[r].name : r \in tagged'[file']}
    BY <1>1, <1>6, <2>1 DEF NamesOf
  <2>4. ASSUME ~TrailingExport(u), ~EnclosedExport(u), ~PassedUse(u), ~ResumedChain(u)
        PROVE  /\ tagged'[file'] = {r \in Rules(u) : \E e \in Said(u, "Export") : Intends(u, e, r)}
               /\ told = {e \in Said(u, "Export") : \A r \in Rules(u) : ~Intends(u, e, r)}
    BY <1>2, <2>1, <2>2, <2>4, AsIntended
  <2> QED
    BY <2>2, <2>3, <2>4 DEF ExportsAccounted
<1>8. Typed' /\ OnlyBound'
  BY <1>1, <1>2 DEF MarkInv, Typed, Stages, OnlyBound
<1> QED
  BY <1>1, <1>7, <1>8 DEF MarkInv

LEMMA NextMarkInv == MarkInv /\ ReadNext => MarkInv'
<1> SUFFICES ASSUME MarkInv, ReadNext PROVE MarkInv'
  OBVIOUS
<1>1. UNCHANGED <<texts, pending, tagged, surface>> /\ stage' \in {"unreferenced", "scan"}
  BY DEF ReadNext
<1>2. file' \in Files
  <2>1. texts[Main] \in Text /\ file \in Files
    BY MainIsAFile DEF MarkInv, Typed
  <2>2. file' = file \/ \E i \in Uses(texts[Main]) : file' = texts[Main][i].file
    BY DEF ReadNext
  <2> QED
    BY <2>1, <2>2, TextLines
<1>3. Typed' /\ OnlyBound'
  BY <1>1, <1>2 DEF MarkInv, Typed, Stages, OnlyBound
<1> QED
  BY <1>1, <1>3 DEF MarkInv, ExportsAccounted

LEMMA StutterMarkInv == MarkInv /\ UNCHANGED docVars => MarkInv'
<1> SUFFICES ASSUME MarkInv, UNCHANGED docVars PROVE MarkInv'
  OBVIOUS
<1>1. UNCHANGED <<texts, stage, file, used, at, pending, tagged, surface, found, warnings>>
  BY DEF docVars
<1>2. Typed' /\ OnlyBound'
  BY <1>1 DEF MarkInv, Typed, OnlyBound
<1>3. ExportsAccounted'
  BY <1>1 DEF MarkInv, ExportsAccounted
<1>4. (stage = "mark" => Reading)'
  BY <1>1 DEF MarkInv, Reading, Waits, Decided, Told
<1> QED BY <1>2, <1>3, <1>4 DEF MarkInv

-----------------------------------------------------------------------------
(* However the comments, rules and `;#` directives of a document and its   *)
(* libraries follow each other (compiled.rs, apply_export_directives): an  *)
(* Export of a library marks the next rule and no other, or is reported as *)
(* useless, and a file that is read again marks nothing new.  The next     *)
(* rule is the one that the comments mean, but in the four cases that      *)
(* ExportsAccounted names.                                                 *)
THEOREM ExportsAreAccounted == ReadingSpec => []ExportsAccounted
<1>1. ReadingInit([Files -> Text]) => MarkInv
  BY InitMarkInv
<1>2. MarkInv /\ [ReadingNext]_docVars => MarkInv'
  BY ScanMarkInv, CommentMarkInv, UseMarkInv, RuleMarkInv, EndMarkInv, NextMarkInv, StutterMarkInv
     DEF ReadingNext
<1>3. MarkInv => ExportsAccounted
  BY DEF MarkInv
<1> QED
  BY <1>1, <1>2, <1>3, PTL DEF ReadingSpec

-----------------------------------------------------------------------------
(* Graphs.                                                                 *)

(* The components of the graph g on ns, and those no other has an edge to. *)
Parts(g, ns) == {Mutual(g, ns, n) : n \in ns}
Foremost(g, ns) == {c \in Parts(g, ns) : ~\E d \in Parts(g, ns) \ {c} : \E n \in d : g[n] \cap c # {}}

LEMMA InMutual == ASSUME NEW g, NEW ns, NEW n \in ns PROVE n \in Mutual(g, ns, n)
  BY LeadsSelf DEF Mutual

(* A component is the component of each of its members.                    *)
LEMMA SameMutual ==
  ASSUME NEW g, NEW ns, NEW n \in ns, NEW m \in Mutual(g, ns, n)
  PROVE  m \in ns /\ Mutual(g, ns, m) = Mutual(g, ns, n)
<1>1. m \in ns /\ Leads(g, ns, n, m) /\ Leads(g, ns, m, n)
  BY DEF Mutual
<1>2. ASSUME NEW k \in ns
      PROVE  /\ Leads(g, ns, m, k) <=> Leads(g, ns, n, k)
             /\ Leads(g, ns, k, m) <=> Leads(g, ns, k, n)
  BY <1>1, LeadsOn
<1>3. QED BY <1>1, <1>2 DEF Mutual

LEMMA PartsAreMutual ==
  ASSUME NEW g, NEW ns, NEW c \in Parts(g, ns)
  PROVE  c \subseteq ns /\ c # {} /\ \A n \in c : c = Mutual(g, ns, n)
<1>1. PICK k \in ns : c = Mutual(g, ns, k)
  BY DEF Parts
<1>2. c \subseteq ns
  BY <1>1 DEF Mutual
<1>3. QED BY <1>1, <1>2, InMutual, SameMutual

(* Nothing outside a foremost component leads into it.                     *)
LEMMA ForemostAlone ==
  ASSUME NEW g, NEW ns, NEW c \in Foremost(g, ns), NEW a \in ns, NEW b \in c, Leads(g, ns, a, b)
  PROVE  a \in c
<1> SUFFICES ASSUME a \notin c PROVE FALSE
  OBVIOUS
<1>1. PICK S \in SUBSET ns : S = ns \ c
  OBVIOUS
<1>2. ASSUME NEW n \in S, NEW m \in g[n] \cap ns PROVE m \in S
  <2> SUFFICES ASSUME m \in c PROVE FALSE
    BY <1>1
  <2>1. Mutual(g, ns, n) \in Parts(g, ns) /\ n \in Mutual(g, ns, n)
    BY InMutual DEF Parts
  <2>2. Mutual(g, ns, n) # c
    BY <2>1, <1>1
  <2>3. QED BY <2>1, <2>2 DEF Foremost
<1>3. a \in S /\ \A n \in S : g[n] \cap ns \subseteq S
  BY <1>1, <1>2
<1>4. b \in S
  BY <1>3, LeadsWithin
<1>5. QED BY <1>1, <1>4

(* Every node of a finite graph is led to from a foremost component.       *)
LEMMA ForemostCover ==
  ASSUME NEW g, NEW ns, IsFiniteSet(ns), NEW n \in ns
  PROVE  \E c \in Foremost(g, ns) : \A a \in c : Leads(g, ns, a, n)
<1> DEFINE Behind(k) == {m \in ns : Leads(g, ns, m, k)}
           Bad == {k \in ns : ~\E c \in Foremost(g, ns) : \A a \in c : Leads(g, ns, a, k)}
           Sizes == {Cardinality(Behind(k)) : k \in Bad}
<1> SUFFICES ASSUME Bad # {} PROVE FALSE
  OBVIOUS
<1>1. \A k \in ns : IsFiniteSet(Behind(k)) /\ Cardinality(Behind(k)) \in Nat
  <2>1. ASSUME NEW T \in SUBSET ns PROVE IsFiniteSet(T) /\ Cardinality(T) \in Nat
    BY FS_Subset, FS_CardinalityType
  <2>2. \A k \in ns : Behind(k) \in SUBSET ns
    OBVIOUS
  <2> HIDE DEF Behind
  <2>3. QED BY <2>1, <2>2
<1>2. Sizes \in SUBSET Nat /\ Sizes # {}
  <2>1. ASSUME NEW s \in Sizes PROVE s \in Nat
    <3>1. PICK k \in Bad : s = Cardinality(Behind(k))
      OBVIOUS
    <3>2. QED BY <3>1, <1>1
  <2>2. PICK k \in Bad : TRUE
    OBVIOUS
  <2>3. Cardinality(Behind(k)) \in Sizes
    OBVIOUS
  <2>4. QED BY <2>1, <2>3
<1> HIDE DEF Sizes
<1>3. PICK least \in Sizes : \A s \in Sizes : least <= s
  BY <1>2, NatLeast
<1>4. PICK k \in Bad : least = Cardinality(Behind(k))
  BY <1>3 DEF Sizes
<1>5. k \in ns /\ Mutual(g, ns, k) \in Parts(g, ns) /\ k \in Mutual(g, ns, k)
  BY InMutual DEF Parts
<1>6. Mutual(g, ns, k) \notin Foremost(g, ns)
  <2>1. \A a \in Mutual(g, ns, k) : Leads(g, ns, a, k)
    BY DEF Mutual
  <2>2. QED BY <2>1
<1>7. PICK d \in Parts(g, ns) : d # Mutual(g, ns, k) /\ \E m \in d : g[m] \cap Mutual(g, ns, k) # {}
  BY <1>5, <1>6 DEF Foremost
<1>8. PICK m \in d : \E e \in g[m] : e \in Mutual(g, ns, k)
  BY <1>7
<1>9. m \in ns /\ Leads(g, ns, m, k)
  <2>1. PICK e \in g[m] : e \in Mutual(g, ns, k)
    BY <1>8
  <2>2. e \in ns /\ Leads(g, ns, e, k)
    BY <2>1 DEF Mutual
  <2>3. m \in ns /\ Leads(g, ns, m, e)
    BY <2>1, <2>2, LeadsEdge, PartsAreMutual
  <2>4. QED BY <2>2, <2>3, LeadsOn
<1>10. ~Leads(g, ns, k, m)
  <2> SUFFICES ASSUME Leads(g, ns, k, m) PROVE FALSE
    OBVIOUS
  <2>1. m \in Mutual(g, ns, k)
    BY <1>9 DEF Mutual
  <2>2. Mutual(g, ns, m) = Mutual(g, ns, k)
    BY <2>1, <1>5, SameMutual
  <2>3. d = Mutual(g, ns, m)
    BY PartsAreMutual
  <2>4. QED BY <2>2, <2>3, <1>7
<1>11. m \in Bad
  BY <1>4, <1>9, LeadsOn
<1>12. Behind(m) \subseteq Behind(k) /\ k \in Behind(k) /\ k \notin Behind(m)
  BY <1>5, <1>9, <1>10, LeadsOn, LeadsSelf
<1>13. Cardinality(Behind(m)) < Cardinality(Behind(k))
  <2>1. PICK A \in SUBSET ns, B \in SUBSET ns : A = Behind(m) /\ B = Behind(k)
    OBVIOUS
  <2>2. /\ A \in SUBSET B /\ A # B /\ IsFiniteSet(B)
        /\ Cardinality(A) \in Nat /\ Cardinality(B) \in Nat
    BY <2>1, <1>1, <1>5, <1>9, <1>12
  <2>3. Cardinality(A) <= Cardinality(B) /\ Cardinality(A) # Cardinality(B)
    BY <2>2, FS_Subset
  <2>4. QED BY <2>1, <2>2, <2>3
<1>14. Cardinality(Behind(m)) \in Sizes
  BY <1>11 DEF Sizes
<1>15. Cardinality(Behind(m)) \in Nat /\ Cardinality(Behind(k)) \in Nat
  BY <1>1, <1>5, <1>9
<1> HIDE DEF Behind
<1>16. QED BY <1>3, <1>4, <1>13, <1>14, <1>15

-----------------------------------------------------------------------------
(* Documents.                                                              *)

Early == {"scan", "mark", "next", "unreferenced"}
Late == {"finalize", "cycles", "uses", "deduplicate", "done"}

(* The reports of the two codes that the document calls for.               *)
Roots == {Finding("E020", Main, SiteOf(n), {n}) : n \in {Earliest(c) : c \in Foremost(References, Unreachable)}}
Rings == {Finding("E030", "none", 0, c) : c \in {d \in Circles : Cardinality(d) > 1}}

Quiet(ds) == \A d \in ds : d.code \notin {"E020", "E030"}

(* The graph that is searched is the document's, and up to the report of   *)
(* what the search finds nothing has these codes.                          *)
DocInv ==
  /\ texts \in [Files -> Text]
  /\ stage \in Early \cup {"components"} \cup Late
  /\ stage \in Early \cup {"components"} => Quiet(warnings)
  /\ stage \in Early => Quiet(found)
  /\ stage = "components" => edges = References /\ nodes = Unreachable
  /\ stage = "cycles" => edges = Inclusions /\ nodes = Defined
  /\ stage \in Late /\ Cardinality(Sites) > 1 => Codes("E020") = Roots
  /\ stage \in {"finalize", "cycles"} => Codes("E030") = {}
  /\ stage = "uses" => Codes("E030") = Rings

(* The lines of the compiled file, and the graphs that are read off them.  *)
LEMMA Lines ==
  ASSUME texts \in [Files -> Text]
  PROVE  /\ Len(Doc) \in Nat /\ DOMAIN Doc = 1..Len(Doc)
         /\ Rules(Doc) \subseteq DOMAIN Doc
         /\ \A i \in Rules(Doc) : Doc[i] \in Rule
<1>1. Doc \in Text
  BY MainIsAFile DEF Doc
<1>2. Len(Doc) \in Nat /\ DOMAIN Doc = 1..Len(Doc) /\ \A i \in DOMAIN Doc : Doc[i] \in Comment \cup Rule \cup Use
  BY <1>1 DEF Text
<1>3. ASSUME NEW i \in Rules(Doc) PROVE i \in DOMAIN Doc /\ Doc[i] \in Rule
  <2>1. i \in DOMAIN Doc /\ Doc[i].kind = "rule"
    BY DEF Rules
  <2>2. Doc[i] \notin Comment /\ Doc[i] \notin Use
    BY <2>1 DEF Comment, Use
  <2>3. QED BY <2>1, <2>2, <1>2
<1>4. QED BY <1>2, <1>3

LEMMA GraphsOfRules ==
  ASSUME texts \in [Files -> Text]
  PROVE  References \in Graph /\ Inclusions \in Graph /\ Defined \subseteq Names /\ Unreachable \subseteq Defined
<1>1. \A i \in Rules(Doc) : Doc[i].written \subseteq Names /\ Doc[i].groups \subseteq Names /\ Doc[i].name \in Names
  BY Lines DEF Rule
<1>2. References \in Graph
  BY <1>1 DEF References, Graph
<1>3. Inclusions \in Graph
  BY <1>1 DEF Inclusions, Graph
<1>4. Sites \subseteq Rules(Doc)
  BY DEF Sites
<1>5. QED BY <1>1, <1>2, <1>3, <1>4 DEF Defined, Unreachable

LEMMA SitesFinite ==
  ASSUME texts \in [Files -> Text]
  PROVE  /\ IsFiniteSet(Sites) /\ Cardinality(Sites) \in Nat
         /\ \A i \in Sites : i \in Nat
<1>1. DOMAIN Doc = 1..Len(Doc) /\ Len(Doc) \in Nat /\ Sites \subseteq DOMAIN Doc
  BY Lines DEF Sites
<1>2. PICK k \in Nat : k = Len(Doc)
  BY <1>1
<1>3. 1 \in Int /\ k \in Int /\ Sites \in SUBSET (1..k)
  BY <1>1, <1>2
<1>4. IsFiniteSet(1..k)
  BY <1>3, FS_Interval
<1>5. IsFiniteSet(Sites)
  BY <1>3, <1>4, FS_Subset
<1>6. QED BY <1>3, <1>5, FS_CardinalityType

(* A defined name has the first of its definitions for a site.             *)
LEMMA SitesOfNames ==
  ASSUME texts \in [Files -> Text]
  PROVE  /\ IsFiniteSet(Defined)
         /\ \A n \in Defined : SiteOf(n) \in Sites /\ SiteOf(n) \in Nat /\ Doc[SiteOf(n)].name = n
<1>1. IsFiniteSet(Sites) /\ \A i \in Sites : i \in Nat
  BY SitesFinite
<1>2. [i \in Sites |-> Doc[i].name] \in Surjection(Sites, Defined)
  BY DEF Surjection, Defined
<1>3. IsFiniteSet(Defined)
  BY <1>1, <1>2, FS_Surjection
<1>4. ASSUME NEW n \in Defined
      PROVE  SiteOf(n) \in Sites /\ SiteOf(n) \in Nat /\ Doc[SiteOf(n)].name = n
  <2>1. \E i \in Sites : Doc[i].name = n
    BY DEF Defined
  <2>2. SiteOf(n) \in Sites /\ Doc[SiteOf(n)].name = n
    BY <2>1 DEF SiteOf
  <2>3. QED BY <2>2, <1>1
<1>5. QED BY <1>3, <1>4

LEMMA EarliestIn ==
  ASSUME texts \in [Files -> Text], NEW c \in SUBSET Defined, c # {}
  PROVE  Earliest(c) \in c
<1> DEFINE Spots == {SiteOf(n) : n \in c}
<1>1. \A n \in c : SiteOf(n) \in Nat
  BY SitesOfNames
<1>2. Spots \in SUBSET Nat /\ Spots # {}
  BY <1>1
<1>3. PICK first \in Spots : \A s \in Spots : first <= s
  BY <1>2, NatLeast
<1>4. \E n \in c : \A m \in c : SiteOf(n) <= SiteOf(m)
  BY <1>3
<1>5. QED BY <1>4 DEF Earliest

(* All of this depends on the text alone.                                  *)
LEMMA SameDocument ==
  ASSUME UNCHANGED texts
  PROVE  /\ Sites' = Sites /\ References' = References /\ Unreachable' = Unreachable
         /\ Inclusions' = Inclusions /\ Defined' = Defined /\ Roots' = Roots /\ Rings' = Rings
<1>1. Doc' = Doc
  BY DEF Doc
<1>2. Sites' = Sites
  BY <1>1 DEF Sites
<1>3. Defined' = Defined
  BY <1>1, <1>2 DEF Defined
<1>4. References' = References
  BY <1>1 DEF References
<1>5. Inclusions' = Inclusions
  BY <1>1 DEF Inclusions
<1>6. Unreachable' = Unreachable
  BY <1>1, <1>2, <1>3, <1>4 DEF Unreachable
<1>7. \A c : Earliest(c)' = Earliest(c)
  BY <1>1, <1>2 DEF Earliest, SiteOf
<1>8. \A n : SiteOf(n)' = SiteOf(n)
  BY <1>1, <1>2 DEF SiteOf
<1>9. Roots' = Roots
  BY <1>4, <1>6, <1>7, <1>8 DEF Roots
<1>10. Rings' = Rings
  BY <1>3, <1>5 DEF Rings, Circles
<1>11. QED BY <1>2, <1>3, <1>4, <1>5, <1>6, <1>9, <1>10

(* What a finished search has found.                                       *)
LEMMA FoundParts ==
  ASSUME SearchInv, TreeInv, Finished
  PROVE  result = Parts(edges, nodes)
<1>1. /\ \A c \in result : c # {} /\ \A n \in c : c = Mutual(edges, nodes, n)
      /\ UNION result = nodes
  BY InvPlaced DEF Placed
<1>2. ASSUME NEW c \in result PROVE c \in Parts(edges, nodes)
  <2>1. PICK n \in c : c = Mutual(edges, nodes, n)
    BY <1>1
  <2>2. QED BY <2>1, <1>1 DEF Parts
<1>3. ASSUME NEW c \in Parts(edges, nodes) PROVE c \in result
  <2>1. PICK n \in nodes : c = Mutual(edges, nodes, n)
    BY DEF Parts
  <2>2. PICK d \in result : n \in d
    BY <1>1
  <2>3. QED BY <2>1, <2>2, <1>1
<1>4. QED BY <1>2, <1>3

-----------------------------------------------------------------------------
LEMMA InitDoc == InitFrom([Files -> Text]) => DocInv
  BY DEF InitFrom, ReadingInit, DocInv, Early, Late, Quiet

(* Every step searches, begins a search, or leaves the search alone.       *)
LEMMA SearchGoesOn == DocInv /\ [Next]_vars => [SearchNext]_searchVars
<1> SUFFICES ASSUME DocInv, [Next]_vars PROVE [SearchNext]_searchVars
  OBVIOUS
<1>1. /\ References \in Graph /\ Inclusions \in Graph
      /\ Defined \in SUBSET Names /\ Unreachable \in SUBSET Names
  BY GraphsOfRules DEF DocInv
<1>2. CASE FindUnreferenced
  BY <1>1, <1>2 DEF FindUnreferenced, SearchNext
<1>3. CASE Finalize
  BY <1>1, <1>3 DEF Finalize, SearchNext
<1>4. CASE Search
  BY <1>4 DEF Search, SearchNext
<1>5. CASE UNCHANGED searchVars
  BY <1>5
<1>6. ReportUnreferenced \/ ReportCycles \/ CheckUses \/ Deduplicate => UNCHANGED searchVars
  BY DEF ReportUnreferenced, ReportCycles, CheckUses, Deduplicate
<1>7. UNCHANGED vars => UNCHANGED searchVars
  BY DEF vars
<1>8. QED BY <1>2, <1>3, <1>4, <1>5, <1>6, <1>7 DEF Next

(* While the files are read nothing has the two codes.                     *)
LEMMA ScanQuiet == ASSUME NEW f PROVE Quiet(ScanFindings(f))
  BY DEF Quiet, ScanFindings, Finding

LEMMA ReadingDoc == ASSUME DocInv, ReadingNext PROVE DocInv'
<1> USE DEF DocInv, Early, Late
<1>1. UNCHANGED texts
  BY DEF ReadingNext, Scan, MarkComment, MarkUse, MarkRule, MarkEnd, ReadNext, Advance
<1>2. stage \in {"scan", "mark", "next"} /\ stage' \in Early
  BY DEF ReadingNext, Scan, MarkComment, MarkUse, MarkRule, MarkEnd, ReadNext, Advance
<1>3. Quiet(found) /\ Quiet(warnings)
  BY <1>2
<1>4. Quiet(found')
  <2>1. \A i : Quiet({Useless(i)})
    BY DEF Quiet, Useless, Finding
  <2>2. CASE Scan
    BY <2>2, ScanQuiet DEF Scan
  <2>3. CASE MarkComment
    BY <2>1, <2>3, <1>3 DEF MarkComment, Quiet
  <2>4. CASE MarkUse
    BY <2>1, <2>4, <1>3 DEF MarkUse, Quiet
  <2>5. CASE MarkEnd
    BY <2>1, <2>5, <1>3 DEF MarkEnd, Quiet
  <2>6. CASE MarkRule \/ ReadNext
    BY <2>6, <1>3 DEF MarkRule, ReadNext
  <2>7. QED BY <2>2, <2>3, <2>4, <2>5, <2>6 DEF ReadingNext
<1>5. warnings' = warnings \/ warnings' = found'
  BY DEF ReadingNext, Scan, MarkComment, MarkUse, MarkRule, MarkEnd, ReadNext, Advance
<1>6. Quiet(warnings')
  BY <1>3, <1>4, <1>5
<1>7. texts' \in [Files -> Text]
  BY <1>1
<1>8. QED BY <1>2, <1>4, <1>6, <1>7

LEMMA FindDoc == ASSUME DocInv, FindUnreferenced PROVE DocInv'
<1>1. UNCHANGED <<texts, warnings, found>> /\ stage = "unreferenced"
  BY DEF FindUnreferenced
<1>2. Quiet(warnings) /\ texts' \in [Files -> Text]
  BY <1>1 DEF DocInv, Early
<1>3. Codes("E020")' = {} /\ Codes("E030")' = {}
  BY <1>1, <1>2 DEF Codes, Quiet
<1>4. Sites' = Sites /\ References' = References /\ Unreachable' = Unreachable
  BY <1>1, SameDocument
<1>5. CASE Cardinality(Sites) <= 1
  <2>1. stage' = "finalize" /\ ~(Cardinality(Sites) > 1)
    <3>1. Cardinality(Sites) \in Nat
      BY SitesFinite DEF DocInv
    <3>2. QED BY <3>1, <1>5 DEF FindUnreferenced
  <2>2. QED BY <2>1, <1>2, <1>3, <1>4 DEF DocInv, Early, Late
<1>6. CASE ~(Cardinality(Sites) <= 1)
  <2>1. stage' = "components" /\ edges' = References /\ nodes' = Unreachable
    BY <1>6 DEF FindUnreferenced, Begin, Fresh
  <2>2. QED BY <2>1, <1>1, <1>2, <1>4 DEF DocInv, Early, Late
<1>7. QED BY <1>5, <1>6

LEMMA SearchDoc == ASSUME DocInv, Search PROVE DocInv'
<1>1. UNCHANGED <<texts, stage, found, warnings>>
  BY DEF Search, docVars
<1>2. UNCHANGED <<edges, nodes>>
  BY DEF Search, SearchStep, Start, Descend, LookBack, Close, Leave
<1>3. Codes("E020")' = Codes("E020") /\ Codes("E030")' = Codes("E030")
  BY <1>1 DEF Codes
<1>4. QED BY <1>1, <1>2, <1>3, SameDocument DEF DocInv

(* One name is reported for every foremost component.                      *)
LEMMA UnreferencedDoc == ASSUME DocInv, SearchInv, TreeInv, ReportUnreferenced PROVE DocInv'
<1>1. /\ stage = "components" /\ stage' = "finalize" /\ Finished /\ UNCHANGED <<texts, found>>
      /\ warnings' = warnings \cup {Finding("E020", Main, SiteOf(n), {n}) :
                                      n \in {Earliest(c) : c \in {d \in result : ~Entered(d)}}}
  BY DEF ReportUnreferenced
<1>2. edges = References /\ nodes = Unreachable /\ Quiet(warnings) /\ texts' \in [Files -> Text]
  BY <1>1 DEF DocInv, Early
<1>3. result = Parts(References, Unreachable)
  BY <1>1, <1>2, FoundParts
<1>4. {d \in result : ~Entered(d)} = Foremost(References, Unreachable)
  BY <1>2, <1>3 DEF Entered, Foremost
<1>5. warnings' = warnings \cup Roots
  BY <1>1, <1>4 DEF Roots
<1>6. \A d \in Roots : d.code = "E020"
  BY DEF Roots, Finding
<1>7. Codes("E020")' = Roots /\ Codes("E030")' = {}
  BY <1>2, <1>5, <1>6 DEF Codes, Quiet
<1>8. Roots' = Roots
  BY <1>1, SameDocument
<1>9. QED BY <1>1, <1>2, <1>7, <1>8 DEF DocInv, Early, Late

LEMMA FinalizeDoc == ASSUME DocInv, Finalize PROVE DocInv'
<1> DEFINE New == UNION {SocketFindings(f) : f \in InTree[Main]}
<1>1. /\ stage = "finalize" /\ stage' = "cycles" /\ UNCHANGED texts
      /\ warnings' = warnings \cup New
      /\ edges' = Inclusions /\ nodes' = Defined
  BY DEF Finalize, Begin, Fresh
<1>2. \A d \in New : d.code = "E017"
  BY DEF SocketFindings, Finding
<1> HIDE DEF New
<1>3. Codes("E020")' = Codes("E020") /\ Codes("E030")' = Codes("E030")
  BY <1>1, <1>2 DEF Codes
<1>4. QED BY <1>1, <1>3, SameDocument DEF DocInv, Early, Late

LEMMA CyclesDoc == ASSUME DocInv, SearchInv, TreeInv, ReportCycles PROVE DocInv'
<1>1. /\ stage = "cycles" /\ stage' = "uses" /\ Finished /\ UNCHANGED texts
      /\ warnings' = warnings \cup {Finding("E030", "none", 0, c) : c \in {d \in result : Cardinality(d) > 1}}
  BY DEF ReportCycles
<1>2. edges = Inclusions /\ nodes = Defined
  BY <1>1 DEF DocInv
<1>3. result = Circles
  BY <1>1, <1>2, FoundParts DEF Parts, Circles
<1>4. warnings' = warnings \cup Rings
  BY <1>1, <1>3 DEF Rings
<1>5. \A d \in Rings : d.code = "E030"
  BY DEF Rings, Finding
<1>6. Codes("E020")' = Codes("E020") /\ Codes("E030")' = Codes("E030") \cup Rings
  BY <1>4, <1>5 DEF Codes
<1>7. Codes("E030") = {}
  BY <1>1 DEF DocInv
<1>8. QED BY <1>1, <1>6, <1>7, SameDocument DEF DocInv, Early, Late

LEMMA UsesDoc == ASSUME DocInv, CheckUses PROVE DocInv'
<1> DEFINE New == UseFindings(TreeOf[Main])
                  \cup {Finding("W007", Main, 0, {<<f>>}) : f \in {g \in UsedFiles : ~surface[g].library}}
<1>1. stage = "uses" /\ stage' = "deduplicate" /\ UNCHANGED texts /\ warnings' = warnings \cup New
  BY DEF CheckUses
<1>2. \A d \in New : d.code \in {"W003", "W007"}
  BY DEF UseFindings, Finding
<1> HIDE DEF New
<1>3. Codes("E020")' = Codes("E020")
  BY <1>1, <1>2 DEF Codes
<1>4. QED BY <1>1, <1>3, SameDocument DEF DocInv, Early, Late

(* Names have different sites, so none that is reported is a duplicate.    *)
LEMMA DeduplicateDoc == ASSUME DocInv, Deduplicate PROVE DocInv'
<1>1. stage = "deduplicate" /\ stage' = "done" /\ UNCHANGED texts
  BY DEF Deduplicate
<1>2. PICK kept \in SUBSET warnings : /\ \A d \in warnings : \E k \in kept : Spot(k) = Spot(d)
                                      /\ warnings' = kept
  BY DEF Deduplicate
<1>3. texts \in [Files -> Text]
  BY DEF DocInv
<1>4. ASSUME Cardinality(Sites) > 1 PROVE Codes("E020")' = Roots
  <2>1. Codes("E020") = Roots
    BY <1>1, <1>4 DEF DocInv, Late
  <2>2. Codes("E020")' \subseteq Roots
    BY <2>1, <1>2 DEF Codes
  <2>3. ASSUME NEW c \in Foremost(References, Unreachable) PROVE Earliest(c) \in Defined
    <3>1. c \in Parts(References, Unreachable)
      BY DEF Foremost
    <3>2. c \subseteq Unreachable /\ c # {}
      BY <3>1, PartsAreMutual
    <3>3. QED BY <3>2, <1>3, EarliestIn, GraphsOfRules
  <2>4. ASSUME NEW d \in Roots PROVE d \in Codes("E020")'
    <3>1. PICK n \in Defined : d = Finding("E020", Main, SiteOf(n), {n})
      BY <2>3 DEF Roots
    <3>2. d \in warnings /\ d.code = "E020" /\ d.at = SiteOf(n)
      BY <2>1, <3>1 DEF Codes, Finding
    <3>3. PICK k \in kept : k.code = "E020" /\ k.at = d.at
      BY <3>2, <1>2 DEF Spot
    <3>4. k \in Roots
      BY <3>3, <2>1 DEF Codes
    <3>5. PICK m \in Defined : k = Finding("E020", Main, SiteOf(m), {m})
      BY <3>4, <2>3 DEF Roots
    <3>6. SiteOf(m) = SiteOf(n)
      BY <3>2, <3>3, <3>5 DEF Finding
    <3>7. m = n
      BY <3>6, <1>3, SitesOfNames
    <3>8. d \in kept
      BY <3>1, <3>5, <3>7
    <3>9. QED BY <3>2, <3>8, <1>2 DEF Codes
  <2>5. QED BY <2>2, <2>4
<1>5. QED BY <1>1, <1>4, SameDocument DEF DocInv, Early, Late

LEMMA StepDoc == DocInv /\ SearchInv /\ TreeInv /\ [Next]_vars => DocInv'
<1> SUFFICES ASSUME DocInv, SearchInv, TreeInv, [Next]_vars PROVE DocInv'
  OBVIOUS
<1>1. CASE ReadingNext
  BY <1>1, ReadingDoc
<1>2. CASE FindUnreferenced
  BY <1>2, FindDoc
<1>3. CASE Search
  BY <1>3, SearchDoc
<1>4. CASE ReportUnreferenced
  BY <1>4, UnreferencedDoc
<1>5. CASE Finalize
  BY <1>5, FinalizeDoc
<1>6. CASE ReportCycles
  BY <1>6, CyclesDoc
<1>7. CASE CheckUses
  BY <1>7, UsesDoc
<1>8. CASE Deduplicate
  BY <1>8, DeduplicateDoc
<1>9. CASE UNCHANGED vars
  <2>1. UNCHANGED <<texts, stage, found, warnings, edges, nodes>>
    BY <1>9 DEF vars, docVars, searchVars
  <2>2. Codes("E020")' = Codes("E020") /\ Codes("E030")' = Codes("E030")
    BY <2>1 DEF Codes
  <2>3. QED BY <2>1, <2>2, SameDocument DEF DocInv
<1>10. QED BY <1>1, <1>2, <1>3, <1>4, <1>5, <1>6, <1>7, <1>8, <1>9 DEF Next, ReadingNext

AllInv == DocInv /\ SearchInv /\ TreeInv

LEMMA AllInvariant == DocumentSpec => []AllInv
<1>1. InitFrom([Files -> Text]) => AllInv
  BY InitDoc, InitInv, InitTree DEF InitFrom, AllInv
<1>2. AllInv /\ [Next]_vars => AllInv'
  BY StepDoc, SearchGoesOn, StepInv, StepTree DEF AllInv
<1>3. QED BY <1>1, <1>2, PTL DEF DocumentSpec

(* The earliest names of the foremost components are enough and not too    *)
(* many.                                                                   *)
LEMMA RootsCover ==
  ASSUME texts \in [Files -> Text], Codes("E020") = Roots
  PROVE  /\ UNION Named \subseteq Unreachable
         /\ Below(UNION Named) = Unreachable
         /\ \A c, d \in Named : c # d => Below(c) \cap d = {}
<1> DEFINE F == Foremost(References, Unreachable)
<1>1. Named = {{Earliest(c)} : c \in F}
  <2>1. \A d \in Roots : d.about \in {{Earliest(c)} : c \in F}
    BY DEF Roots, Finding
  <2>2. ASSUME NEW c \in F PROVE \E d \in Roots : d.about = {Earliest(c)}
    <3>1. Finding("E020", Main, SiteOf(Earliest(c)), {Earliest(c)}) \in Roots
      BY DEF Roots
    <3>2. Finding("E020", Main, SiteOf(Earliest(c)), {Earliest(c)}).about = {Earliest(c)}
      BY DEF Finding
    <3>3. QED BY <3>1, <3>2
  <2>3. Named = {d.about : d \in Roots}
    BY DEF Named
  <2>4. Named \subseteq {{Earliest(c)} : c \in F}
    BY <2>1, <2>3
  <2>5. ASSUME NEW c \in F PROVE {Earliest(c)} \in Named
    BY <2>2, <2>3
  <2>6. QED BY <2>4, <2>5
<1>2. Unreachable \subseteq Defined /\ IsFiniteSet(Unreachable)
  BY GraphsOfRules, SitesOfNames, FS_Subset
<1>3. ASSUME NEW c \in F PROVE Earliest(c) \in c /\ c \subseteq Unreachable /\ c \in Parts(References, Unreachable)
  <2>1. c \in Parts(References, Unreachable)
    BY DEF Foremost
  <2>2. c \subseteq Unreachable /\ c # {}
    BY <2>1, PartsAreMutual
  <2>3. QED BY <2>1, <2>2, <1>2, EarliestIn
<1> HIDE DEF F
<1>4. UNION Named \subseteq Unreachable
  BY <1>1, <1>3
<1>5. ASSUME NEW n \in Unreachable PROVE n \in Below(UNION Named)
  <2>1. PICK c \in F : \A a \in c : Leads(References, Unreachable, a, n)
    BY <1>2, ForemostCover DEF F
  <2>2. Leads(References, Unreachable, Earliest(c), n) /\ Earliest(c) \in UNION Named
    BY <2>1, <1>1, <1>3
  <2>3. QED BY <2>2 DEF Below
<1>6. ASSUME NEW c \in Named, NEW d \in Named, c # d, NEW m \in Below(c) \cap d PROVE FALSE
  <2>1. PICK a \in F : c = {Earliest(a)}
    BY <1>1
  <2>2. PICK b \in F : d = {Earliest(b)}
    BY <1>1
  <2>3. m = Earliest(b) /\ Leads(References, Unreachable, Earliest(a), m)
    BY <2>1, <2>2 DEF Below
  <2>4. Earliest(a) \in Unreachable /\ m \in b
    BY <2>3, <1>3
  <2>5. Earliest(a) \in b
    BY <2>3, <2>4, ForemostAlone DEF F
  <2>6. a = b
    BY <2>5, <1>3, PartsAreMutual
  <2>7. QED BY <2>1, <2>2, <2>6, <1>6
<1>7. Below(UNION Named) = Unreachable
  BY <1>5 DEF Below
<1>8. QED BY <1>4, <1>6, <1>7

(* Of the definitions that the first rule does not lead to, the compiler   *)
(* names enough to cover them all, and none that is below another.         *)
THEOREM UnreferencedAreCovered == DocumentSpec => []UnreferencedCovered
<1>1. AllInv => UnreferencedCovered
  <2> SUFFICES ASSUME AllInv, stage = "done", Cardinality(Sites) > 1
               PROVE  /\ UNION Named \subseteq Unreachable
                      /\ Below(UNION Named) = Unreachable
                      /\ \A c, d \in Named : c # d => Below(c) \cap d = {}
    BY DEF UnreferencedCovered
  <2>1. texts \in [Files -> Text] /\ Codes("E020") = Roots
    BY DEF AllInv, DocInv, Late
  <2>2. QED BY <2>1, RootsCover
<1>2. QED BY <1>1, AllInvariant, PTL

(* The sets of rules reported as including each other are all of them, and *)
(* each is reported whole.                                                 *)
THEOREM CyclesAreFound == DocumentSpec => []CyclesFound
<1>1. AllInv => CyclesFound
  <2> SUFFICES ASSUME AllInv, stage = "uses"
               PROVE  {d.about : d \in Codes("E030")} = {c \in Circles : Cardinality(c) > 1}
    BY DEF CyclesFound
  <2>1. Codes("E030") = Rings
    BY DEF AllInv, DocInv
  <2>2. \A d \in Rings : d.about \in {c \in Circles : Cardinality(c) > 1}
    BY DEF Rings, Finding
  <2>3. ASSUME NEW c \in Circles, Cardinality(c) > 1 PROVE \E d \in Rings : d.about = c
    <3>1. Finding("E030", "none", 0, c) \in Rings /\ Finding("E030", "none", 0, c).about = c
      BY <2>3 DEF Rings, Finding
    <3>2. QED BY <3>1
  <2>4. QED BY <2>1, <2>2, <2>3
<1>2. QED BY <1>1, AllInvariant, PTL

-----------------------------------------------------------------------------
(* The tree of a document.  Files that are not inside themselves have a    *)
(* depth, and by induction on it every one has a tree, which is a          *)
(* sequence.                                                               *)

Listed(s) == s \in Seq(ToSet(s))

(* A sequence is a list of its own members, and is one of any set that     *)
(* has them.                                                               *)
LEMMA ListedSeq == ASSUME NEW U, NEW s \in Seq(U) PROVE Listed(s) /\ ToSet(s) \subseteq U
  BY DEF Listed, ToSet

(* The converse.                                                           *)
LEMMA ListedWithin == ASSUME NEW U, NEW s, Listed(s), ToSet(s) \subseteq U PROVE s \in Seq(U)
  BY DEF Listed, ToSet

(* The lists of a list, one behind the other, are a list.                  *)
LEMMA FlatIsListed ==
  ASSUME NEW U, NEW lists \in Seq(Seq(U))
  PROVE  FlattenSeq(lists) \in Seq(U)
<1>1. PICK n \in Nat : n = Len(lists) /\ DOMAIN lists = 1..n
  OBVIOUS
<1>2. \A i \in 1..n : lists[i] \in Seq(U)
  BY <1>1
<1> DEFINE flat(k, g) == g = [i \in 1..k |-> IF i = 1 THEN lists[i] ELSE g[i - 1] \o lists[i]]
           S == {k \in Nat : k <= n => \E g \in [1..k -> Seq(U)] : flat(k, g)}
<1> HIDE DEF flat
<1>3. 0 \in S
  <2>1. [i \in 1..0 |-> <<>>] \in [1..0 -> Seq(U)] /\ flat(0, [i \in 1..0 |-> <<>>])
    BY DEF flat
  <2>2. QED BY <2>1
<1>4. ASSUME NEW k \in Nat, k \in S PROVE k + 1 \in S
  <2>1. CASE ~(k + 1 <= n)
    BY <2>1
  <2>2. CASE k + 1 <= n
    <3>1. \E g \in [1..k -> Seq(U)] : flat(k, g)
      BY <1>4, <2>2
    <3>2. PICK g \in [1..k -> Seq(U)] : flat(k, g)
      BY <3>1
    <3> DEFINE h == [i \in 1..(k + 1) |-> IF i = 1 THEN lists[i] ELSE g[i - 1] \o lists[i]]
    <3>3. ASSUME NEW i \in 1..(k + 1), i # 1 PROVE i - 1 \in 1..k /\ i - 1 \in 1..(k + 1)
      BY <3>3
    <3>4. ASSUME NEW i \in 1..k PROVE h[i] = g[i]
      <4>1. g[i] = IF i = 1 THEN lists[i] ELSE g[i - 1] \o lists[i]
        BY <3>2 DEF flat
      <4>2. i \in 1..(k + 1)
        OBVIOUS
      <4>3. QED BY <4>1, <4>2
    <3>5. ASSUME NEW i \in 1..(k + 1) PROVE h[i] \in Seq(U)
      <4>1. lists[i] \in Seq(U)
        <5>1. i \in 1..n
          BY <2>2
        <5>2. QED BY <5>1, <1>2
      <4>2. CASE i = 1
        BY <4>1, <4>2
      <4>3. CASE i # 1
        <5>1. g[i - 1] \in Seq(U)
          BY <3>3, <4>3
        <5>2. g[i - 1] \o lists[i] \in Seq(U)
          BY <4>1, <5>1
        <5>3. QED BY <5>2, <4>3
      <4>4. QED BY <4>2, <4>3
    <3>6. h \in [1..(k + 1) -> Seq(U)]
      BY <3>5
    <3>7. flat(k + 1, h)
      BY <3>3, <3>4 DEF flat
    <3> HIDE DEF h
    <3>8. QED BY <3>6, <3>7
  <2>3. QED BY <2>1, <2>2
<1> HIDE DEF S
<1>5. n \in S
  BY <1>3, <1>4, SetInduction
<1>6. \E g : flat(n, g)
  BY <1>5 DEF S
<1> DEFINE flatten == CHOOSE g : flat(n, g)
<1>7. flat(n, flatten)
  BY <1>6, Zenon
<1> HIDE DEF flatten
<1>8. ASSUME NEW i \in 1..n PROVE flatten[i] = IF i = 1 THEN lists[i] ELSE flatten[i - 1] \o lists[i]
  BY <1>7 DEF flat
<1> DEFINE T == {k \in Nat : \A i \in 1..n : i <= k => flatten[i] \in Seq(U)}
<1>9. 0 \in T
  OBVIOUS
<1>10. ASSUME NEW k \in Nat, k \in T PROVE k + 1 \in T
  <2> SUFFICES ASSUME NEW i \in 1..n, i <= k + 1 PROVE flatten[i] \in Seq(U)
    OBVIOUS
  <2>1. lists[i] \in Seq(U)
    BY <1>2
  <2>2. CASE i = 1
    BY <1>8, <2>1, <2>2
  <2>3. CASE i # 1
    <3>1. i - 1 \in 1..n /\ i - 1 <= k
      BY <2>3
    <3>2. flatten[i - 1] \in Seq(U)
      BY <1>10, <3>1
    <3>3. flatten[i - 1] \o lists[i] \in Seq(U)
      BY <2>1, <3>2
    <3>4. QED BY <1>8, <2>3, <3>3
  <2>4. QED BY <2>2, <2>3
<1> HIDE DEF T
<1>11. n \in T
  BY <1>9, <1>10, SetInduction
<1>12. CASE n = 0
  <2>1. lists = <<>> /\ FlattenSeq(lists) = lists
    BY <1>1, <1>12 DEF FlattenSeq
  <2>2. <<>> \in Seq(U)
    OBVIOUS
  <2>3. QED BY <2>1, <2>2
<1>13. CASE n # 0
  <2>1. FlattenSeq(lists) = flatten[n]
    BY <1>1, <1>13 DEF FlattenSeq, flatten, flat
  <2>2. n \in 1..n /\ n <= n
    BY <1>13
  <2>3. QED BY <2>1, <2>2, <1>11 DEF T
<1>14. QED BY <1>12, <1>13

(* What a line puts into the tree, if g has the trees of the files below.  *)
PartIn(g, f, line) ==
  IF line.kind = "rule" THEN <<[name |-> line.name, file |-> f]>>
  ELSE IF line.kind = "use"
  THEN LET below == g[line.file]
       IN [k \in DOMAIN below |-> [below[k] EXCEPT !.name = WithAlias(line.alias, @)]]
  ELSE <<>>
TreeIn(g, f) == FlattenSeq([i \in DOMAIN texts[f] |-> PartIn(g, f, texts[f][i])])

(* A line puts a list into the tree, if the file it uses has a tree.       *)
LEMMA PartIsListed ==
  ASSUME NEW g, NEW f, NEW line, line.kind = "use" => Listed(g[line.file])
  PROVE  Listed(PartIn(g, f, line))
<1>1. CASE line.kind = "rule"
  <2> DEFINE node == [name |-> line.name, file |-> f]
  <2>1. PartIn(g, f, line) = <<node>>
    BY <1>1 DEF PartIn
  <2>2. <<node>> \in Seq({node})
    OBVIOUS
  <2>3. QED BY <2>1, <2>2, ListedSeq
<1>2. CASE line.kind = "use"
  <2> DEFINE below == g[line.file]
             Under(k) == [below[k] EXCEPT !.name = WithAlias(line.alias, @)]
             U == {Under(k) : k \in DOMAIN below}
  <2>1. PartIn(g, f, line) = [k \in DOMAIN below |-> Under(k)]
    BY <1>2 DEF PartIn
  <2>2. below \in Seq(ToSet(below))
    BY <1>2 DEF Listed
  <2> HIDE DEF below, Under
  <2>3. PICK n \in Nat : DOMAIN below = 1..n
    BY <2>2
  <2>4. [k \in DOMAIN below |-> Under(k)] \in Seq(U)
    BY <2>3
  <2> HIDE DEF U
  <2>5. QED BY <2>1, <2>4, ListedSeq
<1>3. CASE line.kind \notin {"rule", "use"}
  <2>1. PartIn(g, f, line) = <<>>
    BY <1>3 DEF PartIn
  <2>2. <<>> \in Seq({})
    OBVIOUS
  <2>3. QED BY <2>1, <2>2, ListedSeq
<1>4. QED BY <1>1, <1>2, <1>3

(* So has a file, if those that it uses have.                              *)
LEMMA TreeIsListed ==
  ASSUME texts \in [Files -> Text], NEW g, NEW f \in Files,
         \A i \in Uses(texts[f]) : Listed(g[texts[f][i].file])
  PROVE  Listed(TreeIn(g, f))
<1> DEFINE t == texts[f]
           Part(i) == PartIn(g, f, t[i])
           U == UNION {ToSet(Part(i)) : i \in DOMAIN t}
<1>1. PICK n \in Nat : DOMAIN t = 1..n
  BY DEF Text
<1>2. ASSUME NEW i \in DOMAIN t PROVE Part(i) \in Seq(U)
  <2>1. t[i].kind = "use" => Listed(g[t[i].file])
    BY DEF Uses
  <2>2. Listed(Part(i))
    BY <2>1, PartIsListed
  <2>3. ToSet(Part(i)) \subseteq U
    OBVIOUS
  <2> HIDE DEF Part, U
  <2>4. QED BY <2>2, <2>3, ListedWithin
<1>3. TreeIn(g, f) = FlattenSeq([i \in DOMAIN t |-> Part(i)])
  BY DEF TreeIn
<1> HIDE DEF t, Part, U
<1>4. [i \in DOMAIN t |-> Part(i)] \in Seq(Seq(U))
  BY <1>1, <1>2
<1>5. FlattenSeq([i \in DOMAIN t |-> Part(i)]) \in Seq(U)
  BY <1>4, FlatIsListed
<1>6. QED BY <1>3, <1>5, ListedSeq

(* The tree of a file depends on those of the files it uses.               *)
LEMMA TreeBelow ==
  ASSUME texts \in [Files -> Text], NEW g, NEW h, NEW f \in Files,
         \A i \in Uses(texts[f]) : g[texts[f][i].file] = h[texts[f][i].file]
  PROVE  TreeIn(g, f) = TreeIn(h, f)
<1>1. ASSUME NEW i \in DOMAIN texts[f] PROVE PartIn(g, f, texts[f][i]) = PartIn(h, f, texts[f][i])
  <2>1. texts[f][i].kind = "use" => g[texts[f][i].file] = h[texts[f][i].file]
    BY DEF Uses
  <2>2. QED BY <2>1 DEF PartIn
<1>2. QED BY <1>1 DEF TreeIn

(* What a line uses is a file.                                             *)
LEMMA UsesAreFiles ==
  ASSUME texts \in [Files -> Text], NEW f \in Files, NEW i \in Uses(texts[f])
  PROVE  texts[f][i].file \in Files
  BY TextLines

(* The recursion of TreeOf has a solution, and all its values are lists.   *)
LEMMA TreesExist ==
  ASSUME texts \in Trees
  PROVE  \A f \in Files : Listed(TreeOf[f])
<1>0. PICK most \in Nat : \E depth \in [Files -> 0..most] : Descends(texts, depth)
  BY DEF Trees
<1>1. PICK depth \in [Files -> 0..most] : Descends(texts, depth)
  BY <1>0
<1>2. texts \in [Files -> Text]
  BY DEF Trees
<1>3. \A f \in Files : \A i \in Uses(texts[f]) :
        texts[f][i].file \in Files /\ depth[texts[f][i].file] < depth[f]
  BY <1>1, <1>2, UsesAreFiles DEF Descends
<1> DEFINE Upto(n, g) == \A f \in Files : depth[f] < n => g[f] = TreeIn(g, f)
           S == {n \in Nat : \E g : g = [f \in Files |-> g[f]] /\ Upto(n, g)}
<1>4. 0 \in S
  <2>1. ASSUME NEW f \in Files PROVE ~(depth[f] < 0)
    OBVIOUS
  <2>2. Upto(0, [f \in Files |-> <<>>])
    BY <2>1
  <2> DEFINE g == [f \in Files |-> <<>>]
  <2>3. g = [f \in Files |-> g[f]]
    OBVIOUS
  <2> HIDE DEF Upto, g
  <2>4. Upto(0, g)
    BY <2>2 DEF g
  <2>5. QED BY <2>3, <2>4
<1>5. ASSUME NEW n \in Nat, n \in S PROVE n + 1 \in S
  <2>1. PICK g : g = [f \in Files |-> g[f]] /\ Upto(n, g)
    BY <1>5
  <2> DEFINE h == [f \in Files |-> TreeIn(g, f)]
  <2>2. ASSUME NEW f \in Files, depth[f] < n + 1 PROVE h[f] = TreeIn(h, f)
    <3>1. ASSUME NEW i \in Uses(texts[f])
          PROVE  g[texts[f][i].file] = h[texts[f][i].file]
      <4> DEFINE e == texts[f][i].file
      <4>1. e \in Files /\ depth[e] < depth[f]
        BY <1>3
      <4> HIDE DEF e
      <4>2. depth[e] < n
        BY <4>1, <2>2
      <4>3. g[e] = TreeIn(g, e)
        BY <4>1, <4>2, <2>1
      <4>4. h[e] = TreeIn(g, e)
        BY <4>1
      <4>5. QED BY <4>3, <4>4 DEF e
    <3>2. h[f] = TreeIn(g, f)
      OBVIOUS
    <3> HIDE DEF h
    <3>3. TreeIn(g, f) = TreeIn(h, f)
      BY <3>1, <1>2, TreeBelow
    <3>4. QED BY <3>2, <3>3
  <2>3. h = [f \in Files |-> h[f]]
    OBVIOUS
  <2> HIDE DEF h
  <2>4. Upto(n + 1, h)
    BY <2>2
  <2> HIDE DEF Upto
  <2>5. QED BY <2>3, <2>4
<1> HIDE DEF S
<1>6. most + 1 \in S
  BY <1>4, <1>5, SetInduction
<1>7. PICK g : g = [f \in Files |-> g[f]] /\ Upto(most + 1, g)
  BY <1>6 DEF S
<1>8. \A f \in Files : depth[f] < most + 1
  OBVIOUS
<1>9. g = [f \in Files |-> TreeIn(g, f)]
  BY <1>7, <1>8
<1> DEFINE Solves(x) == x = [f \in Files |-> TreeIn(x, f)]
<1>10. TreeOf = CHOOSE x : Solves(x)
  BY DEF TreeOf, TreeIn, PartIn
<1>11. Solves(TreeOf)
  <2> HIDE DEF Solves
  <2>1. Solves(g)
    BY <1>9 DEF Solves
  <2>2. QED BY <2>1, <1>10
<1>12. \A f \in Files : TreeOf[f] = TreeIn(TreeOf, f)
  <2> DEFINE x == TreeOf
  <2> HIDE DEF x
  <2>1. x = [f \in Files |-> TreeIn(x, f)]
    BY <1>11 DEF x
  <2>2. \A f \in Files : x[f] = TreeIn(x, f)
    BY <2>1, Zenon
  <2>3. QED BY <2>2 DEF x
<1> DEFINE T == {n \in Nat : \A f \in Files : depth[f] < n => Listed(TreeOf[f])}
<1>13. 0 \in T
  <2>1. ASSUME NEW f \in Files PROVE ~(depth[f] < 0)
    OBVIOUS
  <2>2. QED BY <2>1
<1>14. ASSUME NEW n \in Nat, n \in T PROVE n + 1 \in T
  <2> SUFFICES ASSUME NEW f \in Files, depth[f] < n + 1 PROVE Listed(TreeOf[f])
    OBVIOUS
  <2>1. ASSUME NEW i \in Uses(texts[f]) PROVE Listed(TreeOf[texts[f][i].file])
    <3> DEFINE e == texts[f][i].file
    <3>1. e \in Files /\ depth[e] < depth[f]
      BY <1>3
    <3> HIDE DEF e
    <3>2. depth[e] < n
      BY <3>1
    <3>3. QED BY <3>1, <3>2, <1>14 DEF e
  <2>2. Listed(TreeIn(TreeOf, f))
    BY <2>1, <1>2, TreeIsListed
  <2>3. QED BY <2>2, <1>12
<1> HIDE DEF T
<1>15. most + 1 \in T
  BY <1>13, <1>14, SetInduction
<1>16. QED BY <1>15, <1>8 DEF T

(* The positions in the tree are numbers, so one of them is the first.     *)
LEMMA FirstOfTree ==
  ASSUME texts \in Trees, NEW ks \in SUBSET DOMAIN Tree, ks # {}
  PROVE  Min(ks) \in ks
<1>1. Listed(Tree)
  BY TreesExist, MainIsAFile DEF Tree
<1>2. PICK n \in Nat : DOMAIN Tree = 1..n
  BY <1>1 DEF Listed
<1>3. ks \in SUBSET Nat
  BY <1>2
<1>4. \E k \in ks : \A m \in ks : k <= m
  BY <1>3, NatLeast
<1>5. QED BY <1>4 DEF Min

(* No file uses itself.                                                    *)
LEMMA NotItsOwnUser ==
  ASSUME texts \in Trees
  PROVE  UsedFiles \subseteq Files /\ Main \notin UsedFiles
<1>1. PICK most \in Nat : \E depth \in [Files -> 0..most] : Descends(texts, depth)
  BY DEF Trees
<1>2. PICK depth \in [Files -> 0..most] : Descends(texts, depth)
  BY <1>1
<1>3. ASSUME NEW f \in UsedFiles PROVE f \in Files /\ f # Main
  <2>1. PICK i \in Uses(texts[Main]) : f = texts[Main][i].file
    BY DEF UsedFiles, Doc
  <2>2. f \in Files
    BY <2>1, UsesAreFiles, MainIsAFile DEF Trees
  <2>3. depth[f] < depth[Main]
    BY <1>2, <2>1, MainIsAFile DEF Descends
  <2>4. depth[Main] \in 0..most
    BY MainIsAFile
  <2>5. QED BY <2>2, <2>3, <2>4
<1>4. QED BY <1>3

-----------------------------------------------------------------------------
(* The surfaces.  A file that has been read declares and exports what its  *)
(* text says, and keeps that: only the file that is read changes.          *)

ReadFiles == {Main} \cup {Doc[i].file : i \in {j \in Uses(Doc) : j <= used}}
AsWritten(f) == surface[f].extern = Declared(texts[f]) /\ surface[f].exported = NamesOf(texts[f], Bound(texts[f]))

ReadInv ==
  /\ texts \in [Files -> Text]
  /\ used \in Nat
  /\ stage \in Stages => MarkInv
  /\ stage = "mark" => surface[file].extern = Declared(texts[file])
  /\ stage \in {"scan", "mark"} => \A f \in ReadFiles \ {file} : AsWritten(f)
  /\ stage = "next" => \A f \in ReadFiles : AsWritten(f)
  /\ stage \notin {"scan", "mark", "next"} => \A f \in {Main} \cup UsedFiles : AsWritten(f)

(* What has been read, and what is used, are files.                        *)
LEMMA ReadAreFiles ==
  ASSUME texts \in [Files -> Text]
  PROVE  ReadFiles \subseteq Files /\ UsedFiles \subseteq Files
<1>1. texts[Main] \in Text
  BY MainIsAFile
<1>2. \A i \in Uses(Doc) : Doc[i].file \in Files
  BY <1>1, TextLines DEF Doc
<1>3. QED BY <1>2, MainIsAFile DEF ReadFiles, UsedFiles

(* At first nothing has been read but the file that is compiled.           *)
LEMMA InitRead == InitFrom(Trees) => ReadInv
<1> SUFFICES ASSUME InitFrom(Trees) PROVE ReadInv
  OBVIOUS
<1>1. ReadingInit([Files -> Text]) /\ texts \in [Files -> Text]
  BY DEF InitFrom, ReadingInit, Trees
<1>2. MarkInv
  BY <1>1, InitMarkInv
<1>3. stage = "scan" /\ used = 0 /\ file = Main
  BY <1>1 DEF ReadingInit
<1>4. ReadFiles = {Main}
  <2>1. \A i \in Uses(Doc) : ~(i <= used)
    <3>1. Doc \in Text
      BY <1>1, MainIsAFile DEF Doc
    <3>2. \A i \in Uses(Doc) : i \in 1..Len(Doc) /\ Len(Doc) \in Nat
      BY <3>1, TextLines
    <3>3. QED BY <3>2, <1>3
  <2>2. QED BY <2>1 DEF ReadFiles
<1>5. QED BY <1>1, <1>2, <1>3, <1>4 DEF ReadInv

(* The steps of the reading.                                               *)
LEMMA ReadingRead == ASSUME ReadInv, ReadingNext PROVE ReadInv'
<1>1. stage \in Stages /\ stage' \in Stages /\ UNCHANGED texts
  BY DEF ReadingNext, Scan, MarkComment, MarkUse, MarkRule, MarkEnd, ReadNext, Advance, Stages
<1>2. MarkInv /\ texts \in [Files -> Text] /\ used \in Nat
  BY <1>1 DEF ReadInv
<1>3. MarkInv'
  BY <1>2, ScanMarkInv, CommentMarkInv, UseMarkInv, RuleMarkInv, EndMarkInv, NextMarkInv DEF ReadingNext
<1>4. file \in Files /\ surface \in [Files -> Surface]
  BY <1>2 DEF MarkInv, Typed
<1>5. Doc' = Doc /\ texts' \in [Files -> Text]
  BY <1>1, <1>2 DEF Doc
<1>6. ReadFiles \subseteq Files
  BY <1>2, ReadAreFiles
<1>7. CASE Scan
  <2>1. /\ stage = "scan" /\ stage' = "mark" /\ UNCHANGED <<texts, file, used>>
        /\ surface' = [surface EXCEPT ![file] =
                         [library |-> IsLibrary(texts[file]), extern |-> Declared(texts[file]), exported |-> {}]]
    BY <1>7 DEF Scan
  <2>2. surface'[file].extern = Declared(texts[file])
    BY <2>1, <1>4
  <2>3. \A f \in Files \ {file} : surface'[f] = surface[f]
    BY <2>1, <1>4
  <2>4. \A f \in ReadFiles \ {file} : AsWritten(f)'
    BY <2>1, <2>3, <1>6 DEF ReadInv, AsWritten
  <2>5. ReadFiles' = ReadFiles
    BY <2>1, <1>5 DEF ReadFiles
  <2>6. QED BY <2>1, <2>2, <2>4, <2>5, <1>2, <1>3, <1>5 DEF ReadInv
<1>8. CASE MarkComment \/ MarkUse \/ MarkRule
  <2>1. /\ stage = "mark" /\ stage' = "mark" /\ UNCHANGED <<texts, file, used>>
        /\ surface' = surface \/ surface' = [surface EXCEPT ![file].exported = @ \cup {Line.name}]
    BY <1>8 DEF MarkComment, MarkUse, MarkRule, Advance
  <2>2. surface'[file].extern = Declared(texts[file])
    BY <2>1, <1>4 DEF ReadInv, Surface
  <2>3. \A f \in Files \ {file} : surface'[f] = surface[f]
    BY <2>1, <1>4
  <2>4. \A f \in ReadFiles \ {file} : AsWritten(f)'
    BY <2>1, <2>3, <1>6 DEF ReadInv, AsWritten
  <2>5. ReadFiles' = ReadFiles
    BY <2>1, <1>5 DEF ReadFiles
  <2>6. QED BY <2>1, <2>2, <2>4, <2>5, <1>2, <1>3, <1>5 DEF ReadInv
<1>9. CASE MarkEnd
  <2>1. stage = "mark" /\ stage' = "next" /\ UNCHANGED <<texts, file, used, surface>>
    BY <1>9 DEF MarkEnd
  <2>2. \A f \in ReadFiles \ {file} : AsWritten(f)'
    BY <2>1 DEF ReadInv, AsWritten
  <2>3. AsWritten(file)'
    <3>1. ExportsAccounted'
      BY <1>3 DEF MarkInv
    <3>2. surface'[file].exported = NamesOf(texts[file], Bound(texts[file]))
      BY <3>1, <2>1 DEF ExportsAccounted, NamesOf, Bound
    <3>3. surface'[file].extern = Declared(texts[file])
      BY <2>1 DEF ReadInv
    <3>4. QED BY <3>2, <3>3, <2>1 DEF AsWritten
  <2>4. ReadFiles' = ReadFiles
    BY <2>1, <1>5 DEF ReadFiles
  <2>5. QED BY <2>1, <2>2, <2>3, <2>4, <1>2, <1>3, <1>5 DEF ReadInv
<1>10. CASE ReadNext
  <2> DEFINE left == {i \in Uses(texts[Main]) : i > used}
  <2>1. stage = "next" /\ UNCHANGED <<texts, surface>>
    BY <1>10 DEF ReadNext
  <2>2. \A f \in ReadFiles : AsWritten(f)'
    BY <2>1 DEF ReadInv, AsWritten
  <2>3. Doc = texts[Main] /\ \A i \in Uses(Doc) : i \in Nat
    <3>1. texts[Main] \in Text
      BY <1>2, MainIsAFile
    <3>2. \A i \in Uses(texts[Main]) : i \in 1..Len(texts[Main]) /\ Len(texts[Main]) \in Nat
      BY <3>1, TextLines
    <3>3. QED BY <3>2 DEF Doc
  <2>4. CASE left = {}
    <3>1. stage' = "unreferenced" /\ used' = used
      BY <1>10, <2>4 DEF ReadNext
    <3>2. \A i \in Uses(Doc) : i <= used
      BY <2>3, <2>4, <1>2
    <3>3. {Main} \cup UsedFiles \subseteq ReadFiles
      BY <3>2 DEF ReadFiles, UsedFiles
    <3>4. UsedFiles' = UsedFiles
      BY <1>5 DEF UsedFiles
    <3>5. \A f \in {Main} \cup UsedFiles' : AsWritten(f)'
      BY <3>3, <3>4, <2>2
    <3>6. QED BY <3>1, <3>5, <1>2, <1>3, <1>5 DEF ReadInv
  <2>5. CASE left # {}
    <3>1. PICK i \in left : /\ \A j \in left : i <= j
                            /\ file' = texts[Main][i].file /\ used' = i /\ stage' = "scan"
      BY <1>10, <2>5 DEF ReadNext
    <3>2. i \in Uses(Doc) /\ i \in Nat
      BY <2>3
    <3>3. ASSUME NEW j \in Uses(Doc), j <= i PROVE j <= used \/ j = i
      <4>1. j \in Nat
        BY <2>3
      <4>2. CASE j > used
        <5>1. j \in left
          BY <4>2, <2>3
        <5>2. i <= j
          BY <5>1, <3>1
        <5>3. QED BY <5>2, <4>1, <3>2, <3>3
      <4>3. CASE ~(j > used)
        BY <4>1, <4>3, <1>2
      <4>4. QED BY <4>2, <4>3
    <3>4. ReadFiles' \subseteq ReadFiles \cup {file'}
      <4>1. ReadFiles' = {Main} \cup {Doc[j].file : j \in {l \in Uses(Doc) : l <= i}}
        BY <3>1, <1>5 DEF ReadFiles
      <4>2. QED BY <4>1, <3>1, <3>3, <2>3 DEF ReadFiles
    <3>5. \A f \in ReadFiles' \ {file'} : AsWritten(f)'
      BY <3>4, <2>2
    <3>6. QED BY <3>1, <3>2, <3>5, <1>3, <1>5 DEF ReadInv
  <2>6. QED BY <2>4, <2>5
<1>11. QED BY <1>7, <1>8, <1>9, <1>10 DEF ReadingNext

(* After the reading no surface changes.                                   *)
LEMMA StepRead == DocInv /\ ReadInv /\ [Next]_vars => ReadInv'
<1> SUFFICES ASSUME DocInv, ReadInv, [Next]_vars PROVE ReadInv'
  OBVIOUS
<1>1. CASE ReadingNext
  BY <1>1, ReadingRead
<1>2. CASE FindUnreferenced \/ Search \/ ReportUnreferenced \/ Finalize \/ ReportCycles \/ CheckUses \/ Deduplicate
  <2> USE DEF FindUnreferenced, Search, ReportUnreferenced, Finalize, ReportCycles, CheckUses, Deduplicate, docVars
  <2>1. UNCHANGED <<texts, used, surface>>
    BY <1>2
  <2>2. stage \notin {"scan", "mark", "next"} /\ stage' \notin Stages
    BY <1>2 DEF Stages
  <2>3. UsedFiles' = UsedFiles
    BY <2>1 DEF UsedFiles, Doc
  <2>4. \A f \in {Main} \cup UsedFiles : AsWritten(f)'
    BY <2>1, <2>2 DEF ReadInv, AsWritten
  <2>5. QED BY <2>1, <2>2, <2>3, <2>4 DEF ReadInv, Stages
<1>3. CASE UNCHANGED vars
  <2>1. UNCHANGED <<texts, stage, file, used, surface>> /\ UNCHANGED docVars
    BY <1>3 DEF vars, docVars
  <2>2. stage \in Stages => MarkInv'
    BY <2>1, StutterMarkInv DEF ReadInv
  <2>3. UsedFiles' = UsedFiles /\ ReadFiles' = ReadFiles
    BY <2>1 DEF UsedFiles, ReadFiles, Doc
  <2>4. \A f : AsWritten(f)' = AsWritten(f)
    BY <2>1 DEF AsWritten
  <2>5. QED BY <2>1, <2>2, <2>3, <2>4 DEF ReadInv
<1>4. QED BY <1>1, <1>2, <1>3 DEF Next, ReadingNext

(* Both invariants hold in every document whose files have depths.         *)
LEMMA ReadInvariant == TreeSpec => []ReadInv
<1>1. InitFrom(Trees) => DocInv
  <2>1. InitFrom(Trees) => InitFrom([Files -> Text])
    BY DEF InitFrom, ReadingInit, Trees
  <2>2. QED BY <2>1, InitDoc
<1>2. InitFrom(Trees) => InitFrom([Files -> Text])
  BY DEF InitFrom, ReadingInit, Trees
<1>3. TreeSpec => DocumentSpec
  BY <1>2 DEF TreeSpec, DocumentSpec
<1>4. TreeSpec => []AllInv
  BY <1>3, AllInvariant
<1>5. AllInv => DocInv
  BY DEF AllInv
<1>6. QED BY <1>4, <1>5, InitRead, StepRead, PTL DEF TreeSpec

(* What the check takes for the surface of a file is what its text offers. *)
LEMMA SurfaceAsWritten ==
  ASSUME ReadInv, stage \in {"deduplicate", "done", "uses"}
  PROVE  /\ \A f \in UsedFiles, n \in {Bare(m) : m \in Names} : OnSurface(f, n) <=> n \in Offered(texts[f])
         /\ surface[Main].extern = Declared(Doc)
<1>1. \A f \in {Main} \cup UsedFiles : AsWritten(f)
  BY DEF ReadInv
<1>2. \A f \in UsedFiles : surface[f].exported \cup surface[f].extern = Offered(texts[f])
  BY <1>1 DEF AsWritten, Offered, NamesOf, Bound
<1>3. QED BY <1>1, <1>2 DEF OnSurface, AsWritten, Doc

-----------------------------------------------------------------------------
(* Uses of what a library does not export.                                 *)

Unblamed(ds) == \A d \in ds : d.code # "W003"
Blames == UseFindings(TreeOf[Main])

BlameInv ==
  /\ texts \in Trees
  /\ stage \in Early => Unblamed(found)
  /\ stage \in Early \cup {"components", "finalize", "cycles", "uses"} => Unblamed(warnings)
  /\ stage = "deduplicate" => Codes("W003") = Blames
  /\ stage = "done" => Codes("W003") \subseteq Blames /\ (Codes("W003") = {} <=> Blames = {})

(* Every report of a use has the same place.                               *)
LEMMA BlamesAlike ==
  \A d \in Blames : d.code = "W003" /\ Spot(d) = <<"W003", Main, 0>>
  BY DEF Blames, UseFindings, Finding, Spot

(* What is blamed depends on the texts and the surfaces.                   *)
LEMMA SameBlames == ASSUME UNCHANGED <<texts, surface>> PROVE Blames' = Blames /\ Tree' = Tree
<1>1. TreeOf' = TreeOf
  BY DEF TreeOf
<1>2. Doc' = Doc
  BY DEF Doc
<1>3. UsedFiles' = UsedFiles
  BY <1>2 DEF UsedFiles
<1>4. QED BY <1>1, <1>2, <1>3 DEF Blames, UseFindings, Violating, HomeOf, OnSurface, Tree

(* Nothing is blamed until the uses are checked.                           *)
LEMMA InitBlame == InitFrom(Trees) => BlameInv
  BY DEF InitFrom, ReadingInit, BlameInv, Early, Unblamed

(* The reading blames nothing.                                             *)
LEMMA ReadingBlame == ASSUME BlameInv, ReadingNext PROVE BlameInv'
<1> USE DEF BlameInv, Early
<1>1. UNCHANGED texts
  BY DEF ReadingNext, Scan, MarkComment, MarkUse, MarkRule, MarkEnd, ReadNext, Advance
<1>2. stage \in {"scan", "mark", "next"} /\ stage' \in Early
  BY DEF ReadingNext, Scan, MarkComment, MarkUse, MarkRule, MarkEnd, ReadNext, Advance
<1>3. Unblamed(found) /\ Unblamed(warnings)
  BY <1>2
<1>4. Unblamed(found')
  <2>1. \A i : Unblamed({Useless(i)})
    BY DEF Unblamed, Useless, Finding
  <2>2. CASE Scan
    <3>1. \A f : Unblamed(ScanFindings(f))
      BY DEF Unblamed, ScanFindings, Finding
    <3>2. QED BY <2>2, <3>1 DEF Scan
  <2>3. CASE MarkComment
    BY <2>1, <2>3, <1>3 DEF MarkComment, Unblamed
  <2>4. CASE MarkUse
    BY <2>1, <2>4, <1>3 DEF MarkUse, Unblamed
  <2>5. CASE MarkEnd
    BY <2>1, <2>5, <1>3 DEF MarkEnd, Unblamed
  <2>6. CASE MarkRule \/ ReadNext
    BY <2>6, <1>3 DEF MarkRule, ReadNext
  <2>7. QED BY <2>2, <2>3, <2>4, <2>5, <2>6 DEF ReadingNext
<1>5. warnings' = warnings \/ warnings' = found'
  BY DEF ReadingNext, Scan, MarkComment, MarkUse, MarkRule, MarkEnd, ReadNext, Advance
<1>6. Unblamed(warnings')
  BY <1>3, <1>4, <1>5
<1>7. texts' \in Trees
  BY <1>1 DEF Trees
<1>8. QED BY <1>2, <1>4, <1>6, <1>7

(* The checks between the reading and this one report other codes.         *)
LEMMA BetweenBlame ==
  ASSUME BlameInv, FindUnreferenced \/ Search \/ ReportUnreferenced \/ Finalize \/ ReportCycles
  PROVE  BlameInv'
<1>1. UNCHANGED texts
  BY DEF FindUnreferenced, Search, ReportUnreferenced, Finalize, ReportCycles, docVars
<1>2. /\ stage \in {"unreferenced", "components", "finalize", "cycles"}
      /\ stage' \in {"components", "finalize", "cycles", "uses"}
  BY DEF FindUnreferenced, Search, ReportUnreferenced, Finalize, ReportCycles, docVars
<1>3. Unblamed(warnings)
  BY <1>2 DEF BlameInv, Early
<1>4. Unblamed(warnings')
  <2>1. CASE FindUnreferenced \/ Search
    BY <1>3, <2>1 DEF FindUnreferenced, Search, docVars
  <2>2. CASE ReportUnreferenced
    BY <1>3, <2>2 DEF ReportUnreferenced, Unblamed, Finding
  <2>3. CASE Finalize
    BY <1>3, <2>3 DEF Finalize, SocketFindings, Unblamed, Finding
  <2>4. CASE ReportCycles
    BY <1>3, <2>4 DEF ReportCycles, Unblamed, Finding
  <2>5. QED BY <2>1, <2>2, <2>3, <2>4
<1>5. texts' \in Trees
  BY <1>1 DEF BlameInv, Trees
<1>6. QED BY <1>2, <1>4, <1>5 DEF BlameInv, Early

(* The check adds what it blames, and reports of another code.             *)
LEMMA UsesBlame == ASSUME BlameInv, CheckUses PROVE BlameInv'
<1> DEFINE Others == {Finding("W007", Main, 0, {<<f>>}) : f \in {g \in UsedFiles : ~surface[g].library}}
<1>1. /\ stage = "uses" /\ stage' = "deduplicate" /\ UNCHANGED <<texts, surface>>
      /\ warnings' = warnings \cup Blames \cup Others
  BY DEF CheckUses, Blames
<1>2. Unblamed(warnings)
  BY <1>1 DEF BlameInv
<1>3. Unblamed(Others)
  BY DEF Unblamed, Finding
<1> HIDE DEF Others
<1>4. Codes("W003")' = Blames
  BY <1>1, <1>2, <1>3, BlamesAlike DEF Codes, Unblamed
<1>5. texts' \in Trees
  BY <1>1 DEF BlameInv, Trees
<1>6. QED BY <1>1, <1>4, <1>5, SameBlames DEF BlameInv, Early

(* The removal of duplicates leaves one report if there is one.            *)
LEMMA DeduplicateBlame == ASSUME BlameInv, Deduplicate PROVE BlameInv'
<1>1. stage = "deduplicate" /\ stage' = "done" /\ UNCHANGED <<texts, surface>>
  BY DEF Deduplicate
<1>2. PICK kept \in SUBSET warnings : /\ \A d \in warnings : \E k \in kept : Spot(k) = Spot(d)
                                      /\ warnings' = kept
  BY DEF Deduplicate
<1>3. Codes("W003") = Blames
  BY <1>1 DEF BlameInv
<1>4. Codes("W003")' \subseteq Blames
  BY <1>2, <1>3 DEF Codes
<1>5. ASSUME NEW d \in Blames PROVE Codes("W003")' # {}
  <2>1. d \in warnings /\ d.code = "W003"
    BY <1>3 DEF Codes
  <2>2. PICK k \in kept : Spot(k) = Spot(d)
    BY <1>2, <2>1
  <2>3. k.code = "W003"
    BY <2>1, <2>2 DEF Spot
  <2>4. QED BY <1>2, <2>3 DEF Codes
<1>6. texts' \in Trees
  BY <1>1 DEF BlameInv, Trees
<1>7. QED BY <1>1, <1>4, <1>5, <1>6, SameBlames DEF BlameInv, Early

(* One lemma for each kind of step.                                        *)
LEMMA StepBlame == BlameInv /\ [Next]_vars => BlameInv'
<1> SUFFICES ASSUME BlameInv, [Next]_vars PROVE BlameInv'
  OBVIOUS
<1>1. CASE ReadingNext
  BY <1>1, ReadingBlame
<1>2. CASE FindUnreferenced \/ Search \/ ReportUnreferenced \/ Finalize \/ ReportCycles
  BY <1>2, BetweenBlame
<1>3. CASE CheckUses
  BY <1>3, UsesBlame
<1>4. CASE Deduplicate
  BY <1>4, DeduplicateBlame
<1>5. CASE UNCHANGED vars
  <2>1. UNCHANGED <<texts, stage, found, warnings, surface>>
    BY <1>5 DEF vars, docVars
  <2>2. Codes("W003")' = Codes("W003") /\ texts' \in Trees
    BY <2>1 DEF Codes, BlameInv, Trees
  <2>3. QED BY <2>1, <2>2, SameBlames DEF BlameInv
<1>6. QED BY <1>1, <1>2, <1>3, <1>4, <1>5 DEF Next, ReadingNext

(* The invariant of the specification.                                     *)
LEMMA BlameInvariant == TreeSpec => []BlameInv
  BY InitBlame, StepBlame, PTL DEF TreeSpec

(* What is in a name and in the text of a rule.                            *)
LEMMA BareIsAWord ==
  ASSUME NEW n \in Names
  PROVE  Bare(n)[1] = Last(n) /\ Last(n) \in ToSet(n)
<1>1. n \in Seq(ToSet(n)) /\ n # <<>>
  BY NamesAreWords
<1>2. Len(n) \in DOMAIN n
  BY <1>1
<1>3. Last(n) \in ToSet(n)
  BY <1>2 DEF Last, ToSet
<1>4. QED BY <1>3 DEF Bare

(* The file's own rules are rules.                                         *)
LEMMA OwnRules ==
  ASSUME texts \in Trees, NEW rule \in Own
  PROVE  rule \in Rule
  BY Lines DEF Own, Trees

(* The words of a rule are those that the check looks for in its source.   *)
LEMMA WordsOfRules ==
  ASSUME NEW rule, NEW n
  PROVE  InSource(rule, n) <=> n[1] \in Words(rule)
  BY DEF InSource, Words

(* What is blamed on the file of a definition is one of its names.         *)
LEMMA BlamedIsTheirs ==
  ASSUME texts \in Trees, NEW n, HomeOf(Tree, n) \in UsedFiles
  PROVE  \E k \in DOMAIN Tree : Tree[k].file = HomeOf(Tree, n) /\ Bare(Tree[k].name) = n
<1> DEFINE homes == {k \in DOMAIN Tree : Bare(Tree[k].name) = n}
<1>1. CASE homes = {}
  <2>1. HomeOf(Tree, n) = Main
    BY <1>1 DEF HomeOf
  <2>2. QED BY <2>1, NotItsOwnUser
<1>2. CASE homes # {}
  <2>1. Min(homes) \in homes
    BY <1>2, FirstOfTree
  <2>2. HomeOf(Tree, n) = Tree[Min(homes)].file
    BY <1>2 DEF HomeOf
  <2>3. QED BY <2>1, <2>2
<1>3. QED BY <1>1, <1>2

(* Where a name means the same without its alias, the check takes it for   *)
(* what it means.                                                          *)
LEMMA BareHome ==
  ASSUME texts \in Trees, Plainly, NEW n \in Source
  PROVE  HomeOf(Tree, Bare(n)) = Home(n)
<1> DEFINE homes == {k \in DOMAIN Tree : Bare(Tree[k].name) = Bare(n)}
           same == {k \in DOMAIN Tree : Tree[k].name = n}
<1>1. \A k \in homes : Tree[k].file = Home(n)
  BY DEF Plainly
<1>2. same \subseteq homes
  OBVIOUS
<1>3. HomeOf(Tree, Bare(n)) = IF homes = {} THEN Main ELSE Tree[Min(homes)].file
  BY DEF HomeOf
<1>4. Home(n) = IF same = {} THEN Main ELSE Tree[Min(same)].file
  BY DEF Home
<1>5. CASE homes = {}
  BY <1>2, <1>3, <1>4, <1>5
<1>6. CASE homes # {}
  <2>1. Min(homes) \in homes
    BY <1>6, FirstOfTree
  <2> HIDE DEF homes, same
  <2>2. QED BY <1>1, <1>3, <1>6, <2>1
<1>7. QED BY <1>5, <1>6

(* What is reported is what the walk over the file's own rules finds.      *)
LEMMA BlamesAbout ==
  {d.about : d \in Blames} = {{n, <<HomeOf(Tree, n)>>} : n \in UNION {Violating(Tree, rule) : rule \in Own}}
<1> DEFINE Blamed == UNION {Violating(Tree, rule) : rule \in Own}
           Blame(n) == Finding("W003", Main, 0, {n, <<HomeOf(Tree, n)>>})
<1>1. Blames = UNION {{Blame(n) : n \in Violating(Tree, rule)} : rule \in Own}
  BY DEF Blames, UseFindings, Own, Tree
<1>2. Blames = {Blame(n) : n \in Blamed}
  <2> HIDE DEF Blame
  <2>1. \A d : d \in Blames <=> \E rule \in Own : \E n \in Violating(Tree, rule) : d = Blame(n)
    BY <1>1
  <2>2. \A d : (\E n \in Blamed : d = Blame(n)) <=> \E rule \in Own : \E n \in Violating(Tree, rule) : d = Blame(n)
    OBVIOUS
  <2> HIDE DEF Blamed
  <2>3. QED BY <2>1, <2>2
<1>3. \A n : Blame(n).about = {n, <<HomeOf(Tree, n)>>}
  BY DEF Finding
<1> HIDE DEF Blame, Blamed
<1>4. {d.about : d \in Blames} = {d.about : d \in {Blame(n) : n \in Blamed}}
  BY <1>2
<1>5. {d.about : d \in {Blame(n) : n \in Blamed}} = {Blame(n).about : n \in Blamed}
  OBVIOUS
<1>6. {Blame(n).about : n \in Blamed} = {{n, <<HomeOf(Tree, n)>>} : n \in Blamed}
  BY <1>3
<1>7. QED BY <1>4, <1>5, <1>6 DEF Blamed

(* Every name that is blamed is a bare name of the library, hidden by it,  *)
(* and a word of the rule.                                                 *)
LEMMA BlameIsEarned ==
  ASSUME texts \in Trees, ReadInv, stage \in {"deduplicate", "done"}, NEW rule \in Own, NEW n \in Violating(Tree, rule)
  PROVE  /\ HomeOf(Tree, n) \in Files /\ n \in {Bare(m) : m \in Names}
         /\ \E k \in DOMAIN Tree : Tree[k].file = HomeOf(Tree, n) /\ Bare(Tree[k].name) = n
         /\ n \notin Offered(texts[HomeOf(Tree, n)]) /\ n[1] \in Words(rule)
<1>1. n \in ReadNames(rule) /\ InSource(rule, n) /\ HomeOf(Tree, n) \in UsedFiles /\ ~OnSurface(HomeOf(Tree, n), n)
  BY DEF Violating
<1>2. PICK m \in rule.written \cup rule.pulled : n = Bare(m)
  BY <1>1 DEF ReadNames
<1>3. m \in Names
  BY <1>2, OwnRules DEF Rule
<1>4. QED BY <1>1, <1>2, <1>3, BlamedIsTheirs, NotItsOwnUser, SurfaceAsWritten, WordsOfRules

(* Where the sources are plain, a name is blamed if one of them writes it  *)
(* and its home hides it, and only then.                                   *)
LEMMA BlameIsExact ==
  ASSUME texts \in Trees, ReadInv, stage \in {"deduplicate", "done"}, Plainly
  PROVE  /\ \A rule \in Own : \A n \in Violating(Tree, rule) :
              \E m \in Hidden : n = Bare(m) /\ HomeOf(Tree, n) = Home(m)
         /\ \A m \in Hidden : \E rule \in Own :
              Bare(m) \in Violating(Tree, rule) /\ HomeOf(Tree, Bare(m)) = Home(m)
<1>1. ASSUME NEW rule \in Own, NEW n \in Violating(Tree, rule)
      PROVE  \E m \in Hidden : n = Bare(m) /\ HomeOf(Tree, n) = Home(m)
  <2>1. /\ n \in ReadNames(rule) /\ n \notin surface[Main].extern /\ InSource(rule, n)
        /\ HomeOf(Tree, n) \in UsedFiles /\ ~OnSurface(HomeOf(Tree, n), n)
    BY DEF Violating
  <2>2. PICK m \in (rule.written \cup rule.pulled) \ (TypeSockets \cup GroupSockets) : n = Bare(m)
    BY <2>1 DEF ReadNames
  <2>3. \E v \in Source : n = Bare(v)
    <3>1. CASE m \in rule.written
      BY <2>2, <3>1 DEF Source
    <3>2. CASE m \in rule.pulled
      <4>1. Last(m) \in Words(rule)
        BY <2>1, <2>2, WordsOfRules DEF Bare
      <4>2. QED BY <2>2, <3>2, <4>1 DEF Plainly
    <3>3. QED BY <2>2, <3>1, <3>2
  <2>4. PICK v \in Source : n = Bare(v)
    BY <2>3
  <2>5. HomeOf(Tree, n) = Home(v)
    BY <2>4, BareHome
  <2>6. v \in Names
    BY <2>4, OwnRules DEF Source, Rule
  <2>7. n \notin Offered(texts[Home(v)]) /\ n \notin Declared(Doc)
    BY <2>1, <2>4, <2>5, <2>6, SurfaceAsWritten
  <2>8. QED BY <2>1, <2>4, <2>5, <2>7 DEF Hidden
<1>2. ASSUME NEW m \in Hidden
      PROVE  \E rule \in Own : Bare(m) \in Violating(Tree, rule) /\ HomeOf(Tree, Bare(m)) = Home(m)
  <2>1. m \in Source /\ Home(m) \in UsedFiles
    BY DEF Hidden
  <2>2. PICK rule \in Own : m \in rule.written \ (TypeSockets \cup GroupSockets)
    BY <2>1 DEF Source
  <2>3. Bare(m) \in ReadNames(rule) /\ Bare(m) \notin rule.params
    BY <2>2 DEF ReadNames, Plainly
  <2>4. m \in Names
    BY <2>2, OwnRules DEF Rule
  <2>5. InSource(rule, Bare(m))
    BY <2>2, <2>4, BareIsAWord DEF InSource
  <2>6. HomeOf(Tree, Bare(m)) = Home(m)
    BY <2>1, BareHome
  <2>7. ~OnSurface(Home(m), Bare(m)) /\ Bare(m) \notin surface[Main].extern
    BY <2>1, <2>4, SurfaceAsWritten DEF Hidden
  <2>8. Bare(m) \in Violating(Tree, rule)
    BY <2>1, <2>3, <2>5, <2>6, <2>7 DEF Violating
  <2>9. QED BY <2>6, <2>8
<1>3. QED BY <1>1, <1>2

(* The reports of uses (W003) blame a name on a file that has and hides    *)
(* it; for plain sources the uses found are exactly those that the sources *)
(* make.  After the removal of duplicates one is left if there was one,    *)
(* and where a single name of an imported library is used, and none of     *)
(* another file, that is the warning the comment promises.                 *)
THEOREM SurfaceIsGuarded == TreeSpec => []SurfaceGuarded
<1>1. BlameInv /\ ReadInv => SurfaceGuarded
  <2> SUFFICES ASSUME BlameInv, ReadInv PROVE SurfaceGuarded
    OBVIOUS
  <2> DEFINE Blamed == UNION {Violating(Tree, rule) : rule \in Own}
             Pair(n) == {n, <<HomeOf(Tree, n)>>}
  <2>1. texts \in Trees
    BY DEF BlameInv
  <2>2. ASSUME stage \in {"deduplicate", "done"}, Plainly
        PROVE  {Pair(n) : n \in Blamed} = {{Bare(m), <<Home(m)>>} : m \in Hidden}
    <3>1. ASSUME NEW n \in Blamed PROVE \E m \in Hidden : Pair(n) = {Bare(m), <<Home(m)>>}
      <4>1. PICK rule \in Own : n \in Violating(Tree, rule)
        OBVIOUS
      <4>2. PICK m \in Hidden : n = Bare(m) /\ HomeOf(Tree, n) = Home(m)
        BY <2>1, <2>2, <4>1, BlameIsExact
      <4>3. QED BY <4>2
    <3>2. ASSUME NEW m \in Hidden PROVE \E n \in Blamed : Pair(n) = {Bare(m), <<Home(m)>>}
      <4>1. PICK rule \in Own : Bare(m) \in Violating(Tree, rule) /\ HomeOf(Tree, Bare(m)) = Home(m)
        BY <2>1, <2>2, BlameIsExact
      <4>2. QED BY <4>1
    <3> HIDE DEF Blamed, Pair
    <3>3. QED BY <3>1, <3>2
  <2>3. /\ stage = "deduplicate" => Reported("W003") = {Pair(n) : n \in Blamed}
        /\ stage \in {"deduplicate", "done"} => Reported("W003") \subseteq {Pair(n) : n \in Blamed}
    <3>1. {d.about : d \in Blames} = {Pair(n) : n \in Blamed}
      BY BlamesAbout
    <3>2. /\ stage = "deduplicate" => Codes("W003") = Blames
          /\ stage \in {"deduplicate", "done"} => Codes("W003") \subseteq Blames
      BY DEF BlameInv
    <3> HIDE DEF Blamed, Pair
    <3>3. QED BY <3>1, <3>2 DEF Reported
  <2>4. ASSUME stage \in {"deduplicate", "done"}, NEW w \in Reported("W003")
        PROVE  \E f \in Files, n \in {Bare(m) : m \in Names} :
                 /\ w = {n, <<f>>}
                 /\ \E k \in DOMAIN Tree : Tree[k].file = f /\ Bare(Tree[k].name) = n
                 /\ n \notin Offered(texts[f])
                 /\ \E rule \in Own : n[1] \in Words(rule)
    <3>1. PICK n \in Blamed : w = Pair(n)
      BY <2>3, <2>4
    <3>2. PICK rule \in Own : n \in Violating(Tree, rule)
      BY <3>1
    <3>3. /\ HomeOf(Tree, n) \in Files /\ n \in {Bare(m) : m \in Names}
          /\ \E k \in DOMAIN Tree : Tree[k].file = HomeOf(Tree, n) /\ Bare(Tree[k].name) = n
          /\ n \notin Offered(texts[HomeOf(Tree, n)]) /\ n[1] \in Words(rule)
      BY <2>1, <2>4, <3>2, BlameIsEarned
    <3>4. QED BY <3>1, <3>3
  <2>5. ASSUME stage = "done", Plainly PROVE Reported("W003") = {} <=> Hidden = {}
    <3>1. Codes("W003") = {} <=> Blames = {}
      BY <2>5 DEF BlameInv
    <3>2. Reported("W003") = {} <=> Codes("W003") = {}
      BY DEF Reported
    <3>3. Blames = {} <=> Blamed = {}
      <4>1. Blames = UNION {{Finding("W003", Main, 0, Pair(n)) : n \in Violating(Tree, rule)} : rule \in Own}
        BY DEF Blames, UseFindings, Own, Tree
      <4>2. \A rule \in Own : \A n \in Violating(Tree, rule) : Finding("W003", Main, 0, Pair(n)) \in Blames
        BY <4>1
      <4>3. \A d \in Blames : \E rule \in Own : \E n \in Violating(Tree, rule) : TRUE
        BY <4>1
      <4>4. QED BY <4>2, <4>3
    <3>4. Blamed = {} <=> Hidden = {}
      <4> HIDE DEF Blamed, Pair
      <4>1. Blamed = {} <=> {Pair(n) : n \in Blamed} = {}
        OBVIOUS
      <4>2. Hidden = {} <=> {{Bare(m), <<Home(m)>>} : m \in Hidden} = {}
        OBVIOUS
      <4>3. QED BY <4>1, <4>2, <2>2, <2>5
    <3>5. QED BY <3>1, <3>2, <3>3, <3>4
  <2> HIDE DEF Blamed, Pair
  <2>6. ASSUME stage \in {"deduplicate", "done"}, Plainly
        PROVE  {Pair(n) : n \in Blamed} = {UseOf(n) : n \in Hidden}
    BY <2>2, <2>6 DEF UseOf
  <2>7. ASSUME stage = "done", Plainly, ~Uncontracted, ~SeveralBlamed
        PROVE  Reported("W003") = {UseOf(n) : n \in Contract}
    <3>1. Hidden = Contract
      BY <2>7 DEF Uncontracted
    <3>2. Reported("W003") \subseteq {UseOf(n) : n \in Contract}
      BY <2>3, <2>6, <2>7, <3>1
    <3>3. CASE Contract = {}
      BY <3>2, <3>3
    <3>4. CASE Contract # {}
      <4>1. PICK w \in Reported("W003") : TRUE
        BY <2>5, <2>7, <3>1, <3>4
      <4>2. \A n \in Contract : UseOf(n) = w
        BY <2>7, <3>2, <4>1 DEF SeveralBlamed
      <4>3. QED BY <3>2, <4>1, <4>2
    <3>5. QED BY <3>3, <3>4
  <2>8. QED BY <2>3, <2>4, <2>5, <2>6, <2>7 DEF SurfaceGuarded
<1>2. QED BY <1>1, BlameInvariant, ReadInvariant, PTL

===============================================================================
