------------------------------ MODULE MCSerialization ------------------------------
(***************************************************************************)
(* Inputs for Serialization: items at the boundaries of the widths, in     *)
(* every form, alone, in pairs and nested, written into a buffer together  *)
(* with the document that describes them; the same buffers without their   *)
(* last byte; and short buffers of arbitrary bytes.                        *)
(***************************************************************************)
EXTENDS Serialization, SequencesExt, FiniteSetsExt, TLC

(* Values with their forms; the last three have no form of their own in    *)
(* four bytes, and the single nearest to two of them is one and infinity.  *)
Finite(forms, single) == [class |-> "finite", forms |-> forms, single |-> single]
MCFloats ==
  [one |-> Finite(2 :> <<60, 0>> @@ 4 :> <<63, 128, 0, 0>> @@ 8 :> <<63, 240, 0, 0, 0, 0, 0, 0>>, "one"),
   tenth |-> Finite(4 :> <<61, 204, 204, 205>> @@ 8 :> <<63, 185, 153, 153, 160, 0, 0, 0>>, "tenth"),
   infinity |-> [class |-> "infinity", single |-> "infinity",
     forms |-> 2 :> <<124, 0>> @@ 4 :> <<127, 128, 0, 0>> @@ 8 :> <<127, 240, 0, 0, 0, 0, 0, 0>>],
   nan |-> [class |-> "nan", single |-> "nan",
     forms |-> 2 :> <<126, 0>> @@ 4 :> <<127, 192, 0, 0>> @@ 8 :> <<127, 248, 0, 0, 0, 0, 0, 0>>],
   payload |-> [class |-> "nan", single |-> "payload",
     forms |-> 2 :> <<126, 1>> @@ 4 :> <<127, 192, 32, 0>> @@ 8 :> <<127, 248, 4, 0, 0, 0, 0, 0>>],
   almost_tenth |-> Finite(8 :> <<63, 185, 153, 153, 153, 153, 153, 154>>, "tenth"),
   almost_one |-> Finite(8 :> <<63, 240, 0, 0, 0, 0, 16, 0>>, "one"),
   huge |-> Finite(8 :> <<126, 55, 228, 60, 136, 0, 117, 156>>, "infinity")]

(* The strings here: ASCII, U+FFFD and single bytes that are not text.     *)
MCUtf8(s) == s = Replacement \/ \A k \in DOMAIN s : s[k] < 128
--------------------------------------------------------------------------------
(* Items as they are written: `arg` is a number without leading zeros and  *)
(* `width` the bytes it is written in (0: in the head itself).             *)
Item(major, arg, width, content, parts) ==
  [major |-> major, arg |-> arg, width |-> width, content |-> content, parts |-> parts]
Indefinite == 99
Digits(n) == IF n < 256 THEN <<n>> ELSE <<n \div 256, n % 256>>
Integer(major, arg, width) == Item(major, arg, width, <<>>, <<>>)
Str(major, width, content) == Item(major, Digits(Len(content)), width, content, <<>>)
Chunks(major, parts) == Item(major, <<>>, Indefinite, <<>>, parts)
Array(width, parts) == Item(4, Digits(Len(parts)), width, <<>>, parts)
Map(width, pairs) == Item(5, Digits(Len(pairs)), width, <<>>, FlattenSeq(pairs))
Tag(arg, width, inner) == Item(6, arg, width, <<>>, <<inner>>)
Float(v, width) == Item(7, MCFloats[v].forms[width], width, <<>>, <<>>)
Simple(n) == Item(7, <<n>>, 0, <<>>, <<>>)

HeadOf(i) ==
  CASE i.width = Indefinite -> <<32 * i.major + 31>>
    [] i.width = 0 -> <<32 * i.major + i.arg[1]>>
    [] OTHER -> <<32 * i.major + (CASE i.width = 1 -> 24 [] i.width = 2 -> 25 [] i.width = 4 -> 26 [] i.width = 8 -> 27)>>
                  \o [k \in 1..i.width |-> IF k <= i.width - Len(i.arg) THEN 0 ELSE i.arg[k - (i.width - Len(i.arg))]]
RECURSIVE Encoded(_)
Encoded(i) ==
  HeadOf(i) \o i.content \o FlattenSeq([k \in DOMAIN i.parts |-> Encoded(i.parts[k])])
    \o (IF i.width = Indefinite THEN <<Break>> ELSE <<>>)

(* What is written from a position on, and the paths to its parts.         *)
Starts(list, from) ==
  [k \in DOMAIN list |-> from + Len(FlattenSeq([l \in 1..(k - 1) |-> Encoded(list[l])]))]
PartsFrom(i, from) == from + Len(HeadOf(i)) + Len(i.content)
RECURSIVE Tree(_, _)
Tree(list, from) ==
  LET starts == Starts(list, from)
      trees == [k \in DOMAIN list |-> Tree(list[k].parts, PartsFrom(list[k], starts[k]))]
      all == Range(starts) \cup UNION {DOMAIN trees[k] : k \in DOMAIN list}
  IN [p \in all |->
        IF p \in Range(starts)
        THEN LET i == CHOOSE k \in DOMAIN list : starts[k] = p
             IN [parts |-> Starts(list[i].parts, PartsFrom(list[i], p)), to |-> p + Len(Encoded(list[i]))]
        ELSE LET i == CHOOSE k \in DOMAIN list : p \in DOMAIN trees[k] IN trees[i][p]]
StepTo(i, k) ==
  CASE i.major = 4 -> <<"item", k - 1>>
    [] i.major = 5 -> <<IF k % 2 = 1 THEN "key" ELSE "value", (k - 1) \div 2>>
    [] i.major = 6 -> <<"inner", 0>>
RECURSIVE PathsIn(_)
PathsIn(i) ==
  {<<>>} \cup IF i.major \notin {4, 5, 6} THEN {}
              ELSE UNION {{<<StepTo(i, k)>> \o path : path \in PathsIn(i.parts[k])} : k \in DOMAIN i.parts}
--------------------------------------------------------------------------------
Fill(n) == [k \in 1..n |-> 7]
Forms(major) == {Integer(major, arg, w) : <<arg, w>> \in
  {<<a, w>> \in {<<0>>, <<23>>, <<24>>, <<255>>, <<1, 0>>, <<1, 0, 0>>, <<1, 0, 0, 0, 0>>, <<128, 0, 0, 0, 0, 0, 0, 0>>}
              \X {0, 1, 2, 4, 8} : w >= Len(a) \/ (w = 0 /\ Len(a) = 1 /\ a[1] <= 23)}}
Strings ==
  {Str(2, w, c) : w \in {1, 2, 4, 8}, c \in {<<>>, Fill(1), Fill(23), Fill(24)}}
    \cup {Str(2, 0, c) : c \in {<<>>, Fill(1), Fill(23)}}
    \cup {Str(2, w, Fill(256)) : w \in {2, 4}}
    \cup {Str(3, 0, <<97>>), Str(3, 1, <<97>>), Str(3, 0, Replacement), Str(3, 0, <<128>>),
          Chunks(2, <<Str(2, 0, Fill(1))>>), Chunks(3, <<>>)}
FloatItems == UNION {{Float(v, w) : w \in DOMAIN MCFloats[v].forms} : v \in DOMAIN MCFloats}
Bignums ==
  {Tag(<<n>>, w, Str(2, IF Len(c) < 24 THEN 0 ELSE 1, c)) :
     n \in {2, 3}, w \in {0, 1}, c \in {<<>>, Fill(8), Fill(9), <<0>> \o Fill(9)}}
    \cup {Tag(<<2>>, 0, Integer(0, <<1>>, 0)), Tag(<<2>>, 0, Chunks(2, <<>>)), Tag(<<3>>, 1, Str(2, 1, Fill(9)))}

One == Integer(0, <<1>>, 0)
Long == Integer(0, <<24>>, 1)
Small == {One, Long, Integer(0, <<1>>, 1), Integer(1, <<0>>, 0), Str(2, 0, Fill(1)), Str(3, 0, <<97>>),
          Str(3, 0, <<128>>), Simple(22), Array(0, <<>>), Chunks(2, <<>>)}
Widths == {0, 1, 2, Indefinite}
Arrays ==
  {Array(w, l) : w \in Widths, l \in UNION {[1..n -> {One, Integer(0, <<1>>, 1), Str(3, 0, <<97>>)}] : n \in 0..2}}
    \cup {Array(0, l) : l \in [1..3 -> {One, Long}]}
    \cup {Array(w, [k \in 1..n |-> Simple(20)]) : w \in {1, 2}, n \in {23, 24}}
    \cup {Array(0, <<i>>) : i \in Bignums \cup FloatItems}
Maps ==
  {Map(w, [k \in DOMAIN l |-> <<l[k], Simple(20)>>]) : w \in {0, Indefinite},
     l \in UNION {[1..n -> Small] : n \in 0..2} \cup [1..3 -> {One, Long, Str(3, 0, <<97>>)}]}
    \cup {Map(w, <<>>) : w \in Widths} \cup {Map(1, <<<<Simple(20), Simple(20)>>>>)}
    \cup {Map(0, <<<<One, v>>>>) : v \in Small}
Nests == {Array(0, <<One, Long>>), Array(Indefinite, <<Simple(22)>>), Map(0, <<<<One, Str(3, 0, <<97>>)>>>>),
          Map(0, <<<<Integer(0, <<2>>, 0), Simple(20)>>, <<One, Simple(20)>>>>), Tag(<<32>>, 1, Str(3, 0, <<97>>))}
Nested ==
  {Array(w, <<a, b>>) : w \in {0, Indefinite}, a, b \in Nests}
    \cup {Map(w, <<<<a, b>>>>) : w \in {0, Indefinite}, a, b \in Nests}
    \cup {Tag(<<5>>, 0, a) : a \in Nests}
Simples == {Simple(n) : n \in {0, 16, 20, 21, 22, 23}}
Alone == Forms(0) \cup Forms(1) \cup Strings \cup FloatItems \cup Simples \cup Bignums \cup Arrays \cup Maps \cup Nested
Few == Nests \cup {One, Integer(0, <<24>>, 2), Str(2, 0, <<>>)}
Lists == {<<>>} \cup {<<i>> : i \in Alone} \cup {<<i, j>> : i, j \in Few}
--------------------------------------------------------------------------------
(* Which paths are tried: those to a part, and some that lead nowhere.     *)
Tried == {<<"item", 0>>, <<"item", 2>>, <<"key", 0>>, <<"key", 2>>, <<"value", 0>>, <<"value", 1>>, <<"inner", 0>>}
PathsOf(list) ==
  LET in(k) == {<<<<"top", k - 1>>>> \o path : path \in PathsIn(list[k])}
      parts == UNION {in(k) : k \in DOMAIN list}
  IN parts \cup {<<<<"top", n>>>> : n \in {0, Len(list)}}
       \cup {path \o <<step>> : path \in {p \in parts : Len(p) = 1}, step \in Tried}

Written(list) ==
  [buffer |-> FlattenSeq([k \in DOMAIN list |-> Encoded(list[k])]),
   document |-> [tree |-> Tree(list, 1), tops |-> Starts(list, 1)],
   paths |-> IF list = <<>> \/ list[1].major \in {4, 5, 6} THEN PathsOf(list) ELSE {}, written |-> TRUE]

(* A document without what is cut off.                                     *)
Cut(i) ==
  LET b == SubSeq(i.buffer, 1, Len(i.buffer) - 1)
      stays(p) == i.document.tree[p].to <= Len(b) + 1
  IN [buffer |-> b, paths |-> {}, written |-> TRUE,
      document |-> [tree |-> [p \in {p \in DOMAIN i.document.tree : stays(p)} |-> i.document.tree[p]],
                    tops |-> SelectSeq(i.document.tops, stays)]]

(* Bytes that begin items of all kinds, and are content of others.         *)
FewBytes == {0, 1, 24, 31, 32, 65, 88, 97, 128, 129, 130, 159, 160, 161, 162, 194, 216, 223, 245, 255}
Arbitrary ==
  {[buffer |-> b, document |-> [tree |-> <<>>, tops |-> <<>>], paths |-> {}, written |-> FALSE] :
     b \in UNION {[1..n -> FewBytes] : n \in 1..3}}

WholeInputs == {Written(list) : list \in Lists}
MCInputs == WholeInputs \cup {Cut(i) : i \in {i \in WholeInputs : i.buffer # <<>>}} \cup Arbitrary
MCCalls(i) ==
  {[fn |-> "check", mode |-> m, sequence |-> s] : m \in IF i.written THEN Modes ELSE {"prefp", "dtrm"}, s \in BOOLEAN}
    \cup {[fn |-> "locate", path |-> path] : path \in i.paths}
    \cup IF ~i.written THEN {}
         ELSE {[fn |-> f, context |-> c] : f \in {"map", "array"}, c \in Contexts}

(* What is written here is what CborItems calls a whole document.          *)
ASSUME \A i \in WholeInputs : Whole(i.buffer, i.document)
================================================================================
