------------------------------- MODULE CborItems -------------------------------
(***************************************************************************)
(* CBOR in a buffer (RFC 8949), as a relation and without recursion: an    *)
(* item is named by the position where it starts, and a document says of   *)
(* each item of which parts it consists and where it ends.  This is the    *)
(* reference that Serialization is compared with; of code it has only what *)
(* the library minicbor reads.                                             *)
(***************************************************************************)
EXTENDS Integers, Sequences

CONSTANTS
  Floats,   \* the floating-point values that occur
  Utf8(_)   \* what is UTF-8

Byte == 0..255
Position == Nat \ {0}

(* A value has forms of two, four and eight bytes, those in which it can   *)
(* be written; what can be written in eight has a nearest `single`, itself *)
(* if it is one.                                                           *)
FloatsAssumption ==
  \A v \in DOMAIN Floats :
    /\ Floats[v].class \in {"finite", "infinity", "nan"}
    /\ DOMAIN Floats[v].forms \in SUBSET {2, 4, 8} \ {{}}
    /\ \A w \in DOMAIN Floats[v].forms : Floats[v].forms[w] \in [1..w -> Byte]
    /\ Floats[v].single \in DOMAIN Floats
    /\ Floats[v].single = v <=> 4 \in DOMAIN Floats[v].forms
    /\ 2 \in DOMAIN Floats[v].forms => 4 \in DOMAIN Floats[v].forms
    /\ \A u \in DOMAIN Floats : \A w \in DOMAIN Floats[u].forms \cap DOMAIN Floats[v].forms :
         Floats[u].forms[w] = Floats[v].forms[w] => u = v
ASSUME FloatsAssumption

Break == 255
--------------------------------------------------------------------------------
(* External: the head of the item at a position, and where it ends.  The   *)
(* argument are the bytes after the first one, or what that one says.      *)
Extra(info) == IF info \in 24..27 THEN <<1, 2, 4, 8>>[info - 23] ELSE 0
ReadHead(b, at) ==
  IF at > Len(b) THEN [ok |-> FALSE, major |-> 8, info |-> 0, arg |-> <<0>>, at |-> at]
  ELSE LET info == b[at] % 32
           whole == at + Extra(info) <= Len(b)
       IN [ok |-> info \notin 28..30 /\ whole, major |-> b[at] \div 32, info |-> info,
           arg |-> IF Extra(info) = 0 THEN <<info>> ELSE IF whole THEN SubSeq(b, at + 1, at + Extra(info)) ELSE <<0>>,
           at |-> at + 1 + Extra(info)]

(* The number that is written in at most eight bytes.                      *)
Value(arg) ==
  LET d(k) == IF k < Len(arg) THEN arg[Len(arg) - k] ELSE 0
  IN d(0) + 256 * (d(1) + 256 * (d(2) + 256 * (d(3) + 256 * (d(4) + 256 * (d(5) + 256 * (d(6) + 256 * d(7)))))))

Definite(h) == h.info # 31

(* The items at the given starts follow one another between two positions. *)
Chained(tree, starts, from, to) ==
  LET end(k) == IF k = 0 THEN from ELSE tree[starts[k]].to
  IN /\ \A k \in DOMAIN starts : starts[k] \in DOMAIN tree /\ starts[k] = end(k - 1)
     /\ to = end(Len(starts))

With(tree, p, item) == [q \in DOMAIN tree \cup {p} |-> IF q = p THEN item ELSE tree[q]]

(* What the head at p says about the parts of an item, and about the bytes *)
(* up to its end.                                                          *)
Structured(b, tree, p) ==
  LET h == ReadHead(b, p)
      n == Len(tree[p].parts)
      closed == tree[p].to - 1 \in DOMAIN b /\ b[tree[p].to - 1] = Break
  IN /\ h.ok /\ tree[p].to \in (p + 1)..(Len(b) + 1)
     /\ h.major \in {0, 1, 6, 7} => Definite(h)
     /\ h.major \in {0, 1, 7} => n = 0 /\ tree[p].to = h.at
     /\ h.major = 6 => n = 1
     /\ h.major \in {2, 3} /\ Definite(h) => n = 0 /\ tree[p].to = h.at + Value(h.arg)
     /\ h.major = 4 /\ Definite(h) => n = Value(h.arg)
     /\ h.major = 5 /\ Definite(h) => n = 2 * Value(h.arg)
     /\ h.major = 5 => n % 2 = 0
     /\ ~Definite(h) => closed
     /\ h.major \in {2, 3} /\ ~Definite(h) =>
          \A k \in 1..n : LET c == ReadHead(b, tree[p].parts[k]) IN c.major = h.major /\ Definite(c)
     /\ h.major \in {4, 5, 6} \/ ~Definite(h) =>
          Chained(tree, tree[p].parts, h.at, IF Definite(h) THEN tree[p].to ELSE tree[p].to - 1)

(* A document: its items and, in `tops`, those at the top level, which are *)
(* the whole buffer.                                                       *)
Items(b, doc) == \A p \in DOMAIN doc.tree : p \in DOMAIN b /\ Structured(b, doc.tree, p)
Whole(b, doc) == Items(b, doc) /\ Chained(doc.tree, doc.tops, 1, Len(b) + 1)
--------------------------------------------------------------------------------
(* Byte strings in lexicographic order, and with shorter ones first.       *)
Bytewise(s, t) ==
  \E k \in DOMAIN t : (\A j \in 1..(k - 1) : j \in DOMAIN s /\ s[j] = t[j]) /\ (k \in DOMAIN s => s[k] < t[k])
LengthFirst(s, t) == Len(s) < Len(t) \/ (Len(s) = Len(t) /\ Bytewise(s, t))
Ascending(keys, Before(_, _)) == \A k, l \in DOMAIN keys : k < l => Before(keys[k], keys[l])

Bytes(b, tree, p) == SubSeq(b, p, tree[p].to - 1)
Keys(b, tree, p) ==
  [k \in 1..(Len(tree[p].parts) \div 2) |-> Bytes(b, tree, tree[p].parts[2 * k - 1])]

(* No shorter argument, of w bytes or in the head itself, says the same    *)
(* number.                                                                 *)
FitsIn(arg, w) ==
  /\ \A k \in 1..(Len(arg) - (IF w = 0 THEN 1 ELSE w)) : arg[k] = 0
  /\ w = 0 => arg[Len(arg)] <= 23
MinimalHead(h) == h.info \in 24..27 => \A w \in {0, 1, 2, 4} : w < Len(h.arg) => ~FitsIn(h.arg, w)

(* The float a head has for its argument.                                  *)
FloatsOf(h) == {v \in DOMAIN Floats : Len(h.arg) \in DOMAIN Floats[v].forms /\ Floats[v].forms[Len(h.arg)] = h.arg}
QuietNaN == <<126, 0>>

(* The one form of a value in preferred serialization, but for two points  *)
(* that are left open: the width of a tag's head and that of infinities.   *)
Shortest(b, tree, p) ==
  LET h == ReadHead(b, p)
      c == ReadHead(b, h.at)
  IN CASE h.major \in {0, 1} -> MinimalHead(h)
       [] h.major \in {2, 3, 4, 5} -> Definite(h) /\ MinimalHead(h)
       [] h.major = 6 /\ Value(h.arg) \in {2, 3} -> c.major = 2 /\ Definite(c) /\ Value(c.arg) > 8 /\ b[c.at] # 0
       [] h.major = 6 /\ Value(h.arg) \notin {2, 3} -> TRUE
       [] h.major = 7 ->
            h.info \in 25..27 =>
              \E v \in FloatsOf(h) :
                CASE Floats[v].class = "finite" -> \A w \in DOMAIN Floats[v].forms : Len(h.arg) <= w
                  [] Floats[v].class = "infinity" -> TRUE
                  [] Floats[v].class = "nan" -> h.arg = QuietNaN

(* Deterministic serialization asks for ascending keys too.                *)
Ordered(b, tree, p) == ReadHead(b, p).major = 5 => Ascending(Keys(b, tree, p), Bytewise)
================================================================================
