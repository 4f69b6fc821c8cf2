------------------------------- MODULE Serialization -------------------------------
(***************************************************************************)
(* The byte-level CBOR helpers (crate cbork-utils): the walk that checks   *)
(* the serialization of items (serialization_checker.rs), the search for   *)
(* the bytes of a nested item, and the decoders of maps and arrays with    *)
(* their deterministic rules (map.rs, array.rs).  Each call reads one      *)
(* buffer with a decoder of the library minicbor, whose position is `at`.  *)
(* What recurses in the code is a stack of frames here, and one step is    *)
(* one turn of a loop.  Messages and offsets of errors are left out.       *)
(***************************************************************************)
EXTENDS CborItems

CONSTANTS
  Inputs,   \* buffers, each with the items that are known to be in it
  Calls(_)  \* the calls that are made on an input

Modes == {"cbor", "prefp", "dtrm"}
Contexts == {"deterministic", "array-deterministic", "lenient", "handled"}
Steps == {"top", "item", "key", "value", "inner"} \X Nat

(* A path starts at the top level and does not return to it.               *)
Paths == {path \in Seq(Steps) : path # <<>> /\ \A k \in DOMAIN path : path[k][1] = "top" <=> k = 1}
InputsAssumption ==
  \A i \in Inputs :
    /\ i.buffer \in Seq(Byte)
    /\ i.document.tree \in [DOMAIN i.document.tree -> [parts : Seq(Position), to : Position]]
    /\ i.document.tops \in Seq(Position)
    /\ Items(i.buffer, i.document)
    /\ \A c \in Calls(i) :
         \/ c.fn = "check" /\ c.mode \in Modes /\ c.sequence \in BOOLEAN
         \/ c.fn = "locate" /\ c.path \in Paths
         \/ c.fn \in {"map", "array"} /\ c.context \in Contexts
ASSUME InputsAssumption

VARIABLES
  buffer,
  document,  \* history: what is known to be in the buffer
  call,
  at,        \* the position of the decoder
  frames,    \* check: the loops that walk items, the innermost last
  found,     \* history of check: the items that were walked
  rest,      \* locate: the steps that are still to be taken
  trail,     \* history of locate: the positions that steps led to
  open,      \* locate: parts are counted up to a break
  left,      \* locate and decode: parts or entries that are still read
  spans,     \* locate and decode: the bytes that are found
  pc         \* what is done next

vars == <<buffer, document, call, at, frames, found, rest, trail, open, left, spans, pc>>
input == <<buffer, document, call>>
walk == <<frames, found>>
way == <<rest, trail, open>>

(* A loop over the parts of an item: how many there are, where those stand *)
(* that were begun, and in a map the bytes of the key before (if any).     *)
Frame(pos, kind, count) == [pos |-> pos, kind |-> kind, count |-> count, parts |-> <<>>, previous |-> {}]

(* `check_serialization`: an empty buffer is an empty sequence.            *)
Begin ==
  CASE call.fn = "check" -> IF buffer # <<>> THEN "next" ELSE IF call.sequence THEN "accepted" ELSE "refused"
    [] call.fn = "locate" -> "step"
    [] OTHER -> "head"
Init ==
  /\ \E i \in Inputs : buffer = i.buffer /\ document = i.document /\ call \in Calls(i)
  /\ at = 1 /\ frames = <<Frame(0, "top", 0)>> /\ found = <<>>
  /\ rest = (IF call.fn = "locate" THEN call.path ELSE <<>>) /\ trail = <<>> /\ open = FALSE
  /\ left = 0 /\ spans = <<>> /\ pc = Begin
--------------------------------------------------------------------------------
(* `check_shortest_uint`, `check_shortest_int`, with the bytes that a      *)
(* number needs.  A negative integer is read into 64 bits.                 *)
Below(arg, w) == \A k \in 1..(Len(arg) - w) : arg[k] = 0
ExtraBytes(arg) ==
  IF Below(arg, 1) THEN (IF arg[Len(arg)] <= 23 THEN 0 ELSE 1)
  ELSE IF Below(arg, 2) THEN 2 ELSE IF Below(arg, 4) THEN 4 ELSE 8
ShortestInt(h) == Extra(h.info) <= ExtraBytes(h.arg)
IntInRange(h) == ~(h.major = 1 /\ h.info = 27 /\ h.arg[1] >= 128)

(* Mutant: a length in one byte is never too long.                         *)
ShortestLengthTail(h) ==
  /\ h.info = 25 => ~Below(h.arg, 1)
  /\ h.info = 26 => ~Below(h.arg, 2)
  /\ h.info = 27 => ~Below(h.arg, 4)

(* `check_shortest_length_from_bytes`.                                     *)
ShortestLength(h) ==
  /\ h.info = 24 => h.arg[1] > 23
  /\ h.info = 25 => ~Below(h.arg, 1)
  /\ h.info = 26 => ~Below(h.arg, 2)
  /\ h.info = 27 => ~Below(h.arg, 4)

(* `check_shortest_float`: the form of a NaN, and whether the value, or in *)
(* eight bytes the single nearest to it, fits in a shorter form;           *)
(* infinities are returned early.                                          *)
Half(v) == 2 \in DOMAIN Floats[v].forms
ShortestFloat(h) ==
  \E v \in FloatsOf(h) :
    LET width == Len(h.arg)
    IN CASE Floats[v].class = "nan" -> width = 2 /\ h.arg = QuietNaN
         [] Floats[v].class = "infinity" -> TRUE
         [] Floats[v].class = "finite" ->
              /\ width = 4 => ~Half(v)
              /\ width = 8 =>
                   ~(Floats[v].single = v /\ ~Half(Floats[v].single)) /\ ~Half(Floats[v].single)

(* The content of a string, and that it is there; a text is refused for a  *)
(* U+FFFD too, which is taken for the trace of what was not UTF-8.         *)
StringEnd(h) == h.at + Value(h.arg)
StringRead(h) == h.ok /\ Definite(h) /\ StringEnd(h) <= Len(buffer) + 1
Replacement == <<239, 191, 189>>
TextRead(h) ==
  /\ StringRead(h) /\ Utf8(SubSeq(buffer, h.at, StringEnd(h) - 1))
  /\ \A k \in h.at..(StringEnd(h) - 3) : SubSeq(buffer, k, k + 2) # Replacement

(* `check_bignum_tag`: the content of tags 2 and 3.                        *)
BignumRead(h) ==
  h.major = 2 /\ StringRead(h) /\ ShortestLength(h) /\ Value(h.arg) > 0 /\ buffer[h.at] # 0 /\ Value(h.arg) > 8

(* `walk_item`: what is asked of an item before its parts are walked.  Of  *)
(* the simple values only four are known.                                  *)
Strict == call.mode # "cbor"
Bignum(h) == h.major = 6 /\ Strict /\ Value(h.arg) \in {2, 3}
HeadAccepted(h) ==
  /\ h.ok
  /\ h.major \in {0, 1} => Definite(h) /\ IntInRange(h) /\ (Strict => ShortestInt(h))
  /\ h.major \in {2, 3, 4, 5} /\ Strict => Definite(h) /\ ShortestLength(h)
  /\ h.major = 2 => StringRead(h)
  /\ h.major = 3 => TextRead(h)
  /\ h.major = 6 => Definite(h) /\ (Bignum(h) => BignumRead(ReadHead(buffer, h.at)))
  /\ h.major = 7 => h.info \in 20..23 \/ (h.info \in 25..27 /\ (Strict => ShortestFloat(h)))
--------------------------------------------------------------------------------
Inner == frames[Len(frames)]
BeginPart == [frames EXCEPT ![Len(frames)].parts = Append(@, at)]

(* The loop at the top level reads one item, or items up to the end.       *)
More ==
  IF Inner.kind = "top" THEN Inner.parts = <<>> \/ (call.sequence /\ at <= Len(buffer))
  ELSE Len(Inner.parts) < Inner.count

Walking == call.fn = "check" /\ pc = "next" /\ More /\ UNCHANGED <<input, way, left, spans>>
Here == ReadHead(buffer, at)

WalkRefused == Walking /\ ~HeadAccepted(Here) /\ pc' = "refused" /\ UNCHANGED <<at, walk>>

(* Items without parts.                                                    *)
WalkLeaf ==
  /\ Walking /\ HeadAccepted(Here) /\ Here.major \in {0, 1, 2, 3, 7}
  /\ at' = IF Here.major \in {2, 3} THEN StringEnd(Here) ELSE Here.at
  /\ frames' = BeginPart /\ found' = With(found, at, [parts |-> <<>>, to |-> at']) /\ pc' = "returned"

WalkBignum ==
  /\ Walking /\ HeadAccepted(Here) /\ Bignum(Here)
  /\ at' = StringEnd(ReadHead(buffer, Here.at))
  /\ found' = With(With(found, Here.at, [parts |-> <<>>, to |-> at']), at, [parts |-> <<Here.at>>, to |-> at'])
  /\ frames' = BeginPart /\ pc' = "returned"

(* A plain check skips an array or map of indefinite length, and drops the *)
(* error if that fails, wherever the decoder stands then.                  *)
WalkIndefinite ==
  /\ Walking /\ HeadAccepted(Here) /\ Here.major \in {4, 5} /\ ~Definite(Here)
  /\ at' \in IF at \in DOMAIN document.tree THEN {document.tree[at].to} ELSE (at + 1)..(Len(buffer) + 1)
  /\ frames' = BeginPart /\ pc' = "returned" /\ UNCHANGED found

(* Arrays, maps and tags: their parts are walked in a loop of their own.   *)
WalkParts ==
  /\ Walking /\ HeadAccepted(Here) /\ ~Bignum(Here)
  /\ \E kind \in {"array", "map", "tag"} :
       /\ Here.major = CASE kind = "array" -> 4 [] kind = "map" -> 5 [] kind = "tag" -> 6
       /\ kind # "tag" => Definite(Here)
       /\ LET count == CASE kind = "array" -> Value(Here.arg) [] kind = "map" -> 2 * Value(Here.arg) [] kind = "tag" -> 1
          IN frames' = Append(BeginPart, Frame(at, kind, count))
  /\ at' = Here.at /\ pc' = "next" /\ UNCHANGED found

(* The end of such a loop.                                                 *)
WalkReturn ==
  /\ call.fn = "check" /\ pc = "next" /\ Inner.kind # "top" /\ ~More
  /\ found' = With(found, Inner.pos, [parts |-> Inner.parts, to |-> at])
  /\ frames' = SubSeq(frames, 1, Len(frames) - 1) /\ pc' = "returned"
  /\ UNCHANGED <<input, at, way, left, spans>>

(* In deterministic mode the bytes of a key have to be above those of the  *)
(* key before.                                                             *)
Key == SubSeq(buffer, Inner.parts[Len(Inner.parts)], at - 1)
AfterKey == Inner.kind = "map" /\ Len(Inner.parts) % 2 = 1
KeyAccepted == call.mode = "dtrm" => \A key \in Inner.previous : Bytewise(key, Key)
WalkNext ==
  /\ call.fn = "check" /\ pc = "returned" /\ (AfterKey => KeyAccepted)
  /\ frames' = (IF AfterKey THEN [frames EXCEPT ![Len(frames)].previous = {Key}] ELSE frames)
  /\ pc' = "next" /\ UNCHANGED <<input, at, found, way, left, spans>>
KeyRefused ==
  /\ call.fn = "check" /\ pc = "returned" /\ AfterKey /\ ~KeyAccepted
  /\ pc' = "refused" /\ UNCHANGED <<input, at, walk, way, left, spans>>

(* The end of the loop at the top level; one item alone has to be all.     *)
CheckReturn ==
  /\ call.fn = "check" /\ pc = "next" /\ Inner.kind = "top" /\ ~More
  /\ pc' = (IF at > Len(buffer) THEN "accepted" ELSE "refused")
  /\ UNCHANGED <<input, at, walk, way, left, spans>>

CheckSerialization ==
  \/ WalkRefused \/ WalkLeaf \/ WalkBignum \/ WalkIndefinite \/ WalkParts
  \/ WalkReturn \/ WalkNext \/ KeyRefused \/ CheckReturn
--------------------------------------------------------------------------------
(* External: minicbor skips what is an item.                               *)
Skips(from) == from \in DOMAIN document.tree
SkipEnd(from) == document.tree[from].to

(* Mutant: a map's parts are counted as if they were its entries.          *)
PartsBeforeEntries(step) == IF step[1] = "value" THEN step[2] + 1 ELSE step[2]

(* `SerializationPathStep`: the parts that stand before the one it means.  *)
PartsBefore(step) ==
  CASE step[1] \in {"top", "item"} -> step[2]
    [] step[1] = "key" -> 2 * step[2]
    [] step[1] = "value" -> 2 * step[2] + 1
    [] step[1] = "inner" -> 0

(* `locate_item`: a step enters the item at the position, unless its kind  *)
(* or the number of its parts is another one.                              *)
Enters(step, h) ==
  CASE step[1] = "top" -> TRUE
    [] step[1] = "item" -> h.ok /\ h.major = 4 /\ (Definite(h) => step[2] < Value(h.arg))
    [] step[1] \in {"key", "value"} -> h.ok /\ h.major = 5 /\ (Definite(h) => step[2] < Value(h.arg))
    [] step[1] = "inner" -> h.ok /\ h.major = 6 /\ Definite(h)
Locating == call.fn = "locate" /\ UNCHANGED <<input, walk>>
LocateEnter ==
  /\ Locating /\ pc = "step" /\ rest # <<>> /\ Enters(rest[1], Here)
  /\ at' = (IF rest[1][1] = "top" THEN at ELSE Here.at)
  /\ left' = PartsBefore(rest[1]) /\ open' = (rest[1][1] \in {"item", "key", "value"} /\ ~Definite(Here))
  /\ pc' = "skip" /\ UNCHANGED <<rest, trail, spans>>

(* Before each item and each entry a break is looked for.                  *)
AtEntry ==
  \/ rest[1][1] = "item"
  \/ rest[1][1] = "key" /\ left % 2 = 0
  \/ rest[1][1] = "value" /\ left % 2 = 1
AtBreak == open /\ AtEntry /\ (at > Len(buffer) \/ buffer[at] = Break)
LocateSkip ==
  /\ Locating /\ pc = "skip" /\ ~AtBreak /\ left > 0 /\ Skips(at)
  /\ at' = SkipEnd(at) /\ left' = left - 1 /\ UNCHANGED <<way, spans, pc>>
LocateArrive ==
  /\ Locating /\ pc = "skip" /\ ~AtBreak /\ left = 0
  /\ rest' = Tail(rest) /\ trail' = Append(trail, at) /\ pc' = "step" /\ UNCHANGED <<at, open, left, spans>>

LocateFound ==
  /\ Locating /\ pc = "step" /\ rest = <<>> /\ Skips(at)
  /\ spans' = <<[from |-> at, to |-> SkipEnd(at)]>> /\ at' = SkipEnd(at) /\ pc' = "span" /\ UNCHANGED <<way, left>>
LocateRefused ==
  /\ Locating
  /\ \/ pc = "step" /\ rest # <<>> /\ ~Enters(rest[1], Here)
     \/ pc = "skip" /\ (AtBreak \/ (left > 0 /\ ~Skips(at)))
     \/ pc = "step" /\ rest = <<>> /\ ~Skips(at)
  /\ pc' = "nowhere" /\ UNCHANGED <<at, way, left, spans>>
ItemSpanAtPath == LocateEnter \/ LocateSkip \/ LocateArrive \/ LocateFound \/ LocateRefused
--------------------------------------------------------------------------------
(* `DecodeCtx::try_check`: whether decoding may go on, or stop, after a    *)
(* rule; a handler may do either when the rule is broken.                  *)
Passes(holds) == holds \/ call.context \in {"lenient", "handled"}
Stops(holds) == ~holds /\ call.context # "lenient"

(* `check_map_minimal_length`, `check_array_minimal_length`: a number in   *)
(* one byte that fits in the head, but for zero.                           *)
MinimalLength(h) == Value(h.arg) = 0 \/ ~(h.info = 24 /\ Value(h.arg) <= 23)

(* `get_cbor_header_size`, `get_declared_length`, which only strings have. *)
HeaderSize(h) == CASE h.info = 24 -> 2 [] h.info = 25 -> 3 [] h.info = 26 -> 5 [] h.info = 27 -> 9 [] OTHER -> 1
KeyIsDeterministic(from, to) ==
  LET h == ReadHead(buffer, from)
  IN h.major \in {2, 3} =>
       /\ StringRead(h) /\ StringEnd(h) <= to
       /\ h.major = 3 => Utf8(SubSeq(buffer, h.at, StringEnd(h) - 1))
       /\ to - from - HeaderSize(h) = Value(h.arg)

Span(from, to) == [from |-> from, to |-> to]
BytesOf(span) == SubSeq(buffer, span.from, span.to - 1)

(* Mutant: keys are compared, and may be equal.                            *)
KeysMayRepeat ==
  \A k \in 1..((Len(spans) \div 2) - 1) : ~LengthFirst(BytesOf(spans[2 * k + 1]), BytesOf(spans[2 * k - 1]))

(* `validate_map_ordering`, `validate_array_ordering`: neighbours, shorter *)
(* ones first.                                                             *)
KeysOrdered ==
  \A k \in 1..((Len(spans) \div 2) - 1) : LengthFirst(BytesOf(spans[2 * k - 1]), BytesOf(spans[2 * k + 1]))
ElementsOrdered ==
  \A k \in 1..(Len(spans) - 1) : ~LengthFirst(BytesOf(spans[k + 1]), BytesOf(spans[k]))

Decoding == call.fn \in {"map", "array"} /\ UNCHANGED <<input, walk, way>>
Entered(h) == h.ok /\ h.major = (IF call.fn = "map" THEN 5 ELSE 4) /\ Definite(h)
DecodeHead ==
  /\ Decoding /\ pc = "head" /\ Entered(Here) /\ Passes(MinimalLength(Here))
  /\ at' = Here.at /\ left' = Value(Here.arg) /\ pc' = "entry" /\ UNCHANGED spans

(* `decode_map_entries`, `decode_array_elements`: one entry or element.    *)
SkipsEntry == Skips(at) /\ Skips(SkipEnd(at))
DecodeEntry ==
  /\ Decoding /\ pc = "entry" /\ call.fn = "map" /\ left > 0
  /\ SkipsEntry /\ Passes(KeyIsDeterministic(at, SkipEnd(at)))
  /\ at' = SkipEnd(SkipEnd(at)) /\ left' = left - 1
  /\ spans' = spans \o <<Span(at, SkipEnd(at)), Span(SkipEnd(at), at')>> /\ UNCHANGED pc
DecodeElement ==
  /\ Decoding /\ pc = "entry" /\ call.fn = "array" /\ left > 0 /\ Skips(at)
  /\ at' = SkipEnd(at) /\ left' = left - 1 /\ spans' = Append(spans, Span(at, at')) /\ UNCHANGED pc

(* `Map::decode`, `Array::decode`.                                         *)
OrderHolds ==
  IF call.fn = "map" THEN KeysOrdered ELSE call.context = "array-deterministic" => ElementsOrdered
DecodeReturn ==
  /\ Decoding /\ pc = "entry" /\ left = 0 /\ Passes(OrderHolds)
  /\ pc' = "decoded" /\ UNCHANGED <<at, left, spans>>
DecodeRefused ==
  /\ Decoding
  /\ \/ pc = "head" /\ (Entered(Here) => Stops(MinimalLength(Here)))
     \/ pc = "entry" /\ left > 0 /\ call.fn = "map" /\ (SkipsEntry => Stops(KeyIsDeterministic(at, SkipEnd(at))))
     \/ pc = "entry" /\ left > 0 /\ call.fn = "array" /\ ~Skips(at)
     \/ pc = "entry" /\ left = 0 /\ Stops(OrderHolds)
  /\ pc' = "refused" /\ UNCHANGED <<at, left, spans>>
Decode == DecodeHead \/ DecodeEntry \/ DecodeElement \/ DecodeReturn \/ DecodeRefused

Next == CheckSerialization \/ ItemSpanAtPath \/ Decode
Spec == Init /\ [][Next]_vars
--------------------------------------------------------------------------------
(* What the strict walk can read: negative integers of 63 bits, text with  *)
(* no U+FFFD, four simple values, and no double that has no shorter form   *)
(* while the single nearest to it has one.                                 *)
LostDouble(v) == 4 \notin DOMAIN Floats[v].forms /\ Half(Floats[v].single)
Readable(p) ==
  LET h == ReadHead(buffer, p)
  IN /\ h.major = 1 => IntInRange(h)
     /\ h.major = 3 => TextRead(h)
     /\ h.major = 7 =>
          \/ h.info \in 20..23
          \/ h.info \in 25..27 /\ \A v \in FloatsOf(h) : Floats[v].class = "finite" /\ Len(h.arg) = 8 => ~LostDouble(v)

(* A document in the form that a mode asks for.                            *)
Canonical(doc, mode) ==
  /\ Whole(buffer, doc)
  /\ \A p \in DOMAIN doc.tree :
       /\ Shortest(buffer, doc.tree, p) /\ Readable(p)
       /\ mode = "dtrm" => Ordered(buffer, doc.tree, p)

(* The strict checks accept a buffer exactly if it is items in their one   *)
(* canonical form, at every level of nesting and at every boundary of the  *)
(* widths, with the keys of every map ascending, neighbours or not, and    *)
(* nothing after them (serialization_checker.rs 128, 306).                 *)
CanonicalOnly ==
  call.fn = "check" /\ Strict =>
    LET fits(doc) == Canonical(doc, call.mode) /\ (call.sequence \/ Len(doc.tops) = 1)
    IN /\ pc = "accepted" => fits([tree |-> found, tops |-> frames[1].parts])
       /\ pc = "refused" => ~fits(document)

(* The part of an item, or of the whole, that a step means.                *)
Part(p, step) ==
  LET major == ReadHead(buffer, p).major
      nth(list, n) == {list[k] : k \in DOMAIN list \cap {n}}
  IN CASE step[1] = "top" -> nth(document.tops, step[2] + 1)
       [] step[1] = "item" -> IF major = 4 THEN nth(document.tree[p].parts, step[2] + 1) ELSE {}
       [] step[1] = "key" -> IF major = 5 THEN nth(document.tree[p].parts, 2 * step[2] + 1) ELSE {}
       [] step[1] = "value" -> IF major = 5 THEN nth(document.tree[p].parts, 2 * step[2] + 2) ELSE {}
       [] step[1] = "inner" -> IF major = 6 THEN nth(document.tree[p].parts, 1) ELSE {}
Before(k) == IF k = 1 THEN 0 ELSE trail[k - 1]
Led(k) == k \in DOMAIN trail /\ trail[k] \in Part(Before(k), call.path[k])

(* What a path finds in a whole buffer are the bytes of the part that the  *)
(* path means, through tags and containers of definite and of indefinite   *)
(* length, and only a path that leads nowhere finds nothing                *)
(* (serialization_checker.rs 189, `item_span_at_path`).                    *)
SpansFound ==
  call.fn = "locate" /\ Whole(buffer, document) =>
    /\ pc = "span" =>
         /\ Len(trail) = Len(call.path) /\ \A k \in DOMAIN call.path : Led(k)
         /\ LET p == trail[Len(trail)] IN spans = <<Span(p, document.tree[p].to)>>
    /\ pc = "nowhere" =>
         \E k \in DOMAIN call.path : (\A j \in 1..(k - 1) : Led(j)) /\ Part(Before(k), call.path[k]) = {}

(* A decoded map or array is the item that its head announces, and holds   *)
(* the very bytes of its parts, one after the other; in a deterministic    *)
(* context no two keys of a map, neighbours or not, are equal or out of    *)
(* order (`Map::decode`, `Array::decode`).                                 *)
DecodedIsExact ==
  call.fn \in {"map", "array"} /\ pc = "decoded" =>
    LET item == [parts |-> [k \in DOMAIN spans |-> spans[k].from], to |-> at]
        tree == With(document.tree, 1, item)
    IN /\ Structured(buffer, tree, 1)
       /\ \A k \in DOMAIN spans : spans[k].to = tree[spans[k].from].to
       /\ call.fn = "map" /\ call.context \in {"deterministic", "array-deterministic"} =>
            Ascending(Keys(buffer, tree, 1), LengthFirst)

(* Of the rules for deterministic encoding the decoders ask these: that a  *)
(* length from 1 to 23 is not written in one byte, that no key is a string *)
(* in pieces, and that keys are in order.  (map.rs 152, `map_keys_are_     *)
(* deterministic`.)  Lengths in two bytes or more, a zero in any form, and *)
(* keys, values and elements in wider forms pass, although map.rs 110-122, *)
(* 158-162 and array.rs 61-63 say that lengths have to be minimal and keys *)
(* and elements deterministic: B8 00, B9 00 01 and the key 18 01 are       *)
(* decoded, and the check refuses them.                                    *)
WhatIsAsked ==
  call.fn \in {"map", "array"} /\ pc = "decoded" /\ call.context \in {"deterministic", "array-deterministic"} =>
    /\ LET h == ReadHead(buffer, 1) IN h.info = 24 => Value(h.arg) \notin 1..23
    /\ call.fn = "map" =>
         \A k \in 1..(Len(spans) \div 2) :
           LET h == ReadHead(buffer, spans[2 * k - 1].from) IN h.major \in {2, 3} => Definite(h)

(* The other way round the decoders refuse no more than the check does but *)
(* for the order of keys: a map in the form that the deterministic check   *)
(* accepts is decoded unless two keys differ in length (map.rs 260,        *)
(* serialization_checker.rs 407).                                          *)
FormsAgree ==
  call.fn = "map" /\ pc = "refused" /\ ReadHead(buffer, 1).major = 5 =>
    \/ ~Canonical(document, "dtrm") \/ Len(document.tops) # 1
    \/ LET keys == Keys(buffer, document.tree, 1) IN \E k, l \in DOMAIN keys : Len(keys[k]) # Len(keys[l])

(* The decoders hand out what is there, hold to the rules that they ask    *)
(* (fewer than their comments name), and refuse no map that the check      *)
(* accepts but for the order of keys of different lengths.                 *)
DecodersExact == DecodedIsExact /\ WhatIsAsked /\ FormsAgree
================================================================================
