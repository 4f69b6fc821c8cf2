----------------------- MODULE ConstantResolutionProofs -----------------------
(***************************************************************************)
(* Proofs about ConstantResolution for every set of programs: its types,   *)
(* that a resolved entry is final, that every value in the cache is what   *)
(* its definition evaluates to (Justified), that a rule is reported only   *)
(* for another source of its name, that the loop stops at a fixpoint       *)
(* (FixInv), and that the fixpoint is the meaning of the program (Meant,   *)
(* with the lemmas on rounds of evaluation).  All rest on evaluation being *)
(* monotone: an alternative that has a value keeps it while the cache only *)
(* gains entries.                                                          *)
(***************************************************************************)
EXTENDS ConstantResolution, FiniteSetTheorems, Induction, TLAPS

(* Cache d keeps every value that cache c has.                             *)
Extends(c, d) == \A n \in Names : IsResolved(c[n].state) => d[n] = c[n]

LEMMA NoneIsNoValue == None \notin Value /\ Absent \notin Value
                       /\ Unresolved \notin Value /\ Pruned \notin Value
BY DEF None, Absent, Unresolved, Pruned, Value, Scalar, Number, RangeValue

(* Leaf values are values or None.                                         *)
LEMMA LeafValueType ==
  ASSUME NEW c \in Cache, NEW x \in Operand
  PROVE  LeafValue(c, x) \in Value \cup {None}
<1>1. CASE x.kind = "ref"
  <2>1. Infinity \in Value /\ NaN \in Value
    BY DEF Infinity, NaN, Value, Scalar, Number
  <2>. QED BY <1>1, <2>1 DEF LeafValue, IsResolved
<1>2. CASE x.kind # "ref"
  <2>1. x.value \in Scalar
    BY <1>2 DEF Operand
  <2>. QED BY <1>2, <2>1 DEF LeafValue, Value
<1>. QED BY <1>1, <1>2

(* What the values of each family are.                                     *)
LEMMA ValuesByKind ==
  ASSUME NEW v \in Value \cup {None}
  PROVE  /\ IsNumber(v) => v \in Number
         /\ v.kind = "int" => v.val \in 0..MaxInt
         /\ v.kind = "float" => v.val \in Nat
         /\ v.kind = "inf" => v = Infinity
         /\ v.kind = "-inf" => v = MinInfinity
         /\ v.kind = "nan" => v = NaN
         /\ v.kind \in {"text", "bytes", "blob"} => v.val \in Nat
<1>1. CASE v \in Number
  BY <1>1 DEF Number, Infinity, MinInfinity, NaN
<1>2. CASE v \notin Number
  <2>1. v.kind \in {"text", "bytes", "blob", "range_int", "range_float", "none"}
    BY <1>2 DEF Value, Scalar, RangeValue, None
  <2>2. v.kind \in {"text", "bytes", "blob"} => v.val \in Nat
    BY <1>2 DEF Value, Scalar, RangeValue, None
  <2>. QED BY <2>1, <2>2 DEF IsNumber, IsFloat
<1>. QED BY <1>1, <1>2

(* What a range and a control operator make of two operands.               *)
LEMMA RangeOfType ==
  ASSUME NEW a \in Alternative, NEW l \in Value \cup {None}, NEW r \in Value \cup {None}
  PROVE  RangeOf(a, l, r) \in Value \cup {None}
<1>1. CASE IsNumber(l) /\ IsNumber(r)
  <2>1. l \in Number /\ r \in Number /\ a.exclusive \in BOOLEAN
    BY <1>1, ValuesByKind DEF Alternative
  <2>. QED BY <2>1 DEF RangeOf, Value, RangeValue
<1>2. CASE ~(IsNumber(l) /\ IsNumber(r))
  BY <1>2 DEF RangeOf, IsNumber
<1>. QED BY <1>1, <1>2

(* A sum of integers stays in the width of an integer.                     *)
LEMMA PlusOfType ==
  ASSUME NEW l \in Value \cup {None}, NEW r \in Value \cup {None}
  PROVE  PlusOf(l, r) \in Value \cup {None}
<1> SUFFICES ASSUME IsNumber(l), IsNumber(r) PROVE PlusOf(l, r) \in Value \cup {None}
  BY DEF PlusOf
<1>1. CASE IsFloat(l) \/ IsFloat(r)
  <2>1. l.val \in Nat /\ r.val \in Nat
    <3>1. l \in Number /\ r \in Number
      BY ValuesByKind
    <3>. QED BY <3>1, MaxIntAssumption DEF Number
  <2>2. l.val + r.val \in Nat
    BY <2>1
  <2>3. FloatSum(l, r) \in Number
    BY <2>2 DEF FloatSum, Number, NaN, Infinity, MinInfinity
  <2>. QED BY <1>1, <2>3 DEF PlusOf, Value, Scalar
<1>2. CASE ~(IsFloat(l) \/ IsFloat(r))
  <2>1. l.val \in 0..MaxInt /\ r.val \in 0..MaxInt
    BY <1>2, ValuesByKind DEF IsNumber
  <2>2. l.val + r.val <= MaxInt => l.val + r.val \in 0..MaxInt
    BY <2>1, MaxIntAssumption
  <2>. QED BY <1>2, <2>2 DEF PlusOf, Value, Scalar, Number
<1>. QED BY <1>1, <1>2

LEMMA CtlopOfType ==
  ASSUME NEW a \in Alternative, NEW l \in Value \cup {None}, NEW r \in Value \cup {None}
  PROVE  CtlopOf(a, l, r) \in Value \cup {None}
<1>1. CASE a.op = "plus"
  BY <1>1, PlusOfType DEF CtlopOf
<1>2. CASE a.op = "cat"
  <2>1. CASE IsUtf8(l) /\ IsUtf8(r)
    <3>1. l.val \in Nat /\ r.val \in Nat
      BY <2>1, ValuesByKind DEF IsUtf8
    <3>2. l.val + r.val \in Nat
      BY <3>1
    <3>. QED BY <1>2, <2>1, <3>2 DEF CtlopOf, CatOf, Value, Scalar
  <2>2. CASE ~(IsUtf8(l) /\ IsUtf8(r))
    BY <1>2, <2>2 DEF CtlopOf, CatOf
  <2>. QED BY <2>1, <2>2
<1>3. CASE a.op = "encode"
  <2>1. CASE IsBytes(r)
    <3>1. r.val \in Nat
      BY <2>1, ValuesByKind DEF IsBytes
    <3>. QED BY <1>3, <2>1, <3>1 DEF CtlopOf, EncodingOf, Value, Scalar
  <2>2. CASE ~IsBytes(r)
    BY <1>3, <2>2 DEF CtlopOf, EncodingOf
  <2>. QED BY <2>1, <2>2
<1>4. CASE a.op \notin {"plus", "cat", "encode"}
  BY <1>4 DEF CtlopOf
<1>. QED BY <1>1, <1>2, <1>3, <1>4

LEMMA AltValueType ==
  ASSUME NEW c \in Cache, NEW a \in Alternative
  PROVE  AltValue(c, a) \in Value \cup {None}
<1>1. a.lhs \in Operand /\ a.rhs \in Operand /\ a.op \in Ops
  BY DEF Alternative
<1>2. CASE a.op = "operand"
  <2>1. CASE a.lhs.kind # "ref"
    <3>1. a.lhs.value \in Scalar
      BY <1>1, <2>1 DEF Operand
    <3>. QED BY <1>2, <2>1, <3>1 DEF AltValue, Value
  <2>2. CASE a.lhs.kind = "ref"
    BY <1>2, <2>2 DEF AltValue, IsResolved
  <2>. QED BY <2>1, <2>2
<1>3. CASE a.op = "range"
  BY <1>1, <1>3, LeafValueType, RangeOfType DEF AltValue
<1>4. CASE a.op \notin {"operand", "range"}
  BY <1>1, <1>4, LeafValueType, CtlopOfType DEF AltValue
<1>. QED BY <1>2, <1>3, <1>4

(* An operand that has a value, and not because its name is spelled like a *)
(* float, keeps it.                                                        *)
LEMMA LeafValueMonotone ==
  ASSUME NEW c \in Cache, NEW d \in Cache, Extends(c, d),
         NEW x \in Operand, ~(x.kind = "ref" /\ x.name \in FloatWords),
         LeafValue(c, x) # None
  PROVE  LeafValue(d, x) = LeafValue(c, x)
<1>1. CASE x.kind = "ref"
  <2>1. x.name \in Names
    BY <1>1 DEF Operand
  <2>2. IsResolved(c[x.name].state)
    BY <1>1 DEF LeafValue, FloatWords
  <2>3. d[x.name] = c[x.name]
    BY <2>1, <2>2 DEF Extends
  <2>. QED BY <1>1, <2>2, <2>3 DEF LeafValue
<1>2. CASE x.kind # "ref"
  BY <1>2 DEF LeafValue
<1>. QED BY <1>1, <1>2

(* Every operator needs the values of the operands it reads.               *)
LEMMA OperatorsAreStrict ==
  ASSUME NEW a \in Alternative, NEW l \in Value \cup {None}, NEW r \in Value \cup {None}
  PROVE  /\ RangeOf(a, l, r) # None => l # None /\ r # None
         /\ CtlopOf(a, l, r) # None => r # None /\ (a.op # "encode" => l # None)
         /\ a.op = "encode" =>
              \A k \in Value \cup {None} : CtlopOf(a, k, r) = CtlopOf(a, l, r)
BY DEF RangeOf, CtlopOf, PlusOf, CatOf, EncodingOf, IsNumber, IsFloat, IsUtf8, IsBytes, None

LEMMA AltValueMonotone ==
  ASSUME NEW c \in Cache, NEW d \in Cache, Extends(c, d),
         NEW a \in Alternative, ~MentionsFloatWord(a), AltValue(c, a) # None
  PROVE  AltValue(d, a) = AltValue(c, a)
<1> DEFINE l(x) == LeafValue(x, a.lhs)
           r(x) == LeafValue(x, a.rhs)
<1>1. a.lhs \in Operand /\ a.rhs \in Operand /\ a.op \in Ops
  BY DEF Alternative
<1>2. /\ ~(a.lhs.kind = "ref" /\ a.lhs.name \in FloatWords)
      /\ ~(a.rhs.kind = "ref" /\ a.rhs.name \in FloatWords)
  BY DEF MentionsFloatWord
<1>3. /\ l(c) # None => l(d) = l(c)
      /\ r(c) # None => r(d) = r(c)
  BY <1>1, <1>2, LeafValueMonotone
<1>4. /\ l(c) \in Value \cup {None} /\ r(c) \in Value \cup {None}
      /\ l(d) \in Value \cup {None} /\ r(d) \in Value \cup {None}
  BY <1>1, LeafValueType
<1>5. CASE a.op = "operand"
  <2>1. CASE a.lhs.kind # "ref"
    BY <1>5, <2>1 DEF AltValue
  <2>2. CASE a.lhs.kind = "ref"
    <3>1. a.lhs.name \in Names
      BY <1>1, <2>2 DEF Operand
    <3>2. IsResolved(c[a.lhs.name].state)
      BY <1>5, <2>2 DEF AltValue
    <3>3. d[a.lhs.name] = c[a.lhs.name]
      BY <3>1, <3>2 DEF Extends
    <3>. QED BY <1>5, <2>2, <3>2, <3>3 DEF AltValue
  <2>. QED BY <2>1, <2>2
<1>6. CASE a.op = "range"
  <2>1. RangeOf(a, l(c), r(c)) # None
    BY <1>6 DEF AltValue
  <2>2. l(d) = l(c) /\ r(d) = r(c)
    BY <1>3, <1>4, <2>1, OperatorsAreStrict
  <2>. QED BY <1>6, <2>2 DEF AltValue
<1>7. CASE a.op \notin {"operand", "range"}
  <2>1. CtlopOf(a, l(c), r(c)) # None
    BY <1>7 DEF AltValue
  <2>2. r(d) = r(c) /\ (a.op # "encode" => l(d) = l(c))
    BY <1>3, <1>4, <2>1, OperatorsAreStrict
  <2>3. CtlopOf(a, l(d), r(d)) = CtlopOf(a, l(c), r(c))
    BY <1>4, <2>2, OperatorsAreStrict
  <2>. QED BY <1>7, <2>3 DEF AltValue
<1>. QED BY <1>5, <1>6, <1>7
-------------------------------------------------------------------------------
(* What the cache calls do to the cache.                                   *)
LEMMA ResolveExtends ==
  ASSUME NEW c \in Cache, NEW n \in Names, NEW v \in Value, NEW i \in Nat
  PROVE  LET d == ResolveWithOrigin(c, n, v, i)
         IN /\ d \in Cache /\ Extends(c, d)
            /\ \A m \in Names \ {n} : d[m] = c[m]
            /\ d[n] = c[n] \/ d[n] = [state |-> v, origin |-> i]
BY NoneIsNoValue DEF ResolveWithOrigin, Cache, Entry, State, Extends, IsResolved

LEMMA ExtendsTransitive ==
  ASSUME NEW c \in Cache, NEW d \in Cache, NEW e \in Cache, Extends(c, d), Extends(d, e)
  PROVE  Extends(c, e)
BY DEF Extends

(* The rules of a program are rules.                                       *)
LEMMA CurrentIsRule ==
  ASSUME TypeOK, node <= Len(program)
  PROVE  /\ node \in 1..Len(program) /\ current \in Rule /\ current.name \in Names
         /\ Len(current.alts) \in Nat
         /\ \A j \in 1..Len(current.alts) : current.alts[j] \in Alternative
<1>1. program \in Seq(Rule)
  BY ProgramsAssumption DEF TypeOK
<1>2. node \in 1..Len(program)
  BY <1>1 DEF TypeOK
<1>3. current \in Rule
  BY <1>1, <1>2 DEF current
<1>4. current.name \in Names /\ current.alts \in Seq(Alternative)
  BY <1>3 DEF Rule
<1>. QED BY <1>2, <1>3, <1>4

(* Cache d is c with entries added, none of them resolved.                 *)
Touched(c, d) ==
  /\ d \in Cache /\ Extends(c, d)
  /\ \A m \in Names : IsResolved(d[m].state) => d[m] = c[m]
  /\ \A m \in Names : d[m] = c[m] \/ (c[m].state = Absent /\ d[m].state = Unresolved)

LEMMA TouchedSelf == ASSUME NEW c \in Cache PROVE Touched(c, c)
BY DEF Touched, Extends

LEMMA GetTouches ==
  ASSUME NEW c \in Cache, NEW n \in Names
  PROVE  Touched(c, Get(c, n)) /\ Get(c, n)[n].state # Absent
BY NoneIsNoValue DEF Get, Cache, Entry, State, Extends, IsResolved, NoOrigin, Touched,
   Absent, Unresolved

LEMMA TouchedTransitive ==
  ASSUME NEW c \in Cache, NEW d, NEW e, Touched(c, d), Touched(d, e)
  PROVE  Touched(c, e)
BY DEF Touched, Extends, Absent, Unresolved

(* The seed pass touches entries without resolving one.                    *)
LEMMA SeedTouches ==
  ASSUME TypeOK, node <= Len(program)
  PROVE  Touched(cache, SeedTouched(cache, current))
<1>1. cache \in Cache /\ current.name \in Names
  BY CurrentIsRule DEF TypeOK
<1> DEFINE own == Get(cache, current.name)
<1>2. Touched(cache, own)
  BY <1>1, GetTouches
<1>3. CASE IsLeaf(current) /\ current.alts[1].lhs.kind = "ref"
  <2> DEFINE x == current.alts[1].lhs
  <2>1. current.alts[1] \in Alternative
    BY <1>3, CurrentIsRule DEF IsLeaf
  <2>2. x \in Operand
    BY <2>1 DEF Alternative
  <2>3. x.name \in Names
    BY <1>3, <2>2 DEF Operand
  <2>4. SeedTouched(cache, current) = Get(own, x.name)
    BY <1>3 DEF SeedTouched
  <2> HIDE DEF own
  <2>5. Touched(own, Get(own, x.name))
    BY <1>2, <2>3, GetTouches DEF Touched
  <2>. QED BY <1>1, <1>2, <2>4, <2>5, TouchedTransitive
<1>4. CASE ~(IsLeaf(current) /\ current.alts[1].lhs.kind = "ref")
  BY <1>2, <1>4 DEF SeedTouched
<1>. QED BY <1>3, <1>4
-------------------------------------------------------------------------------
(* The cache in which a step evaluates: as it is, or touched by the seed   *)
(* pass.                                                                   *)
Prepared(c) ==
  c = cache \/ (node <= Len(program) /\ current.define /\ c = SeedTouched(cache, current))

LEMMA PreparedIsTouched ==
  ASSUME TypeOK, NEW c, Prepared(c)
  PROVE  Touched(cache, c)
BY SeedTouches, TouchedSelf DEF Prepared, TypeOK

(* What a step that writes does: it gives the current rule's name the      *)
(* value that one of its alternatives has.                                 *)
Folding(c, v, j) ==
  /\ node <= Len(program) /\ current.define
  /\ j \in 1..Len(current.alts)
  /\ Prepared(c)
  /\ v \in Value /\ v = AltValue(c, current.alts[j])
  /\ cache' = ResolveWithOrigin(c, current.name, v, node)

LEMMA SeedEffect ==
  ASSUME TypeOK, Seed
  PROVE  Prepared(cache') \/ \E c, v, j : Folding(c, v, j)
<1> DEFINE c == SeedTouched(cache, current)
           v == IF IsLeaf(current) THEN AltValue(c, current.alts[1]) ELSE None
<1>1. node <= Len(program)
  BY DEF Seed, Visiting
<1>2. current.define => Prepared(c)
  BY <1>1 DEF Prepared
<1>3. CASE ~current.define
  BY <1>3 DEF Seed, Prepared
<1>4. CASE current.define /\ v = None
  BY <1>2, <1>4 DEF Seed
<1>5. CASE current.define /\ v # None
  <2>1. 1 \in 1..Len(current.alts) /\ current.alts[1] \in Alternative
    BY <1>1, <1>5, CurrentIsRule DEF IsLeaf
  <2>2. v = AltValue(c, current.alts[1])
    BY <1>5
  <2>3. v \in Value
    BY <1>2, <1>5, <2>1, <2>2, AltValueType, PreparedIsTouched DEF Touched
  <2>4. cache' = ResolveWithOrigin(c, current.name, v, node)
    BY <1>5 DEF Seed, SeedWrite
  <2> HIDE DEF c, v
  <2>5. Folding(c, v, 1)
    BY <1>1, <1>2, <1>5, <2>1, <2>2, <2>3, <2>4 DEF Folding
  <2>. QED BY <2>5
<1>. QED BY <1>3, <1>4, <1>5

LEMMA RangeAltEffect ==
  ASSUME TypeOK, RangeAlt
  PROVE  Prepared(cache') \/ \E c, v, j : Folding(c, v, j)
<1> DEFINE a == current.alts[alt]
           v == RangeOf(a, LeafValue(cache, a.lhs), LeafValue(cache, a.rhs))
<1>1. node <= Len(program) /\ current.define /\ alt \in 1..Len(current.alts)
  BY CurrentIsRule DEF RangeAlt, Visiting, MoreAlts, TypeOK
<1>2. a \in Alternative /\ cache \in Cache /\ Prepared(cache)
  BY <1>1, CurrentIsRule DEF TypeOK, Prepared
<1>3. CASE a.op = "range" /\ v # None
  <2>1. v = AltValue(cache, a)
    BY <1>3 DEF AltValue
  <2>2. v \in Value
    BY <1>2, <1>3, <2>1, AltValueType
  <2>3. cache' = ResolveWithOrigin(cache, current.name, v, node)
    BY <1>3 DEF RangeAlt, Write
  <2> HIDE DEF v
  <2>4. Folding(cache, v, alt)
    BY <1>1, <1>2, <2>1, <2>2, <2>3 DEF Folding
  <2>. QED BY <2>4
<1>4. CASE ~(a.op = "range" /\ v # None)
  <2>1. cache' = cache
    BY <1>4 DEF RangeAlt
  <2>. QED BY <1>2, <2>1
<1>. QED BY <1>3, <1>4

LEMMA CtlopAltEffect ==
  ASSUME TypeOK, CtlopAlt
  PROVE  Prepared(cache') \/ \E c, v, j : Folding(c, v, j)
<1> DEFINE a == current.alts[alt]
           v == CtlopOf(a, LeafValue(cache, a.lhs), LeafValue(cache, a.rhs))
<1>1. node <= Len(program) /\ current.define /\ alt \in 1..Len(current.alts)
  BY CurrentIsRule DEF CtlopAlt, Visiting, MoreAlts, TypeOK
<1>2. a \in Alternative /\ cache \in Cache /\ Prepared(cache)
  BY <1>1, CurrentIsRule DEF TypeOK, Prepared
<1>3. CASE v # None
  <2>1. a.op \notin {"operand", "range"}
    BY <1>3 DEF CtlopOf, PlusOf, CatOf, EncodingOf
  <2>2. v = AltValue(cache, a)
    BY <2>1 DEF AltValue
  <2>3. v \in Value
    BY <1>2, <1>3, <2>2, AltValueType
  <2>4. cache' = ResolveWithOrigin(cache, current.name, v, node)
    BY <1>3 DEF CtlopAlt, Write
  <2> HIDE DEF v
  <2>5. Folding(cache, v, alt)
    BY <1>1, <1>2, <2>2, <2>3, <2>4 DEF Folding
  <2>. QED BY <2>5
<1>4. CASE v = None
  <2>1. cache' = cache
    BY <1>4 DEF CtlopAlt
  <2>. QED BY <1>2, <2>1
<1>. QED BY <1>3, <1>4

(* Every step but the end of an iteration touches entries or folds an      *)
(* alternative.                                                            *)
LEMMA CacheEffect ==
  ASSUME TypeOK, [Next]_vars
  PROVE  Prepared(cache') \/ \E c, v, j : Folding(c, v, j)
<1>1. CASE cache' = cache
  BY <1>1 DEF Prepared
<1>2. CASE Seed
  BY <1>2, SeedEffect
<1>3. CASE RangeAlt
  BY <1>3, RangeAltEffect
<1>4. CASE CtlopAlt
  BY <1>4, CtlopAltEffect
<1>. QED BY <1>1, <1>2, <1>3, <1>4 DEF Next, RangeEnd, CtlopEnd, EndIteration, vars

LEMMA FoldingExtends ==
  ASSUME TypeOK, NEW c, NEW v, NEW j, Folding(c, v, j)
  PROVE  /\ cache' \in Cache /\ Extends(cache, cache') /\ Extends(c, cache')
         /\ \A m \in Names \ {current.name} : cache'[m] = c[m]
         /\ \/ cache'[current.name] = c[current.name]
            \/ cache'[current.name] = [state |-> v, origin |-> node]
<1>1. c \in Cache /\ v \in Value /\ current.name \in Names /\ node \in Nat
  BY CurrentIsRule, PreparedIsTouched DEF Folding, Touched
<1>2. /\ cache' \in Cache /\ Extends(c, cache')
      /\ \A m \in Names \ {current.name} : cache'[m] = c[m]
      /\ \/ cache'[current.name] = c[current.name]
         \/ cache'[current.name] = [state |-> v, origin |-> node]
  BY <1>1, ResolveExtends DEF Folding
<1>3. Extends(cache, cache')
  BY <1>1, <1>2, ExtendsTransitive, PreparedIsTouched DEF Folding, Touched, TypeOK
<1>. QED BY <1>2, <1>3

LEMMA StepExtends ==
  ASSUME TypeOK, [Next]_vars
  PROVE  cache' \in Cache /\ Extends(cache, cache')
BY CacheEffect, FoldingExtends, PreparedIsTouched DEF Touched
-------------------------------------------------------------------------------
LEMMA MetadataTypes ==
  ASSUME TypeOK, node <= Len(program), NEW flag \in Flags, NEW code \in {"W001", "E014"},
         NEW extra \in SUBSET Flags, Report(flag, code, extra) \/ Silent(extra)
  PROVE  /\ metadata' \in [1..Len(program) -> SUBSET Flags]
         /\ warnings' \subseteq {"W001", "E014"} \X (1..Len(program))
BY CurrentIsRule DEF TypeOK, Report, Silent

LEMMA CountType == \A c : CntUnresolved(c) \in Nat
BY NamesAssumption, FS_Subset, FS_CardinalityType DEF CntUnresolved

LEMMA TypeStep ==
  ASSUME TypeOK, [Next]_vars
  PROVE  TypeOK'
<1>1. cache' \in Cache
  BY StepExtends
<1>2. program' = program
  BY DEF Next, vars, Seed, RangeAlt, RangeEnd, CtlopAlt, CtlopEnd, EndIteration
<1>3. /\ metadata' \in [1..Len(program) -> SUBSET Flags]
      /\ warnings' \subseteq {"W001", "E014"} \X (1..Len(program))
  <2>1. CASE UNCHANGED <<metadata, warnings>>
    BY <2>1 DEF TypeOK
  <2>2. CASE Seed
    <3>1. node <= Len(program) /\ {} \in SUBSET Flags
      BY <2>2 DEF Seed, Visiting
    <3>2. \/ UNCHANGED <<metadata, warnings>> \/ Silent({})
          \/ Report("RedundantDefinition", "W001", {})
          \/ Report("ConflictingDefinition", "E014", {})
      BY <2>2 DEF Seed, SeedWrite
    <3>. QED BY <2>1, <3>1, <3>2, MetadataTypes DEF Flags
  <2>3. CASE RangeAlt
    <3>1. node <= Len(program) /\ {} \in SUBSET Flags
          /\ {"RangeTypeMismatch"} \in SUBSET Flags
      BY <2>3 DEF RangeAlt, Visiting, Flags
    <3>2. \/ UNCHANGED <<metadata, warnings>> \/ Silent({}) \/ Silent({"RangeTypeMismatch"})
          \/ Report("RedundantDefinition", "W001", {})
          \/ Report("ConflictingDefinition", "E014", {})
      BY <2>3 DEF RangeAlt, Write
    <3>. QED BY <2>1, <3>1, <3>2, MetadataTypes DEF Flags
  <2>4. CASE CtlopAlt
    <3>1. node <= Len(program)
      BY <2>4 DEF CtlopAlt, Visiting
    <3>2. PICK extra \in SUBSET Flags :
            \/ Silent(extra)
            \/ Report("RedundantDefinition", "W001", extra)
            \/ Report("ConflictingDefinition", "E014", extra)
      <4>1. {} \in SUBSET Flags /\ {"CtlopTypeMismatch"} \in SUBSET Flags
        BY DEF Flags
      <4>. QED BY <2>4, <4>1 DEF CtlopAlt, Write
    <3>. QED BY <3>1, <3>2, MetadataTypes DEF Flags
  <2>. QED BY <2>1, <2>2, <2>3, <2>4 DEF Next, vars, RangeEnd, CtlopEnd, EndIteration
<1>4. prev' \in Nat
  <2>1. prev' \in {prev, CntUnresolved(cache)}
    BY DEF Next, vars, Seed, RangeAlt, RangeEnd, CtlopAlt, CtlopEnd, EndIteration
  <2>. QED BY <2>1, CountType DEF TypeOK
<1>5. /\ pass' \in {"seed", "range", "ctlop", "done"}
      /\ top' \in Nat \ {0} /\ node' \in Nat \ {0} /\ alt' \in Nat \ {0}
  <2>1. CASE UNCHANGED vars
    BY <2>1 DEF TypeOK, vars
  <2>2. CASE Seed
    BY <2>2 DEF TypeOK, Seed, NextPass, NextRule
  <2>3. CASE RangeAlt
    BY <2>3 DEF TypeOK, RangeAlt
  <2>4. CASE RangeEnd
    BY <2>4 DEF TypeOK, RangeEnd, NextPass, NextRule
  <2>5. CASE CtlopAlt
    BY <2>5 DEF TypeOK, CtlopAlt
  <2>6. CASE CtlopEnd
    BY <2>6 DEF TypeOK, CtlopEnd, NextRule, NextNode
  <2>7. CASE EndIteration
    BY <2>7 DEF TypeOK, EndIteration
  <2>. QED BY <2>1, <2>2, <2>3, <2>4, <2>5, <2>6, <2>7 DEF Next
<1>. QED BY <1>1, <1>2, <1>3, <1>4, <1>5 DEF TypeOK

LEMMA TypeInit == Init => TypeOK
<1> SUFFICES ASSUME Init PROVE TypeOK
  OBVIOUS
<1>1. cache \in Cache
  BY DEF Init, EmptyCache, Cache, Entry, State, NoOrigin
<1>. QED BY <1>1 DEF Init, TypeOK

(* The variables keep their types: no operator, however it combines values *)
(* of different families, writes anything but a value into the cache, and  *)
(* no integer in it is wider than an i128 (`checked_add` in ctlop.rs).     *)
THEOREM TypeCorrect == Spec => []TypeOK
<1>1. TypeOK /\ [Next]_vars => TypeOK'
  BY TypeStep
<1>. QED BY <1>1, TypeInit, PTL DEF Spec

(* No step changes an entry that is resolved (resolver_cache.rs,           *)
(* `resolve_with_origin`), although every rule is folded again in every    *)
(* iteration.                                                              *)
THEOREM ResolvedStaysFinal == Spec => ResolvedIsFinal
<1>1. TypeOK /\ [Next]_vars =>
        [\A n \in Names : IsResolved(cache[n].state) => cache'[n] = cache[n]]_vars
  BY StepExtends DEF Extends
<1>. QED BY <1>1, TypeCorrect, PTL DEF ResolvedIsFinal, Spec
-------------------------------------------------------------------------------
(* The state of an entry is what alternative j of rule i has in cache c.   *)
Explains(c, i, j, state) ==
  LET a == program[i].alts[j]
  IN MentionsFloatWord(a) \/ AltValue(c, a) = state

LEMMA ExplanationsLast ==
  ASSUME program \in Seq(Rule), NEW c \in Cache, NEW d \in Cache, Extends(c, d),
         NEW i \in 1..Len(program), NEW j \in 1..Len(program[i].alts),
         NEW v \in Value, Explains(c, i, j, v)
  PROVE  Explains(d, i, j, v)
<1> DEFINE a == program[i].alts[j]
<1>1. a \in Alternative
  <2>1. program[i] \in Rule
    OBVIOUS
  <2>2. program[i].alts \in Seq(Alternative)
    BY <2>1 DEF Rule
  <2>. QED BY <2>2
<1>2. CASE MentionsFloatWord(a)
  BY <1>2 DEF Explains
<1>3. CASE ~MentionsFloatWord(a)
  <2>1. AltValue(c, a) = v /\ v # None
    BY <1>3, NoneIsNoValue DEF Explains
  <2>2. AltValue(d, a) = v
    BY <1>1, <1>3, <2>1, AltValueMonotone
  <2>. QED BY <2>2 DEF Explains
<1>. QED BY <1>2, <1>3

JustifiedName(n) ==
  IsResolved(cache[n].state) =>
    LET i == cache[n].origin
    IN /\ i \in 1..Len(program) /\ program[i].name = n /\ program[i].define
       /\ \E j \in 1..Len(program[i].alts) : Explains(cache, i, j, cache[n].state)

LEMMA JustifiedByName == Justified <=> \A n \in Names : JustifiedName(n)
BY DEF Justified, JustifiedName, Explains

LEMMA JustifiedStep ==
  ASSUME TypeOK, TypeOK', [Next]_vars, Justified, NEW n \in Names
  PROVE  JustifiedName(n)'
<1>1. program' = program /\ program \in Seq(Rule)
  BY ProgramsAssumption
  DEF TypeOK, Next, vars, Seed, RangeAlt, RangeEnd, CtlopAlt, CtlopEnd, EndIteration
<1>2. cache \in Cache /\ cache' \in Cache /\ Extends(cache, cache')
  BY StepExtends DEF TypeOK
<1> SUFFICES ASSUME IsResolved(cache'[n].state) PROVE JustifiedName(n)'
  BY DEF JustifiedName
<1>3. CASE cache'[n] = cache[n]
  <2> DEFINE i == cache[n].origin
  <2>1. cache[n].state \in Value
    BY <1>3 DEF IsResolved
  <2>2. i \in 1..Len(program) /\ program[i].name = n /\ program[i].define
    BY <2>1, JustifiedByName DEF JustifiedName, IsResolved
  <2>3. PICK j \in 1..Len(program[i].alts) : Explains(cache, i, j, cache[n].state)
    BY <2>1, JustifiedByName DEF JustifiedName, IsResolved
  <2>4. Explains(cache', i, j, cache[n].state)
    BY <1>1, <1>2, <2>1, <2>2, <2>3, ExplanationsLast
  <2>. QED BY <1>1, <1>3, <2>2, <2>3, <2>4 DEF JustifiedName, Explains
<1>4. CASE cache'[n] # cache[n]
  <2>1. PICK c, v, j : Folding(c, v, j)
    BY <1>4, CacheEffect, PreparedIsTouched DEF Touched
  <2>2. /\ c \in Cache /\ Extends(c, cache') /\ v \in Value
        /\ node \in 1..Len(program) /\ current.define
        /\ j \in 1..Len(current.alts) /\ v = AltValue(c, current.alts[j])
    BY <2>1, FoldingExtends, CurrentIsRule, PreparedIsTouched DEF Folding, Touched
  <2>3. n = current.name /\ cache'[n] = [state |-> v, origin |-> node]
    <3>1. IsResolved(c[n].state) => c[n] = cache[n]
      BY <2>1, PreparedIsTouched DEF Folding, Touched
    <3>. QED BY <1>4, <2>1, <3>1, FoldingExtends
  <2>4. Explains(cache', node, j, v)
    <3>1. Explains(c, node, j, v)
      BY <2>2 DEF Explains, current
    <3>. QED BY <1>1, <1>2, <2>2, <3>1, ExplanationsLast DEF current
  <2>. QED BY <1>1, <2>2, <2>3, <2>4 DEF JustifiedName, Explains, current
<1>. QED BY <1>3, <1>4

(* Every value in the cache is, at any time, what an alternative of the    *)
(* definition it came from evaluates to in the cache as it then is.        *)
THEOREM ResolutionIsJustified == Spec => []Justified
<1>1. Init => Justified
  BY NoneIsNoValue DEF Init, EmptyCache, Justified, IsResolved
<1>2. TypeOK /\ TypeOK' /\ [Next]_vars /\ Justified => Justified'
  <2> SUFFICES ASSUME TypeOK, TypeOK', [Next]_vars, Justified PROVE Justified'
    OBVIOUS
  <2>1. \A n \in Names : JustifiedName(n)'
    BY JustifiedStep
  <2>. QED BY <2>1, JustifiedByName DEF Justified, JustifiedName, Explains
<1>. QED BY <1>1, <1>2, TypeCorrect, PTL DEF Spec
-------------------------------------------------------------------------------
(* A rule is reported when its name has a value already that is not the    *)
(* one the rule gave it, or one that is not equal to itself.               *)
Reported(c, v) ==
  /\ IsResolved(c[current.name].state)
  /\ HasNaN(c[current.name].state) \/ c[current.name] # [state |-> v, origin |-> node]

LEMMA RefusedWrite ==
  ASSUME TypeOK, NEW c \in Cache, NEW n \in Names, NEW v \in Value, node # NoOrigin,
         WriteResult(c[n], v, node) \in {"redundant", "conflicting"}
  PROVE  /\ IsResolved(c[n].state)
         /\ HasNaN(c[n].state) \/ c[n] # [state |-> v, origin |-> node]
<1>1. c[n].state \in State
  BY DEF Cache, Entry
<1>2. IsResolved(c[n].state)
  BY <1>1 DEF WriteResult, State, IsResolved
<1>3. c[n] = [state |-> v, origin |-> node] => HasNaN(c[n].state)
  BY DEF WriteResult, SameState
<1>. QED BY <1>2, <1>3

(* A step that adds a warning was refused a write by the cache.            *)
LEMMA WarningEffect ==
  ASSUME TypeOK, [Next]_vars, warnings' # warnings
  PROVE  /\ node \in 1..Len(program)
         /\ warnings' \subseteq warnings \cup ({"W001", "E014"} \X {node})
         /\ \E c, v, j : Folding(c, v, j) /\ Reported(c, v)
<1>0. node # NoOrigin /\ node \in Nat
  BY DEF TypeOK, NoOrigin
<1>1. CASE Seed
  <2> DEFINE c == SeedTouched(cache, current)
             v == IF IsLeaf(current) THEN AltValue(c, current.alts[1]) ELSE None
  <2>1. node <= Len(program) /\ current.define /\ v # None
    BY <1>1 DEF Seed, Visiting
  <2>2. Prepared(c) /\ Touched(cache, c)
    BY <2>1, SeedTouches DEF Prepared
  <2>3. 1 \in 1..Len(current.alts) /\ current.alts[1] \in Alternative /\ current.name \in Names
    BY <2>1, CurrentIsRule DEF IsLeaf
  <2>4. v = AltValue(c, current.alts[1])
    BY <2>1
  <2>5. v \in Value
    BY <2>1, <2>2, <2>3, <2>4, AltValueType DEF Touched
  <2>6. SeedWrite(c, current.name, v)
    BY <1>1, <2>1 DEF Seed
  <2> HIDE DEF c, v
  <2>7. /\ cache' = ResolveWithOrigin(c, current.name, v, node)
        /\ WriteResult(c[current.name], v, node) \in {"redundant", "conflicting"}
        /\ warnings' \subseteq warnings \cup ({"W001", "E014"} \X {node})
    BY <2>6 DEF SeedWrite, Report, Silent
  <2>8. Reported(c, v)
    BY <1>0, <2>2, <2>3, <2>5, <2>7, RefusedWrite DEF Reported, Touched
  <2>9. Folding(c, v, 1)
    BY <2>1, <2>2, <2>3, <2>4, <2>5, <2>7 DEF Folding
  <2>. QED BY <2>1, <2>7, <2>8, <2>9, CurrentIsRule
<1>2. ASSUME NEW extra, NEW v \in Value, NEW j \in 1..Len(current.alts),
             node <= Len(program), current.define,
             v = AltValue(cache, current.alts[j]), Write(current.name, v, extra)
      PROVE  /\ node \in 1..Len(program)
             /\ warnings' \subseteq warnings \cup ({"W001", "E014"} \X {node})
             /\ \E c, w, k : Folding(c, w, k) /\ Reported(c, w)
  <2>1. /\ cache' = ResolveWithOrigin(cache, current.name, v, node)
        /\ WriteResult(cache[current.name], v, node) \in {"redundant", "conflicting"}
        /\ warnings' \subseteq warnings \cup ({"W001", "E014"} \X {node})
    BY <1>2 DEF Write, Report, Silent
  <2>2. cache \in Cache /\ current.name \in Names /\ Prepared(cache)
    BY <1>2, CurrentIsRule DEF TypeOK, Prepared
  <2>3. Reported(cache, v)
    BY <1>0, <2>1, <2>2, RefusedWrite DEF Reported
  <2>4. Folding(cache, v, j)
    BY <1>2, <2>1, <2>2 DEF Folding
  <2>. QED BY <1>2, <2>1, <2>3, <2>4, CurrentIsRule
<1>3. CASE RangeAlt
  <2> DEFINE a == current.alts[alt]
             v == RangeOf(a, LeafValue(cache, a.lhs), LeafValue(cache, a.rhs))
  <2>1. node <= Len(program) /\ current.define /\ alt \in 1..Len(current.alts)
    BY <1>3, CurrentIsRule DEF RangeAlt, Visiting, MoreAlts, TypeOK
  <2>2. a.op = "range" /\ v # None /\ Write(current.name, v, {})
    BY <1>3 DEF RangeAlt, Silent
  <2>3. v = AltValue(cache, a)
    BY <2>2 DEF AltValue
  <2>4. v \in Value
    BY <2>1, <2>2, <2>3, CurrentIsRule, AltValueType DEF TypeOK
  <2> HIDE DEF v
  <2>. QED BY <1>2, <2>1, <2>2, <2>3, <2>4
<1>4. CASE CtlopAlt
  <2> DEFINE a == current.alts[alt]
             l == LeafValue(cache, a.lhs)
             r == LeafValue(cache, a.rhs)
             v == CtlopOf(a, l, r)
             extra == IF CtlopMismatch(a, l, r) THEN {"CtlopTypeMismatch"} ELSE {}
  <2>1. node <= Len(program) /\ current.define /\ alt \in 1..Len(current.alts)
    BY <1>4, CurrentIsRule DEF CtlopAlt, Visiting, MoreAlts, TypeOK
  <2>2. v # None /\ Write(current.name, v, extra)
    BY <1>4 DEF CtlopAlt, Silent
  <2>3. v = AltValue(cache, a)
    BY <2>2 DEF CtlopOf, PlusOf, CatOf, EncodingOf, AltValue
  <2>4. v \in Value
    BY <2>1, <2>2, <2>3, CurrentIsRule, AltValueType DEF TypeOK
  <2> HIDE DEF v, extra
  <2>. QED BY <1>2, <2>1, <2>2, <2>3, <2>4
<1>. QED BY <1>1, <1>3, <1>4 DEF Next, RangeEnd, CtlopEnd, EndIteration, vars

(* A rule is reported when it, or its name, has a second source.           *)
TwoSources(i) ==
  \/ HasNaN(cache[program[i].name].state)
  \/ Len(program[i].alts) > 1
  \/ \E j \in 1..Len(program[i].alts) : MentionsFloatWord(program[i].alts[j])
  \/ \E k \in 1..Len(program) \ {i} : program[k].name = program[i].name

LEMMA TwoSourcesStep ==
  ASSUME TypeOK, Justified, [Next]_vars, warnings' # warnings
  PROVE  TwoSources(node)
<1>1. PICK c, v, j : Folding(c, v, j) /\ Reported(c, v)
  BY WarningEffect
<1> DEFINE n == current.name
           a == current.alts[1]
<1>2. /\ node \in 1..Len(program) /\ n \in Names /\ node \in Nat
      /\ Len(current.alts) \in Nat
      /\ \A k \in 1..Len(current.alts) : current.alts[k] \in Alternative
  BY WarningEffect, CurrentIsRule
<1> SUFFICES ASSUME ~TwoSources(node) PROVE FALSE
  OBVIOUS
<1>3. /\ j = 1 /\ Len(current.alts) = 1 /\ a \in Alternative /\ ~MentionsFloatWord(a)
      /\ \A k \in 1..Len(program) : program[k].name = n => k = node
  <2>1. /\ ~(Len(current.alts) > 1)
        /\ \A k \in 1..Len(current.alts) : ~MentionsFloatWord(current.alts[k])
        /\ \A k \in 1..Len(program) \ {node} : program[k].name # n
    BY DEF TwoSources, current
  <2>2. j \in 1..Len(current.alts)
    BY <1>1 DEF Folding
  <2>3. j = 1 /\ Len(current.alts) = 1
    <3>1. \A m \in Nat : \A i \in 1..m : ~(m > 1) => i = 1 /\ m = 1
      OBVIOUS
    <3>2. Len(current.alts) \in Nat /\ ~(Len(current.alts) > 1)
      BY <1>2, <2>1
    <3>. QED BY <2>2, <3>1, <3>2
  <2>4. a \in Alternative /\ ~MentionsFloatWord(a)
    BY <1>2, <2>1, <2>3
  <2>. QED BY <2>1, <2>3, <2>4
<1>4. c[n] = cache[n] /\ IsResolved(cache[n].state) /\ c \in Cache /\ Extends(cache, c)
  BY <1>1, <1>2, PreparedIsTouched DEF Folding, Reported, Touched
<1>13. ~HasNaN(cache[n].state)
  BY DEF TwoSources, current
<1>5. JustifiedName(n)
  BY <1>2, JustifiedByName
<1>6. cache[n].origin = node
  BY <1>3, <1>4, <1>5 DEF JustifiedName
<1>7. PICK k \in 1..Len(program[node].alts) : Explains(cache, node, k, cache[n].state)
  BY <1>4, <1>5, <1>6 DEF JustifiedName
<1>8. AltValue(cache, a) = cache[n].state
  BY <1>3, <1>7 DEF Explains, current
<1>9. AltValue(cache, a) # None
  BY <1>4, <1>8, NoneIsNoValue DEF IsResolved
<1>10. AltValue(c, a) = cache[n].state
  BY <1>3, <1>4, <1>8, <1>9, AltValueMonotone DEF TypeOK
<1>11. v = cache[n].state
  BY <1>1, <1>3, <1>10 DEF Folding
<1>12. cache[n] = [state |-> cache[n].state, origin |-> cache[n].origin]
  BY <1>2 DEF TypeOK, Cache, Entry
<1>. QED BY <1>1, <1>4, <1>6, <1>11, <1>12, <1>13 DEF Reported

(* What has been reported keeps its sources: a value with a NaN in it is   *)
(* resolved, hence final.                                                  *)
LEMMA NaNStays ==
  ASSUME TypeOK, [Next]_vars, NEW i \in 1..Len(program),
         HasNaN(cache[program[i].name].state)
  PROVE  HasNaN(cache'[program[i].name].state)
<1> DEFINE n == program[i].name
<1>1. n \in Names
  <2>1. program \in Seq(Rule)
    BY ProgramsAssumption DEF TypeOK
  <2>2. program[i] \in Rule
    BY <2>1
  <2>. QED BY <2>2 DEF Rule
<1> HIDE DEF n
<1>2. cache[n].state \in State
  BY <1>1 DEF TypeOK, Cache, Entry
<1>3. IsResolved(cache[n].state)
  BY <1>2 DEF n, HasNaN, State, IsResolved, Absent, Unresolved, Pruned
<1>4. cache'[n] = cache[n]
  BY <1>1, <1>3, StepExtends DEF Extends
<1>. QED BY <1>4 DEF n

(* Although every rule is folded again in every iteration, a rule is       *)
(* reported only for another definition of its name, another alternative,  *)
(* a name that is spelled like a float, or a value with a NaN in it (the   *)
(* last two are departures of the code: ctlop.rs, `resolve_type2_leaf`,    *)
(* and resolver_cache.rs, where states are compared).                      *)
THEOREM WarningsAreEarned == Spec => []WarningsHaveTwoSources
<1>1. Init => WarningsHaveTwoSources
  BY DEF Init, WarningsHaveTwoSources
<1>2. TypeOK /\ Justified /\ WarningsHaveTwoSources /\ [Next]_vars => WarningsHaveTwoSources'
  <2> SUFFICES ASSUME TypeOK, Justified, WarningsHaveTwoSources, [Next]_vars,
                      NEW w \in warnings'
               PROVE  TwoSources(w[2])'
    BY DEF WarningsHaveTwoSources, TwoSources
  <2>1. program' = program
    BY DEF Next, vars, Seed, RangeAlt, RangeEnd, CtlopAlt, CtlopEnd, EndIteration
  <2>2. w[2] \in 1..Len(program) /\ TwoSources(w[2])
    <3>1. CASE w \in warnings
      BY <3>1 DEF WarningsHaveTwoSources, TwoSources, TypeOK
    <3>2. CASE w \notin warnings
      <4>1. w[2] = node /\ node \in 1..Len(program)
        BY <3>2, WarningEffect
      <4>. QED BY <3>2, <4>1, TwoSourcesStep
    <3>. QED BY <3>1, <3>2
  <2>. QED BY <2>1, <2>2, NaNStays DEF TwoSources
<1>. QED BY <1>1, <1>2, TypeCorrect, ResolutionIsJustified, PTL DEF Spec
-------------------------------------------------------------------------------
(* The names the seed pass touches for rule i.                             *)
TouchedNames(i) ==
  LET rule == program[i]
  IN {rule.name} \cup IF IsLeaf(rule) /\ rule.alts[1].lhs.kind = "ref"
                        THEN {rule.alts[1].lhs.name} ELSE {}

(* Rule i is in the node that is being walked.                             *)
InNode(i) ==
  top <= i /\ \A k \in 1..Len(program) : top < k /\ k <= i => ~program[k].opens

(* Where the walk is: in the node that begins at `top`, or at the end.     *)
Walking ==
  /\ top <= node
  /\ \A k \in 1..Len(program) : top < k /\ k <= node => ~program[k].opens
  /\ node <= Len(program) \/ (top = node /\ pass \in {"seed", "done"})

(* What this iteration has visited: a rule in the seed pass, and an        *)
(* alternative in the pass that folds it.                                  *)
Before(i, j) == i < node \/ (i = node /\ j < alt)
Seeded(i)    == i < node \/ (pass \in {"range", "ctlop"} /\ InNode(i))
Visited(i, j) ==
  LET op == program[i].alts[j].op
  IN IF op = "operand" THEN Seeded(i)
     ELSE IF op = "range"
       THEN i < top \/ (pass = "range" /\ Before(i, j)) \/ (pass = "ctlop" /\ InNode(i))
     ELSE i < top \/ (pass = "ctlop" /\ Before(i, j))

(* Alternative j of rule i has no value that its name is without.          *)
Swept(i, j) ==
  /\ program[i].define
  /\ Folds(program[i], j)
  /\ AltValue(cache, program[i].alts[j]) # None
  => IsResolved(cache[program[i].name].state)

NothingPruned == \A n \in Names : cache[n].state # Pruned

(* From the second iteration on no name is new to the cache.               *)
AllPresent ==
  \A i \in 1..Len(program) :
    program[i].define /\ (Seeded(i) \/ prev > 0) =>
      \A n \in TouchedNames(i) : cache[n].state # Absent

(* So the number of unresolved entries only falls, and while it is what it *)
(* was at the start of the iteration, nothing visited was left unfolded.   *)
NothingMissed ==
  prev > 0 =>
    /\ CntUnresolved(cache) <= prev
    /\ CntUnresolved(cache) = prev =>
         \A i \in 1..Len(program) : \A j \in 1..Len(program[i].alts) :
           Visited(i, j) => Swept(i, j)

FixInv ==
  /\ Walking /\ NothingPruned /\ AllPresent /\ NothingMissed
  /\ pass = "done" => node > Len(program) /\ CntUnresolved(cache) = prev

(* The rules of the current node are those up to its end.                  *)
LEMMA NodeRules ==
  ASSUME TypeOK, Walking, NEW i \in 1..Len(program)
  PROVE  /\ i <= node => i < top \/ InNode(i)
         /\ InNode(i) /\ EndOfNode /\ node <= Len(program) => i <= node
<1>1. program \in Seq(Rule) /\ top \in Nat \ {0} /\ node \in Nat \ {0} /\ i \in Nat
  BY ProgramsAssumption DEF TypeOK
<1>2. ASSUME i <= node PROVE i < top \/ InNode(i)
  BY <1>1, <1>2 DEF Walking, InNode
<1>3. ASSUME InNode(i), EndOfNode, node <= Len(program), ~(i <= node) PROVE FALSE
  <2>1. node < Len(program) /\ node + 1 \in 1..Len(program) /\ top < node + 1 /\ node + 1 <= i
    BY <1>1, <1>3 DEF Walking
  <2>. QED BY <1>3, <2>1 DEF EndOfNode, InNode
<1>. QED BY <1>2, <1>3

LEMMA WalkingStep ==
  ASSUME TypeOK, Walking, [Next]_vars
  PROVE  Walking'
<1>1. program' = program /\ program \in Seq(Rule)
  BY ProgramsAssumption
  DEF TypeOK, Next, vars, Seed, RangeAlt, RangeEnd, CtlopAlt, CtlopEnd, EndIteration
<1>2. Len(program) \in Nat /\ top \in Nat \ {0} /\ node \in Nat \ {0}
  BY <1>1 DEF TypeOK
<1>3. CASE UNCHANGED <<top, node>> /\ pass' \in {pass, "done"} /\ (pass' = pass \/ top = node)
  BY <1>1, <1>3 DEF Walking
<1>4. CASE node <= Len(program) /\ NextRule
  <2>1. node < Len(program) /\ ~program[node + 1].opens
    BY <1>2, <1>4 DEF NextRule, EndOfNode
  <2>. QED BY <1>1, <1>2, <1>4, <2>1 DEF Walking, NextRule
<1>5. CASE node <= Len(program) /\ node' = top /\ top' = top
  BY <1>1, <1>2, <1>5 DEF Walking
<1>6. CASE top' = node' /\ node' \in Nat /\ pass' = "seed"
  BY <1>1, <1>2, <1>6 DEF Walking
<1>7. CASE EndIteration
  BY <1>2, <1>3, <1>6, <1>7 DEF EndIteration, Walking
<1>8. CASE Seed \/ RangeEnd
  BY <1>4, <1>5, <1>8 DEF Seed, RangeEnd, NextPass, Visiting
<1>9. CASE RangeAlt \/ CtlopAlt \/ UNCHANGED vars
  BY <1>3, <1>9 DEF RangeAlt, CtlopAlt, vars
<1>10. CASE CtlopEnd
  BY <1>2, <1>4, <1>6, <1>10 DEF CtlopEnd, NextNode, Visiting
<1>. QED BY <1>7, <1>8, <1>9, <1>10 DEF Next

LEMMA FinitelyManyUnresolved ==
  \A c : IsFiniteSet({n \in Names : c[n].state = Unresolved})
BY NamesAssumption, FS_Subset

(* Resolving an unresolved entry leaves fewer of them.                     *)
LEMMA ResolvingCounts ==
  ASSUME NEW c \in Cache, NEW n \in Names, NEW v \in Value, NEW i \in Nat,
         c[n].state = Unresolved
  PROVE  CntUnresolved(ResolveWithOrigin(c, n, v, i)) < CntUnresolved(c)
<1> DEFINE d == ResolveWithOrigin(c, n, v, i)
           S == {m \in Names : c[m].state = Unresolved}
           T == {m \in Names : d[m].state = Unresolved}
<1>1. d = [c EXCEPT ![n] = [state |-> v, origin |-> i]]
  BY DEF ResolveWithOrigin
<1>2. T = S \ {n}
  BY <1>1, NoneIsNoValue DEF Cache
<1>3. n \in S
  OBVIOUS
<1>4. IsFiniteSet(S)
  BY FinitelyManyUnresolved
<1> HIDE DEF S, T
<1>5. Cardinality(T) = Cardinality(S) - 1 /\ Cardinality(S) \in Nat
  BY <1>2, <1>3, <1>4, FS_RemoveElement, FS_CardinalityType
<1>6. Cardinality(T) < Cardinality(S)
  BY <1>5
<1>. QED BY <1>6 DEF CntUnresolved, S, T

(* A write that changes nothing finds a value there.                       *)
LEMMA UnchangedIsResolved ==
  ASSUME NEW c \in Cache, NEW n \in Names, NEW v \in Value, NEW i \in Nat,
         ResolveWithOrigin(c, n, v, i) = c, c[n].state # Pruned
  PROVE  IsResolved(c[n].state)
<1>1. c[n].state \in State
  BY DEF Cache, Entry
<1>2. CASE c[n].state \in {Absent, Unresolved}
  <2>1. c[n] = [state |-> v, origin |-> i]
    BY <1>2 DEF ResolveWithOrigin, Cache
  <2>. QED BY <1>2, <2>1, NoneIsNoValue
<1>3. CASE c[n].state \notin {Absent, Unresolved}
  BY <1>1, <1>3 DEF State, IsResolved
<1>. QED BY <1>2, <1>3

LEMMA SeedTouchesNames ==
  ASSUME TypeOK, node <= Len(program)
  PROVE  LET c == SeedTouched(cache, current)
         IN /\ \A n \in TouchedNames(node) : c[n].state # Absent
            /\ (\A n \in TouchedNames(node) : cache[n].state # Absent) => c = cache
<1>1. cache \in Cache /\ current.name \in Names
  BY CurrentIsRule DEF TypeOK
<1> DEFINE own == Get(cache, current.name)
<1>2. Touched(cache, own) /\ own[current.name].state # Absent
  BY <1>1, GetTouches
<1>3. cache[current.name].state # Absent => own = cache
  BY DEF Get
<1>4. CASE IsLeaf(current) /\ current.alts[1].lhs.kind = "ref"
  <2> DEFINE x == current.alts[1].lhs
  <2>1. current.alts[1] \in Alternative
    BY <1>4, CurrentIsRule DEF IsLeaf
  <2>2. x \in Operand
    BY <2>1 DEF Alternative
  <2>3. x.name \in Names
    BY <1>4, <2>2 DEF Operand
  <2>4. SeedTouched(cache, current) = Get(own, x.name)
    BY <1>4 DEF SeedTouched
  <2>5. TouchedNames(node) = {current.name, x.name}
    BY <1>4 DEF TouchedNames, current
  <2> HIDE DEF own
  <2>6. Touched(own, Get(own, x.name)) /\ Get(own, x.name)[x.name].state # Absent
    BY <1>2, <2>3, GetTouches DEF Touched
  <2>7. Get(own, x.name)[current.name].state # Absent
    BY <1>1, <1>2, <2>6 DEF Touched, Absent, Unresolved
  <2>8. own[x.name].state # Absent => Get(own, x.name) = own
    BY DEF Get
  <2>. QED BY <1>3, <2>4, <2>5, <2>6, <2>7, <2>8
<1>5. CASE ~(IsLeaf(current) /\ current.alts[1].lhs.kind = "ref")
  <2>1. SeedTouched(cache, current) = own
    BY <1>5 DEF SeedTouched
  <2>2. TouchedNames(node) = {current.name}
    BY <1>5 DEF TouchedNames, current
  <2>. QED BY <1>2, <1>3, <2>1, <2>2
<1>. QED BY <1>4, <1>5

(* What a step does to the entries: presence lasts and nothing is pruned.  *)
LEMMA EntriesStep ==
  ASSUME TypeOK, [Next]_vars, NothingPruned
  PROVE  /\ NothingPruned'
         /\ \A n \in Names : cache[n].state # Absent => cache'[n].state # Absent
<1>1. ASSUME NEW c, Prepared(c), NEW n \in Names
      PROVE  c[n].state # Pruned /\ (cache[n].state # Absent => c[n].state # Absent)
  BY <1>1, PreparedIsTouched DEF Touched, NothingPruned, Absent, Unresolved, Pruned
<1>2. CASE Prepared(cache')
  BY <1>1, <1>2 DEF NothingPruned
<1>3. ASSUME NEW c, NEW v, NEW j, Folding(c, v, j), NEW n \in Names
      PROVE  cache'[n].state # Pruned /\ (cache[n].state # Absent => cache'[n].state # Absent)
  <2>1. Prepared(c) /\ v \in Value
    BY <1>3 DEF Folding
  <2>2. cache'[n] = c[n] \/ cache'[n] = [state |-> v, origin |-> node]
    BY <1>3, FoldingExtends
  <2>. QED BY <1>1, <2>1, <2>2, NoneIsNoValue
<1>. QED BY <1>2, <1>3, CacheEffect DEF NothingPruned

(* Once the names of the current rule are present, a step changes nothing  *)
(* or leaves fewer entries unresolved.                                     *)
LEMMA StillOrFewer ==
  ASSUME TypeOK, [Next]_vars, NothingPruned,
         node <= Len(program) /\ current.define =>
           \A n \in TouchedNames(node) : cache[n].state # Absent
  PROVE  cache' = cache \/ CntUnresolved(cache') < CntUnresolved(cache)
<1>1. \A c : Prepared(c) => c = cache
  BY SeedTouchesNames DEF Prepared
<1>2. ASSUME NEW c, NEW v, NEW j, Folding(c, v, j), cache' # cache
      PROVE  CntUnresolved(cache') < CntUnresolved(cache)
  <2>1. cache' = ResolveWithOrigin(cache, current.name, v, node) /\ v \in Value
    BY <1>1, <1>2 DEF Folding
  <2>2. current.name \in Names /\ cache[current.name].state # Absent /\ node \in Nat
    BY <1>2, CurrentIsRule DEF Folding, TouchedNames, current, TypeOK
  <2>3. cache[current.name].state = Unresolved
    BY <1>2, <2>1, <2>2 DEF ResolveWithOrigin
  <2>. QED BY <2>1, <2>2, <2>3, ResolvingCounts DEF TypeOK
<1>. QED BY <1>1, <1>2, CacheEffect

(* What a step that changes nothing has visited has a value, if it folds.  *)
LEMMA SeedSweeps ==
  ASSUME TypeOK, NothingPruned, Seed, cache' = cache,
         current.define => \A n \in TouchedNames(node) : cache[n].state # Absent,
         NEW j \in 1..Len(current.alts), current.alts[j].op = "operand"
  PROVE  Swept(node, j)
<1> SUFFICES ASSUME current.define, Folds(current, j), AltValue(cache, current.alts[j]) # None
             PROVE  IsResolved(cache[current.name].state)
  BY DEF Swept, current
<1>1. node <= Len(program)
  BY DEF Seed, Visiting
<1>2. IsLeaf(current) /\ j = 1 /\ current.alts[1] \in Alternative /\ current.name \in Names
  BY <1>1, CurrentIsRule DEF Folds, IsLeaf
<1>3. SeedTouched(cache, current) = cache
  BY <1>1, SeedTouchesNames
<1> DEFINE v == AltValue(cache, current.alts[1])
<1>4. v \in Value
  BY <1>2, AltValueType DEF TypeOK
<1>5. ResolveWithOrigin(cache, current.name, v, node) = cache
  BY <1>2, <1>3 DEF Seed, SeedWrite
<1> HIDE DEF v
<1>. QED BY <1>2, <1>4, <1>5, UnchangedIsResolved DEF TypeOK, NothingPruned

LEMMA RangeAltSweeps ==
  ASSUME TypeOK, NothingPruned, RangeAlt, cache' = cache, current.alts[alt].op = "range"
  PROVE  Swept(node, alt)
<1> SUFFICES ASSUME AltValue(cache, current.alts[alt]) # None
             PROVE  IsResolved(cache[current.name].state)
  BY DEF Swept, current
<1>1. node <= Len(program) /\ alt \in 1..Len(current.alts)
  BY CurrentIsRule DEF RangeAlt, Visiting, MoreAlts, TypeOK
<1>2. current.alts[alt] \in Alternative /\ current.name \in Names
  BY <1>1, CurrentIsRule
<1> DEFINE v == AltValue(cache, current.alts[alt])
<1>3. v \in Value
  BY <1>2, AltValueType DEF TypeOK
<1>4. ResolveWithOrigin(cache, current.name, v, node) = cache
  BY DEF RangeAlt, Write, AltValue
<1> HIDE DEF v
<1>. QED BY <1>2, <1>3, <1>4, UnchangedIsResolved DEF TypeOK, NothingPruned

LEMMA CtlopAltSweeps ==
  ASSUME TypeOK, NothingPruned, CtlopAlt, cache' = cache,
         current.alts[alt].op \notin {"operand", "range"}
  PROVE  Swept(node, alt)
<1> SUFFICES ASSUME AltValue(cache, current.alts[alt]) # None
             PROVE  IsResolved(cache[current.name].state)
  BY DEF Swept, current
<1>1. node <= Len(program) /\ alt \in 1..Len(current.alts)
  BY CurrentIsRule DEF CtlopAlt, Visiting, MoreAlts, TypeOK
<1>2. current.alts[alt] \in Alternative /\ current.name \in Names
  BY <1>1, CurrentIsRule
<1> DEFINE v == AltValue(cache, current.alts[alt])
<1>3. v \in Value
  BY <1>2, AltValueType DEF TypeOK
<1>4. ResolveWithOrigin(cache, current.name, v, node) = cache
  BY DEF CtlopAlt, Write, AltValue
<1> HIDE DEF v
<1>. QED BY <1>2, <1>3, <1>4, UnchangedIsResolved DEF TypeOK, NothingPruned

LEMMA AllPresentStep ==
  ASSUME TypeOK, [Next]_vars, Walking, NothingPruned, AllPresent,
         NEW i \in 1..Len(program), program[i].define, Seeded(i)' \/ prev' > 0,
         NEW n \in TouchedNames(i)
  PROVE  cache'[n].state # Absent
<1>1. n \in Names
  <2>1. program \in Seq(Rule) /\ program[i] \in Rule
    BY ProgramsAssumption DEF TypeOK
  <2>2. program[i].name \in Names /\ program[i].alts \in Seq(Alternative)
    BY <2>1 DEF Rule
  <2>3. CASE IsLeaf(program[i]) /\ program[i].alts[1].lhs.kind = "ref"
    <3>1. program[i].alts[1] \in Alternative
      BY <2>2, <2>3 DEF IsLeaf
    <3>2. program[i].alts[1].lhs \in Operand
      BY <3>1 DEF Alternative
    <3>. QED BY <2>2, <2>3, <3>2 DEF TouchedNames, Operand
  <2>. QED BY <2>2, <2>3 DEF TouchedNames
<1>2. CASE Seeded(i) \/ prev > 0
  BY <1>1, <1>2, EntriesStep DEF AllPresent
<1>3. CASE ~(Seeded(i) \/ prev > 0)
  <2>1. ~EndIteration
    <3>1. SUFFICES ASSUME node > Len(program) PROVE FALSE
      BY DEF EndIteration
    <3>2. program \in Seq(Rule) /\ node \in Nat
      BY ProgramsAssumption DEF TypeOK
    <3>3. i < node
      BY <3>1, <3>2
    <3>. QED BY <1>3, <3>3 DEF Seeded
  <2>2. prev' = prev /\ Seeded(i)'
    BY <1>3, <2>1 DEF Next, vars, Seed, RangeAlt, RangeEnd, CtlopAlt, CtlopEnd
  <2>3. Seed /\ i = node
    <3>0. /\ program' = program /\ program \in Seq(Rule) /\ Len(program) \in Nat
          /\ top \in Nat \ {0} /\ node \in Nat \ {0} /\ i \in Nat
          /\ InNode(i)' <=> (top' <= i /\ \A k \in 1..Len(program) :
                                            top' < k /\ k <= i => ~program[k].opens)
      BY <2>1, ProgramsAssumption
      DEF TypeOK, Next, vars, Seed, RangeAlt, RangeEnd, CtlopAlt, CtlopEnd, InNode
    <3>1. CASE CtlopEnd
      <4>1. pass = "ctlop" /\ node' = node + 1 /\ node <= Len(program)
            /\ (pass' = "seed" \/ (pass' = "ctlop" /\ top' = top))
        BY <3>1 DEF CtlopEnd, NextRule, NextNode, Visiting
      <4>2. i <= node \/ InNode(i)
        BY <2>2, <3>0, <4>1 DEF Seeded, InNode
      <4>. QED BY <1>3, <3>0, <4>1, <4>2, NodeRules DEF Seeded, Walking
    <3>2. CASE RangeEnd
      <4>1. pass = "range" /\ top' = top /\ node <= Len(program)
            /\ (node' = node + 1 \/ node' = top)
        BY <3>2 DEF RangeEnd, NextRule, NextPass, Visiting
      <4>2. i <= node \/ InNode(i)
        BY <2>2, <3>0, <4>1 DEF Seeded, InNode, Walking
      <4>. QED BY <1>3, <3>0, <4>1, <4>2, NodeRules DEF Seeded, Walking
    <3>3. CASE RangeAlt \/ CtlopAlt
      BY <1>3, <2>2, <3>0, <3>3 DEF Seeded, InNode, RangeAlt, CtlopAlt, Visiting
    <3>4. CASE Seed
      <4>1. pass = "seed" /\ top' = top /\ node <= Len(program)
            /\ \/ node' = node + 1 /\ pass' = "seed"
               \/ node' = top /\ EndOfNode
        BY <3>4 DEF Seed, NextRule, NextPass, Visiting
      <4>2. i <= node
        BY <2>2, <3>0, <4>1, NodeRules DEF Seeded, InNode, Walking
      <4>3. ~(i < node)
        BY <1>3 DEF Seeded
      <4>. QED BY <3>0, <3>4, <4>2, <4>3
    <3>5. CASE UNCHANGED vars
      BY <1>3, <2>2, <3>0, <3>5 DEF Seeded, InNode, vars
    <3>. QED BY <2>1, <3>1, <3>2, <3>3, <3>4, <3>5 DEF Next
  <2>4. node <= Len(program) /\ current.define
    BY <2>3 DEF Seed, Visiting, current
  <2> DEFINE c == SeedTouched(cache, current)
  <2>5. Prepared(c) /\ c[n].state # Absent
    BY <2>3, <2>4, SeedTouchesNames DEF Prepared
  <2>6. Touched(cache, c)
    BY <2>5, PreparedIsTouched
  <2> HIDE DEF c
  <2>7. cache' = c \/ \E v \in Value : cache' = ResolveWithOrigin(c, current.name, v, node)
    <3>1. cache' = c \/ \E v : v # None /\ IsLeaf(current) /\ v = AltValue(c, current.alts[1])
                             /\ cache' = ResolveWithOrigin(c, current.name, v, node)
      BY <2>3, <2>4 DEF Seed, SeedWrite, c
    <3>2. IsLeaf(current) => AltValue(c, current.alts[1]) \in Value \cup {None}
      BY <2>4, <2>6, CurrentIsRule, AltValueType DEF Touched, IsLeaf
    <3>. QED BY <3>1, <3>2
  <2>8. current.name \in Names /\ node \in Nat
    BY <2>4, CurrentIsRule
  <2>9. ASSUME NEW v \in Value
        PROVE  \/ ResolveWithOrigin(c, current.name, v, node)[n] = c[n]
               \/ ResolveWithOrigin(c, current.name, v, node)[n] = [state |-> v, origin |-> node]
    BY <1>1, <2>6, <2>8, ResolveExtends DEF Touched
  <2>10. CASE cache' = c
    BY <2>5, <2>10
  <2>11. ASSUME NEW v \in Value, cache' = ResolveWithOrigin(c, current.name, v, node)
         PROVE  cache'[n].state # Absent
    <3>1. cache'[n] = c[n] \/ cache'[n] = [state |-> v, origin |-> node]
      BY <2>9, <2>11, Zenon
    <3>. QED BY <2>5, <3>1, NoneIsNoValue
  <2>. QED BY <2>7, <2>10, <2>11
<1>. QED BY <1>2, <1>3

LEMMA NothingMissedStep ==
  ASSUME TypeOK, [Next]_vars, Walking, NothingPruned, AllPresent, NothingMissed
  PROVE  NothingMissed'
<1>1. program' = program /\ program \in Seq(Rule)
  BY ProgramsAssumption
  DEF TypeOK, Next, vars, Seed, RangeAlt, RangeEnd, CtlopAlt, CtlopEnd, EndIteration
<1>2. /\ Len(program) \in Nat /\ top \in Nat \ {0} /\ node \in Nat \ {0}
      /\ alt \in Nat \ {0} /\ prev \in Nat
  BY <1>1 DEF TypeOK
<1>3. CntUnresolved(cache) \in Nat /\ CntUnresolved(cache') \in Nat
  BY CountType
<1>4. CASE EndIteration /\ pass' = "seed"
  <2>1. top' = 1 /\ node' = 1 /\ prev' = CntUnresolved(cache) /\ cache' = cache
    BY <1>4 DEF EndIteration
  <2>2. \A i \in 1..Len(program) : \A j \in 1..Len(program[i].alts) : ~Visited(i, j)'
    BY <1>1, <1>4, <2>1 DEF Visited, Seeded
  <2>. QED BY <1>1, <1>3, <2>1, <2>2 DEF NothingMissed
<1>5. CASE ~(EndIteration /\ pass' = "seed")
  <2>1. prev' = prev
    BY <1>5 DEF Next, vars, Seed, RangeAlt, RangeEnd, CtlopAlt, CtlopEnd, EndIteration
  <2> SUFFICES ASSUME prev > 0 PROVE NothingMissed'
    BY <2>1 DEF NothingMissed
  <2>2. node <= Len(program) /\ current.define =>
           \A n \in TouchedNames(node) : cache[n].state # Absent
    BY <1>2 DEF AllPresent, current
  <2>3. cache' = cache \/ CntUnresolved(cache') < CntUnresolved(cache)
    BY <2>2, StillOrFewer
  <2>4. CntUnresolved(cache) <= prev
    BY DEF NothingMissed
  <2>5. CntUnresolved(cache') <= prev
    BY <1>2, <1>3, <2>3, <2>4
  <2> SUFFICES ASSUME CntUnresolved(cache') = prev,
                      NEW i \in 1..Len(program), NEW j \in 1..Len(program[i].alts),
                      Visited(i, j)'
               PROVE  Swept(i, j)'
    BY <1>1, <2>1, <2>5 DEF NothingMissed
  <2>6. cache' = cache /\ CntUnresolved(cache) = prev
    BY <1>2, <1>3, <2>3, <2>4
  <2>7. Swept(i, j)' <=> Swept(i, j)
    BY <1>1, <2>6 DEF Swept
  <2>8. Visited(i, j) => Swept(i, j)
    BY <2>6 DEF NothingMissed
  <2> SUFFICES ASSUME ~Visited(i, j) PROVE Swept(i, j)
    BY <2>7, <2>8
  <2> DEFINE op == program[i].alts[j].op
  <2>9. i \in Nat /\ j \in Nat
    OBVIOUS
  <2>10. /\ Len(program[i].alts) \in Nat /\ j <= Len(program[i].alts)
         /\ InNode(i)' <=> (top' <= i /\ \A k \in 1..Len(program) :
                                           top' < k /\ k <= i => ~program[k].opens)
    <3>1. program[i] \in Rule
      BY <1>1
    <3>2. program[i].alts \in Seq(Alternative)
      BY <3>1 DEF Rule
    <3>. QED BY <1>1, <3>2 DEF InNode
  <2>11. CASE Seed
    <3>1. /\ pass = "seed" /\ top' = top /\ alt' = 1 /\ node <= Len(program)
          /\ \/ node' = node + 1 /\ pass' = "seed"
             \/ node' = top /\ pass' = "range" /\ EndOfNode
      BY <2>11 DEF Seed, Visiting, NextPass, NextRule
    <3>2. op = "operand"
      BY <1>1, <1>2, <2>9, <3>1 DEF Visited, Before
    <3>3. Seeded(i)' /\ ~Seeded(i)
      BY <1>1, <3>2 DEF Visited
    <3>4. i <= node
      BY <1>2, <2>9, <2>10, <3>1, <3>3, NodeRules DEF Seeded, InNode, Walking
    <3>5. i = node
      BY <1>2, <2>9, <3>3, <3>4 DEF Seeded
    <3>. QED BY <2>2, <2>6, <2>11, <3>1, <3>2, <3>5, SeedSweeps DEF current
  <2>12. CASE RangeAlt
    <3>1. pass = "range" /\ UNCHANGED <<pass, top, node>> /\ alt' = alt + 1
      BY <2>12 DEF RangeAlt, Visiting
    <3>2. i = node /\ op = "range" /\ j < alt + 1 /\ ~(j < alt)
      BY <1>1, <2>10, <3>1 DEF Visited, Seeded, Before, InNode
    <3>3. j = alt
      BY <1>2, <2>9, <3>2
    <3>. QED BY <2>6, <2>12, <3>2, <3>3, RangeAltSweeps DEF current
  <2>13. CASE CtlopAlt
    <3>1. pass = "ctlop" /\ UNCHANGED <<pass, top, node>> /\ alt' = alt + 1
      BY <2>13 DEF CtlopAlt, Visiting
    <3>2. i = node /\ op \notin {"operand", "range"} /\ j < alt + 1 /\ ~(j < alt)
      BY <1>1, <2>10, <3>1 DEF Visited, Seeded, Before, InNode
    <3>3. j = alt
      BY <1>2, <2>9, <3>2
    <3>. QED BY <2>6, <2>13, <3>2, <3>3, CtlopAltSweeps DEF current
  <2>14. ASSUME i = node, ~(j < alt), ~(current.define /\ alt <= Len(current.alts))
         PROVE  Swept(i, j)
    BY <1>2, <2>9, <2>10, <2>14 DEF Swept, current
  <2>15. CASE RangeEnd
    <3>1. /\ pass = "range" /\ top' = top /\ alt' = 1 /\ node <= Len(program)
          /\ ~(current.define /\ alt <= Len(current.alts))
          /\ \/ node' = node + 1 /\ pass' = "range"
             \/ node' = top /\ pass' = "ctlop" /\ EndOfNode
      BY <2>15 DEF RangeEnd, Visiting, NextPass, NextRule, MoreAlts
    <3>2. InNode(i)' <=> InNode(i)
      BY <2>10, <3>1 DEF InNode
    <3>3. op = "range"
      <4>1. CASE op = "operand"
        <5>1. Seeded(i)' /\ ~Seeded(i)
          BY <1>1, <4>1 DEF Visited
        <5>2. i <= node \/ InNode(i)
          BY <1>2, <2>9, <3>1, <3>2, <5>1 DEF Seeded, Walking
        <5>. QED BY <1>2, <2>9, <3>1, <5>1, <5>2, NodeRules DEF Seeded, Walking
      <4>2. CASE op \notin {"operand", "range"}
        BY <1>1, <1>2, <2>9, <3>1, <4>2 DEF Visited, Before
      <4>. QED BY <4>1, <4>2
    <3>4. i <= node /\ ~(i < top) /\ ~Before(i, j)
      BY <1>1, <1>2, <2>9, <3>1, <3>2, <3>3, NodeRules DEF Visited, Before, Walking
    <3>5. i = node /\ ~(j < alt)
      BY <1>2, <2>9, <3>4 DEF Before
    <3>. QED BY <2>14, <3>1, <3>5
  <2>16. CASE CtlopEnd
    <3>1. /\ pass = "ctlop" /\ alt' = 1 /\ node <= Len(program) /\ node' = node + 1
          /\ ~(current.define /\ alt <= Len(current.alts))
          /\ \/ top' = top /\ pass' = "ctlop"
             \/ top' = node + 1 /\ pass' = "seed"
      BY <2>16 DEF CtlopEnd, Visiting, NextRule, NextNode, MoreAlts
    <3>2. ~(i < top) /\ (InNode(i) => op \notin {"operand", "range"})
      BY <1>2, <2>9, <3>1 DEF Visited, Seeded, Walking
    <3>3. i <= node \/ InNode(i)
      BY <1>1, <1>2, <2>9, <2>10, <3>1 DEF Visited, Seeded, Before, InNode
    <3>4. InNode(i) /\ op \notin {"operand", "range"}
      BY <3>2, <3>3, NodeRules
    <3>5. i <= node /\ ~Before(i, j)
      BY <1>1, <1>2, <2>9, <3>1, <3>4 DEF Visited, Before
    <3>6. i = node /\ ~(j < alt)
      BY <1>2, <2>9, <3>5 DEF Before
    <3>. QED BY <2>14, <3>1, <3>6
  <2>17. CASE EndIteration
    <3>1. top > Len(program) /\ node > Len(program)
      BY <1>2, <2>17 DEF EndIteration, Walking
    <3>. QED BY <1>2, <2>9, <3>1 DEF Visited, Seeded
  <2>18. CASE UNCHANGED vars
    BY <2>10, <2>18 DEF vars, Visited, Seeded, Before, InNode
  <2>. QED BY <2>11, <2>12, <2>13, <2>15, <2>16, <2>17, <2>18 DEF Next
<1>. QED BY <1>4, <1>5

LEMMA FixInvHolds == Spec => []FixInv
<1>1. Init => FixInv
  <2> SUFFICES ASSUME Init PROVE FixInv
    OBVIOUS
  <2>1. NothingPruned
    BY DEF Init, EmptyCache, NothingPruned, Absent, Pruned
  <2>2. top = 1 /\ node = 1 /\ pass = "seed" /\ prev = 0
    BY DEF Init
  <2>3. \A i \in 1..Len(program) : ~Seeded(i)
    BY <2>2, TypeInit, ProgramsAssumption DEF Seeded, TypeOK
  <2>4. Walking
    BY <2>2 DEF Walking
  <2>. QED BY <2>1, <2>2, <2>3, <2>4 DEF FixInv, AllPresent, NothingMissed
<1>2. TypeOK /\ FixInv /\ [Next]_vars => FixInv'
  <2> SUFFICES ASSUME TypeOK, FixInv, [Next]_vars PROVE FixInv'
    OBVIOUS
  <2>1. program' = program
    BY DEF Next, vars, Seed, RangeAlt, RangeEnd, CtlopAlt, CtlopEnd, EndIteration
  <2>2. NothingPruned'
    BY EntriesStep DEF FixInv
  <2>3. AllPresent'
    BY <2>1, AllPresentStep DEF FixInv, AllPresent, TouchedNames
  <2>4. NothingMissed'
    BY NothingMissedStep DEF FixInv
  <2>5. (pass = "done" => node > Len(program) /\ CntUnresolved(cache) = prev)'
    BY <2>1 DEF FixInv, Next, vars, Seed, RangeAlt, RangeEnd, CtlopAlt, CtlopEnd,
       EndIteration, NextPass, NextRule, NextNode, Visiting
  <2>6. Walking'
    BY WalkingStep DEF FixInv
  <2>. QED BY <2>2, <2>3, <2>4, <2>5, <2>6 DEF FixInv
<1>. QED BY <1>1, <1>2, TypeCorrect, PTL DEF Spec

LEMMA FixInvReaches ==
  ASSUME TypeOK, FixInv
  PROVE  FixpointReached
<1> SUFFICES ASSUME pass = "done", NEW i \in 1..Len(program),
                    NEW j \in 1..Len(program[i].alts), program[i].define,
                    Folds(program[i], j), AltValue(cache, program[i].alts[j]) # None
             PROVE  IsResolved(cache[program[i].name].state)
  BY DEF FixpointReached
<1>1. program \in Seq(Rule) /\ node \in Nat /\ prev \in Nat
  BY ProgramsAssumption DEF TypeOK
<1>2. i < node /\ i < top /\ CntUnresolved(cache) = prev
  BY <1>1 DEF FixInv, Walking
<1>3. CASE prev > 0
  <2>1. Swept(i, j)
    BY <1>2, <1>3 DEF FixInv, NothingMissed, Visited, Seeded
  <2>. QED BY <2>1 DEF Swept
<1>4. CASE prev = 0
  <2> DEFINE n == program[i].name
             S == {m \in Names : cache[m].state = Unresolved}
  <2>1. n \in Names
    <3>1. program[i] \in Rule
      BY <1>1
    <3>. QED BY <3>1 DEF Rule
  <2>2. S = {}
    <3>1. IsFiniteSet(S) /\ Cardinality(S) = 0
      BY <1>2, <1>4, FinitelyManyUnresolved DEF CntUnresolved
    <3>. QED BY <3>1, FS_EmptySet
  <2>3. cache[n].state \notin {Absent, Unresolved, Pruned}
    BY <1>2, <2>1, <2>2 DEF FixInv, AllPresent, Seeded, TouchedNames, NothingPruned
  <2>4. cache[n].state \in State
    BY <2>1 DEF TypeOK, Cache, Entry
  <2>. QED BY <2>3, <2>4 DEF State, IsResolved
<1>. QED BY <1>1, <1>3, <1>4

(* When the loop stops because two iterations in a row end with the same   *)
(* number of unresolved entries, no definition is left that would fold:    *)
(* equal counts mean that nothing was written, since an iteration after    *)
(* the first adds no entry (semantic.rs, `resolve_constants`).             *)
THEOREM StopsAtFixpoint == Spec => []FixpointReached
<1>1. TypeOK /\ FixInv => FixpointReached
  BY FixInvReaches
<1>. QED BY <1>1, TypeCorrect, FixInvHolds, PTL
-------------------------------------------------------------------------------
(* The meaning of a program.  Only the states of a cache matter to it.     *)
Bare(c) == [n \in Names |-> [state |-> c[n].state, origin |-> NoOrigin]]

LEMMA BareEvaluates ==
  ASSUME NEW c \in Cache, NEW a \in Alternative
  PROVE  Bare(c) \in Cache /\ AltValue(Bare(c), a) = AltValue(c, a)
<1>1. Bare(c) \in Cache
  BY DEF Bare, Cache, Entry, NoOrigin
<1>2. a.lhs \in Operand /\ a.rhs \in Operand
  BY DEF Alternative
<1>3. \A x \in Operand : x.kind = "ref" => x.name \in Names
  BY DEF Operand
<1>4. \A n \in Names : Bare(c)[n].state = c[n].state
  BY DEF Bare
<1>5. \A x \in Operand : LeafValue(Bare(c), x) = LeafValue(c, x)
  BY <1>3, <1>4 DEF LeafValue
<1>. QED BY <1>1, <1>2, <1>3, <1>4, <1>5 DEF AltValue

LEMMA EvaluateType ==
  ASSUME TypeOK, Plain, NEW c \in Cache, NEW n \in Names
  PROVE  /\ Evaluate(c, n) \in Entry
         /\ Evaluate(c, n).origin = NoOrigin
         /\ \A i \in 1..Len(program) : program[i].define /\ program[i].name = n =>
              /\ program[i].alts[1] \in Alternative
              /\ ~MentionsFloatWord(program[i].alts[1])
              /\ IsResolved(Evaluate(c, n).state) <=> AltValue(c, program[i].alts[1]) # None
              /\ IsResolved(Evaluate(c, n).state) =>
                   Evaluate(c, n).state = AltValue(c, program[i].alts[1])
         /\ DefinitionOf(n) = {} => ~IsResolved(Evaluate(c, n).state)
<1>1. program \in Seq(Rule)
  BY ProgramsAssumption DEF TypeOK
<1>2. CASE DefinitionOf(n) = {}
  <2>1. Evaluate(c, n) = [state |-> Unresolved, origin |-> NoOrigin]
    BY <1>2 DEF Evaluate
  <2>2. \A i \in 1..Len(program) : ~(program[i].define /\ program[i].name = n)
    BY <1>2 DEF DefinitionOf
  <2>. QED BY <2>1, <2>2, NoneIsNoValue DEF Entry, State, NoOrigin, IsResolved
<1>3. CASE DefinitionOf(n) # {}
  <2> DEFINE i == CHOOSE i \in DefinitionOf(n) : TRUE
             v == AltValue(c, program[i].alts[1])
  <2>1. i \in DefinitionOf(n)
    BY <1>3
  <2> HIDE DEF i
  <2>2. i \in 1..Len(program) /\ program[i].name = n
    BY <2>1 DEF DefinitionOf
  <2>3. program[i].alts[1] \in Alternative /\ ~MentionsFloatWord(program[i].alts[1])
    <3>1. program[i] \in Rule /\ Len(program[i].alts) = 1
      BY <1>1, <2>2 DEF Plain
    <3>2. program[i].alts \in Seq(Alternative)
      BY <3>1 DEF Rule
    <3>. QED BY <2>2, <3>1, <3>2 DEF Plain
  <2>4. v \in Value \cup {None}
    BY <2>3, AltValueType
  <2>5. Evaluate(c, n) = [state |-> IF v = None THEN Unresolved ELSE v, origin |-> NoOrigin]
    BY <1>3 DEF Evaluate, i
  <2> HIDE DEF v
  <2>6. /\ Evaluate(c, n) \in Entry /\ Evaluate(c, n).origin = NoOrigin
        /\ IsResolved(Evaluate(c, n).state) <=> v # None
        /\ IsResolved(Evaluate(c, n).state) => Evaluate(c, n).state = v
    BY <2>4, <2>5, NoneIsNoValue DEF Entry, State, NoOrigin, IsResolved
  <2>7. \A k \in 1..Len(program) : program[k].define /\ program[k].name = n => k = i
    BY <2>2 DEF Plain
  <2>. QED BY <1>3, <2>3, <2>6, <2>7 DEF v
<1>. QED BY <1>2, <1>3

(* One round of evaluation, as a function.                                 *)
Round == [c \in Cache |-> [n \in Names |-> Evaluate(c, n)]]

LEMMA EmptyIsCache == EmptyCache \in Cache
BY DEF EmptyCache, Cache, Entry, State, NoOrigin

LEMMA MeaningIsIterated ==
  ASSUME TypeOK, Plain
  PROVE  /\ Meaning \in [Nat -> Cache]
         /\ Meaning[0] = EmptyCache
         /\ \A k \in Nat : Meaning[k + 1] = [n \in Names |-> Evaluate(Meaning[k], n)]
<1> DEFINE IsMeaning(f) ==
      f = [k \in Nat |-> IF k = 0 THEN EmptyCache
                         ELSE [n \in Names |-> Evaluate(f[k - 1], n)]]
<1>1. Round \in [Cache -> Cache]
  BY EvaluateType DEF Round, Cache
<1>2. PICK f \in [Nat -> Cache] :
        f[0] = EmptyCache /\ \A k \in Nat : f[k + 1] = Round[f[k]]
  BY <1>1, EmptyIsCache, PrimitiveRecursion
<1>3. IsMeaning(f)
  <2>1. ASSUME NEW k \in Nat
        PROVE  f[k] = IF k = 0 THEN EmptyCache ELSE [n \in Names |-> Evaluate(f[k - 1], n)]
    <3>1. CASE k = 0
      BY <1>2, <3>1
    <3>2. CASE k # 0
      <4>1. k - 1 \in Nat /\ (k - 1) + 1 = k
        BY <3>2
      <4>2. f[k] = Round[f[k - 1]] /\ f[k - 1] \in Cache
        BY <1>2, <4>1
      <4>. QED BY <3>2, <4>2 DEF Round
    <3>. QED BY <3>1, <3>2
  <2>. QED BY <2>1
<1>4. Meaning = CHOOSE g : IsMeaning(g)
  BY DEF Meaning
<1>5. IsMeaning(Meaning)
  BY <1>3, <1>4
<1>6. Meaning[0] = EmptyCache /\ \A k \in Nat : Meaning[k + 1] = [n \in Names |-> Evaluate(Meaning[k], n)]
  <2>1. \A k \in Nat : Meaning[k] = IF k = 0 THEN EmptyCache
                                     ELSE [n \in Names |-> Evaluate(Meaning[k - 1], n)]
    BY <1>5
  <2>2. \A k \in Nat : k + 1 \in Nat /\ k + 1 # 0 /\ (k + 1) - 1 = k
    OBVIOUS
  <2>. QED BY <2>1, <2>2
<1>7. Meaning \in [Nat -> Cache]
  <2> DEFINE S == {k \in Nat : Meaning[k] \in Cache}
  <2>1. 0 \in S
    BY <1>6, EmptyIsCache
  <2>2. ASSUME NEW k \in Nat, k \in S PROVE k + 1 \in S
    <3>1. Meaning[k] \in Cache
      BY <2>2
    <3>2. [n \in Names |-> Evaluate(Meaning[k], n)] \in Cache
      BY <3>1, EvaluateType DEF Cache
    <3>. QED BY <1>6, <3>2
  <2> HIDE DEF S
  <2>3. Nat \subseteq S
    BY <2>1, <2>2, SetInduction
  <2>. QED BY <1>5, <2>3 DEF S
<1>. QED BY <1>6, <1>7

(* Rounds of evaluation only add values.                                   *)
LEMMA RoundMonotone ==
  ASSUME TypeOK, Plain, NEW c \in Cache, NEW d \in Cache, Extends(c, d)
  PROVE  Extends([n \in Names |-> Evaluate(c, n)], [n \in Names |-> Evaluate(d, n)])
<1> SUFFICES ASSUME NEW n \in Names, IsResolved(Evaluate(c, n).state)
             PROVE  Evaluate(d, n) = Evaluate(c, n)
  BY DEF Extends
<1>1. PICK i \in 1..Len(program) : program[i].define /\ program[i].name = n
  BY EvaluateType DEF DefinitionOf
<1> DEFINE a == program[i].alts[1]
<1>2. /\ a \in Alternative /\ ~MentionsFloatWord(a) /\ AltValue(c, a) # None
      /\ Evaluate(c, n).state = AltValue(c, a)
  BY <1>1, EvaluateType
<1>3. AltValue(d, a) = AltValue(c, a)
  BY <1>2, AltValueMonotone
<1>4. Evaluate(d, n).state = AltValue(c, a)
  BY <1>1, <1>2, <1>3, EvaluateType
<1>5. /\ Evaluate(c, n) \in Entry /\ Evaluate(c, n).origin = NoOrigin
      /\ Evaluate(d, n) \in Entry /\ Evaluate(d, n).origin = NoOrigin
  BY EvaluateType
<1>. QED BY <1>2, <1>4, <1>5 DEF Entry

LEMMA ExtendsReflexive == \A c : Extends(c, c)
BY DEF Extends

LEMMA MeaningGrows ==
  ASSUME TypeOK, Plain
  PROVE  \A k \in Nat : \A m \in Nat : Extends(Meaning[k], Meaning[k + m])
<1> DEFINE S == {k \in Nat : Extends(Meaning[k], Meaning[k + 1])}
<1>1. 0 \in S
  <2>1. Meaning[0] = EmptyCache
    BY MeaningIsIterated
  <2>2. \A n \in Names : ~IsResolved(EmptyCache[n].state)
    BY NoneIsNoValue DEF EmptyCache, IsResolved
  <2>3. \A d : Extends(EmptyCache, d)
    BY <2>2 DEF Extends
  <2>. QED BY <2>1, <2>3
<1>2. ASSUME NEW k \in Nat, k \in S PROVE k + 1 \in S
  <2>1. Meaning[k] \in Cache /\ Meaning[k + 1] \in Cache
    BY MeaningIsIterated
  <2>2. Extends(Meaning[k], Meaning[k + 1])
    BY <1>2
  <2>3. Extends([n \in Names |-> Evaluate(Meaning[k], n)],
                [n \in Names |-> Evaluate(Meaning[k + 1], n)])
    BY <2>1, <2>2, RoundMonotone
  <2>. QED BY <2>3, MeaningIsIterated
<1> HIDE DEF S
<1>3. \A k \in Nat : Extends(Meaning[k], Meaning[k + 1])
  BY <1>1, <1>2, SetInduction DEF S
<1> SUFFICES ASSUME NEW k \in Nat PROVE \A m \in Nat : Extends(Meaning[k], Meaning[k + m])
  OBVIOUS
<1> DEFINE T == {m \in Nat : Extends(Meaning[k], Meaning[k + m])}
<1>4. 0 \in T
  BY ExtendsReflexive
<1>5. ASSUME NEW m \in Nat, m \in T PROVE m + 1 \in T
  <2>1. k + m \in Nat /\ (k + m) + 1 = k + (m + 1) /\ k + (m + 1) \in Nat
    OBVIOUS
  <2>2. Extends(Meaning[k], Meaning[k + m]) /\ Extends(Meaning[k + m], Meaning[k + (m + 1)])
    BY <1>3, <1>5, <2>1
  <2>3. Meaning[k] \in Cache /\ Meaning[k + m] \in Cache /\ Meaning[k + (m + 1)] \in Cache
    BY <2>1, MeaningIsIterated
  <2>. QED BY <2>2, <2>3, ExtendsTransitive
<1> HIDE DEF T
<1>. QED BY <1>4, <1>5, SetInduction DEF T

LEMMA MeaningOrdered ==
  ASSUME TypeOK, Plain, NEW k \in Nat, NEW m \in Nat
  PROVE  Extends(Meaning[k], Meaning[m]) \/ Extends(Meaning[m], Meaning[k])
<1>1. CASE k <= m
  <2>1. m - k \in Nat /\ k + (m - k) = m
    BY <1>1
  <2>. QED BY <2>1, MeaningGrows
<1>2. CASE m <= k
  <2>1. k - m \in Nat /\ m + (k - m) = k
    BY <1>2
  <2>. QED BY <2>1, MeaningGrows
<1>. QED BY <1>1, <1>2

(* As many rounds as there are names are enough: a round that adds no      *)
(* value is the last that could.                                           *)
ResolvedIn(k) == {n \in Names : IsResolved(Meaning[k][n].state)}

LEMMA MeaningSettles ==
  ASSUME TypeOK, Plain, NEW k \in Nat
  PROVE  Extends(Meaning[k], Meaning[Cardinality(Names)])
<1> DEFINE K == Cardinality(Names)
           Still(m) == Extends(Meaning[m + 1], Meaning[m])
           S == {m \in Nat : (\E j \in 0..(m - 1) : Still(j)) \/ Cardinality(ResolvedIn(m)) >= m}
<1>0. K \in Nat
  BY NamesAssumption, FS_CardinalityType
<1>1. ASSUME NEW m \in Nat PROVE IsFiniteSet(ResolvedIn(m)) /\ Cardinality(ResolvedIn(m)) \in Nat
  BY NamesAssumption, FS_Subset, FS_CardinalityType DEF ResolvedIn
<1>2. 0 \in S
  BY <1>1
<1>3. ASSUME NEW m \in Nat PROVE ResolvedIn(m) \subseteq ResolvedIn(m + 1)
  <2>1. Extends(Meaning[m], Meaning[m + 1])
    BY MeaningGrows
  <2>. QED BY <2>1 DEF Extends, ResolvedIn
<1>4. ASSUME NEW m \in Nat, ResolvedIn(m) = ResolvedIn(m + 1) PROVE Still(m)
  <2>1. Extends(Meaning[m], Meaning[m + 1])
    BY MeaningGrows
  <2>. QED BY <1>4, <2>1 DEF Extends, ResolvedIn
<1>5. ASSUME NEW m \in Nat, m \in S PROVE m + 1 \in S
  <2>1. CASE \E j \in 0..(m - 1) : Still(j)
    <3>1. PICK j \in 0..(m - 1) : Still(j)
      BY <2>1
    <3>2. j \in 0..((m + 1) - 1)
      OBVIOUS
    <3>. QED BY <3>1, <3>2
  <2>2. CASE Still(m)
    <3>1. m \in 0..((m + 1) - 1)
      OBVIOUS
    <3>. QED BY <2>2, <3>1
  <2>3. CASE Cardinality(ResolvedIn(m)) >= m /\ ~Still(m)
    <3>1. ResolvedIn(m) # ResolvedIn(m + 1) /\ ResolvedIn(m) \subseteq ResolvedIn(m + 1)
      BY <1>3, <1>4, <2>3
    <3>2. m + 1 \in Nat
      OBVIOUS
    <3>3. Cardinality(ResolvedIn(m)) < Cardinality(ResolvedIn(m + 1))
      <4>1. IsFiniteSet(ResolvedIn(m + 1)) /\ Cardinality(ResolvedIn(m + 1)) \in Nat
        BY <1>1, <3>2
      <4>2. /\ Cardinality(ResolvedIn(m)) <= Cardinality(ResolvedIn(m + 1))
            /\ Cardinality(ResolvedIn(m)) = Cardinality(ResolvedIn(m + 1)) =>
                 ResolvedIn(m) = ResolvedIn(m + 1)
        BY <3>1, <4>1, FS_Subset
      <4>. QED BY <1>1, <3>1, <4>1, <4>2
    <3>4. Cardinality(ResolvedIn(m + 1)) >= m + 1
      BY <1>1, <2>3, <3>2, <3>3
    <3>. QED BY <3>4
  <2>. QED BY <1>5, <2>1, <2>2, <2>3
<1>6. K \in S
  <2> HIDE DEF S, K
  <2>. QED BY <1>0, <1>2, <1>5, SetInduction
<1> HIDE DEF K
<1>7. ASSUME NEW m \in Nat, Still(m), NEW p \in Nat PROVE Extends(Meaning[m + p], Meaning[m])
  <2> DEFINE T == {q \in Nat : Extends(Meaning[m + q], Meaning[m])}
  <2>1. 0 \in T
    BY ExtendsReflexive
  <2>2. ASSUME NEW q \in Nat, q \in T PROVE q + 1 \in T
    <3>1. m + q \in Nat /\ (m + q) + 1 = m + (q + 1) /\ m + (q + 1) \in Nat /\ m + 1 \in Nat
      OBVIOUS
    <3>2. /\ Meaning[m] \in Cache /\ Meaning[m + q] \in Cache
          /\ Meaning[m + 1] \in Cache /\ Meaning[m + (q + 1)] \in Cache
      BY <3>1, MeaningIsIterated
    <3>3. Extends(Meaning[m + q], Meaning[m])
      BY <2>2
    <3>4. Extends([n \in Names |-> Evaluate(Meaning[m + q], n)],
                  [n \in Names |-> Evaluate(Meaning[m], n)])
      BY <3>2, <3>3, RoundMonotone
    <3>5. Extends(Meaning[m + (q + 1)], Meaning[m + 1])
      BY <3>1, <3>4, MeaningIsIterated
    <3>6. Extends(Meaning[m + (q + 1)], Meaning[m])
      BY <1>7, <3>2, <3>5, ExtendsTransitive
    <3>. QED BY <3>6
  <2> HIDE DEF T
  <2>3. p \in T
    BY <2>1, <2>2, SetInduction
  <2>. QED BY <2>3 DEF T
<1>8. \E j \in Nat : j <= K /\ Still(j)
  <2>1. CASE \E j \in 0..(K - 1) : Still(j)
    <3>1. PICK j \in 0..(K - 1) : Still(j)
      BY <2>1
    <3>2. j \in Nat /\ j <= K
      BY <1>0
    <3>. QED BY <3>1, <3>2
  <2>2. CASE Cardinality(ResolvedIn(K)) >= K
    <3>1. ResolvedIn(K) \subseteq Names /\ ResolvedIn(K + 1) \subseteq Names
      BY DEF ResolvedIn
    <3>2. ResolvedIn(K) = Names
      <4>1. /\ Cardinality(ResolvedIn(K)) <= K
            /\ Cardinality(ResolvedIn(K)) = K => ResolvedIn(K) = Names
        BY <3>1, NamesAssumption, FS_Subset DEF K
      <4>. QED BY <1>0, <1>1, <2>2, <4>1
    <3>3. Still(K)
      BY <1>0, <1>3, <1>4, <3>1, <3>2
    <3>. QED BY <1>0, <3>3
  <2>. QED BY <1>6, <2>1, <2>2
<1>9. PICK j \in Nat : j <= K /\ Still(j)
  BY <1>8
<1>10. Extends(Meaning[j], Meaning[K])
  <2>1. K - j \in Nat /\ j + (K - j) = K
    BY <1>0, <1>9
  <2>. QED BY <2>1, MeaningGrows
<1>11. CASE k <= j
  <2>1. j - k \in Nat /\ k + (j - k) = j
    BY <1>11
  <2>2. Extends(Meaning[k], Meaning[j])
    BY <2>1, MeaningGrows
  <2>3. Meaning[k] \in Cache /\ Meaning[j] \in Cache /\ Meaning[K] \in Cache
    BY <1>0, MeaningIsIterated
  <2>. QED BY <1>10, <2>2, <2>3, ExtendsTransitive DEF K
<1>12. CASE j <= k
  <2>1. k - j \in Nat /\ j + (k - j) = k
    BY <1>12
  <2>2. Extends(Meaning[k], Meaning[j])
    BY <1>7, <1>9, <2>1
  <2>3. Meaning[k] \in Cache /\ Meaning[j] \in Cache /\ Meaning[K] \in Cache
    BY <1>0, MeaningIsIterated
  <2>. QED BY <1>10, <2>2, <2>3, ExtendsTransitive DEF K
<1>. QED BY <1>11, <1>12

LEMMA MeaningIsConstant ==
  ASSUME program' = program
  PROVE  Meaning' = Meaning /\ (Plain' <=> Plain)
<1>1. Meaning' = Meaning
  BY DEF Meaning, Evaluate, DefinitionOf
<1>2. Plain' <=> Plain
  BY DEF Plain
<1>. QED BY <1>1, <1>2

(* Everything in the cache is reached by evaluating often enough.          *)
Meant == Plain => \E k \in Nat : Extends(Bare(cache), Meaning[k])

LEMMA MeantStep ==
  ASSUME TypeOK, TypeOK', [Next]_vars, Meant
  PROVE  Meant'
<1>1. program' = program
  BY DEF Next, vars, Seed, RangeAlt, RangeEnd, CtlopAlt, CtlopEnd, EndIteration
<1> SUFFICES ASSUME Plain PROVE \E k \in Nat : Extends(Bare(cache'), Meaning[k])
  BY <1>1, MeaningIsConstant DEF Meant, Bare
<1>2. PICK k \in Nat : Extends(Bare(cache), Meaning[k])
  BY DEF Meant
<1>3. ASSUME NEW c, Prepared(c) PROVE c \in Cache /\ Extends(Bare(c), Meaning[k])
  <2>1. c \in Cache /\ \A n \in Names : IsResolved(c[n].state) => c[n] = cache[n]
    BY <1>3, PreparedIsTouched DEF Touched
  <2>. QED BY <1>2, <2>1 DEF Extends, Bare
<1>4. CASE Prepared(cache')
  BY <1>3, <1>4
<1>5. ASSUME NEW c, NEW v, NEW j, Folding(c, v, j)
      PROVE  Extends(Bare(cache'), Meaning[k + 1])
  <2> DEFINE n == current.name
             a == current.alts[j]
  <2>1. /\ c \in Cache /\ Extends(Bare(c), Meaning[k]) /\ v \in Value /\ v = AltValue(c, a)
        /\ node \in 1..Len(program) /\ n \in Names /\ current.define
        /\ j \in 1..Len(current.alts)
    BY <1>3, <1>5, CurrentIsRule DEF Folding
  <2>2. j = 1
    BY <2>1 DEF Plain, current
  <2>3. a \in Alternative /\ ~MentionsFloatWord(a)
    BY <2>1, <2>2, CurrentIsRule DEF Plain, current
  <2>4. Meaning[k] \in Cache /\ Bare(c) \in Cache /\ AltValue(Bare(c), a) = v /\ v # None
    BY <2>1, <2>3, MeaningIsIterated, BareEvaluates, NoneIsNoValue
  <2>5. AltValue(Meaning[k], a) = v
    BY <2>1, <2>3, <2>4, AltValueMonotone
  <2>6. Evaluate(Meaning[k], n).state = v /\ Evaluate(Meaning[k], n).origin = NoOrigin
        /\ Evaluate(Meaning[k], n) \in Entry
    BY <2>1, <2>2, <2>4, <2>5, EvaluateType DEF current
  <2>7. Meaning[k + 1][n] = [state |-> v, origin |-> NoOrigin]
    <3>1. Meaning[k + 1][n] = Evaluate(Meaning[k], n)
      BY <2>1, MeaningIsIterated
    <3>2. \A e \in Entry : e = [state |-> e.state, origin |-> e.origin]
      BY DEF Entry
    <3>. QED BY <2>6, <3>1, <3>2
  <2>8. Extends(Meaning[k], Meaning[k + 1])
    BY MeaningGrows
  <2> HIDE DEF n, a
  <2>9. ASSUME NEW m \in Names, IsResolved(cache'[m].state)
        PROVE  Meaning[k + 1][m] = [state |-> cache'[m].state, origin |-> NoOrigin]
    <3>1. cache'[m] = c[m] \/ (m = n /\ cache'[m] = [state |-> v, origin |-> node])
      BY <1>5, FoldingExtends DEF n
    <3>2. CASE cache'[m] = c[m]
      <4>1. Meaning[k][m] = [state |-> c[m].state, origin |-> NoOrigin]
        BY <2>1, <2>9, <3>2 DEF Extends, Bare
      <4>. QED BY <2>8, <2>9, <3>2, <4>1 DEF Extends
    <3>. QED BY <2>7, <3>1, <3>2
  <2>. QED BY <2>9 DEF Extends, Bare
<1>6. k + 1 \in Nat
  OBVIOUS
<1>. QED BY <1>2, <1>4, <1>5, <1>6, CacheEffect

LEMMA MeantHolds == Spec => []Meant
<1>1. Init => Meant
  <2> SUFFICES ASSUME Init PROVE Extends(Bare(cache), Meaning[0])
    BY DEF Meant
  <2>1. \A n \in Names : ~IsResolved(cache[n].state)
    BY NoneIsNoValue DEF Init, EmptyCache, IsResolved
  <2>. QED BY <2>1 DEF Extends, Bare
<1>2. TypeOK /\ TypeOK' /\ Meant /\ [Next]_vars => Meant'
  BY MeantStep
<1>. QED BY <1>1, <1>2, TypeCorrect, PTL DEF Spec

LEMMA DoneHasMeaning ==
  ASSUME TypeOK, FixpointReached, Meant, pass = "done", Plain
  PROVE  \A k \in Nat : Extends(Meaning[k], Bare(cache))
<1> DEFINE S == {k \in Nat : Extends(Meaning[k], Bare(cache))}
<1>1. 0 \in S
  <2>1. \A n \in Names : ~IsResolved(EmptyCache[n].state)
    BY NoneIsNoValue DEF EmptyCache, IsResolved
  <2>. QED BY <2>1, MeaningIsIterated DEF Extends
<1>2. ASSUME NEW k \in Nat, k \in S PROVE k + 1 \in S
  <2>1. Extends(Meaning[k], Bare(cache)) /\ Meaning[k] \in Cache
    BY <1>2, MeaningIsIterated
  <2>2. cache \in Cache
    BY DEF TypeOK
  <2>3. ASSUME NEW n \in Names, IsResolved(Meaning[k + 1][n].state)
        PROVE  Bare(cache)[n] = Meaning[k + 1][n]
    <3>1. Meaning[k + 1][n] = Evaluate(Meaning[k], n)
      BY MeaningIsIterated
    <3>2. PICK i \in 1..Len(program) : program[i].define /\ program[i].name = n
      BY <2>1, <2>3, <3>1, EvaluateType DEF DefinitionOf
    <3> DEFINE a == program[i].alts[1]
    <3>3. a \in Alternative /\ ~MentionsFloatWord(a) /\ AltValue(Meaning[k], a) # None
      BY <2>1, <2>3, <3>1, <3>2, EvaluateType
    <3>4. Bare(cache) \in Cache /\ AltValue(Bare(cache), a) = AltValue(cache, a)
      BY <2>2, <3>3, BareEvaluates
    <3>5. AltValue(cache, a) # None
      BY <2>1, <3>3, <3>4, AltValueMonotone
    <3>6. 1 \in 1..Len(program[i].alts) /\ Folds(program[i], 1)
      BY DEF Plain, Folds
    <3>7. IsResolved(cache[n].state)
      BY <3>2, <3>5, <3>6 DEF FixpointReached
    <3>8. PICK m \in Nat : Extends(Bare(cache), Meaning[m])
      BY DEF Meant
    <3>9. Meaning[m][n] = Bare(cache)[n] /\ IsResolved(Meaning[m][n].state)
      BY <3>7, <3>8 DEF Extends, Bare
    <3>10. k + 1 \in Nat
      OBVIOUS
    <3>11. Meaning[m][n] = Meaning[k + 1][n]
      BY <2>3, <3>9, <3>10, MeaningOrdered DEF Extends
    <3>. QED BY <3>9, <3>11
  <2>. QED BY <2>3 DEF Extends
<1> HIDE DEF S
<1>. QED BY <1>1, <1>2, SetInduction DEF S

(* The order of the rules does not matter: when the loop stops, the cache  *)
(* of a program without clashing definitions holds exactly the values that *)
(* evaluating all definitions together, round by round, gives the names.   *)
THEOREM ValuesAreTheMeaning == Spec => []AgreesWithMeaning
<1>1. TypeOK /\ FixpointReached /\ Meant => AgreesWithMeaning
  <2> SUFFICES ASSUME TypeOK, FixpointReached, Meant, pass = "done", Plain, NEW n \in Names
               PROVE  LET meant == Meaning[Cardinality(Names)][n].state
                      IN IF IsResolved(meant) THEN cache[n].state = meant
                                              ELSE ~IsResolved(cache[n].state)
    BY DEF AgreesWithMeaning
  <2> DEFINE K == Cardinality(Names)
             meant == Meaning[K][n].state
  <2>1. K \in Nat
    BY NamesAssumption, FS_CardinalityType
  <2>2. CASE IsResolved(meant)
    <3>1. Extends(Meaning[K], Bare(cache))
      BY <2>1, DoneHasMeaning
    <3>2. Bare(cache)[n] = Meaning[K][n]
      BY <2>2, <3>1 DEF Extends
    <3>3. cache[n].state = meant
      BY <3>2 DEF Bare
    <3>. QED BY <2>2, <3>3
  <2>3. ASSUME IsResolved(cache[n].state) PROVE IsResolved(meant)
    <3>1. PICK m \in Nat : Extends(Bare(cache), Meaning[m])
      BY DEF Meant
    <3>2. Bare(cache)[n].state = cache[n].state
      BY DEF Bare
    <3>3. IsResolved(Meaning[m][n].state)
      BY <2>3, <3>1, <3>2 DEF Extends
    <3>4. Extends(Meaning[m], Meaning[K])
      BY MeaningSettles
    <3>. QED BY <3>3, <3>4 DEF Extends
  <2>. QED BY <2>2, <2>3
<1>. QED BY <1>1, TypeCorrect, StopsAtFixpoint, MeantHolds, PTL

(* What the loop leaves when it stops: a fixpoint, which is the meaning of *)
(* the program, and no report of a rule for having been read twice.        *)
THEOREM LoopSettles == Spec => []Settled
<1>1. FixpointReached /\ AgreesWithMeaning /\ WarningsHaveTwoSources => Settled
  BY DEF Settled
<1>. QED BY <1>1, StopsAtFixpoint, ValuesAreTheMeaning, WarningsAreEarned, PTL
===============================================================================
