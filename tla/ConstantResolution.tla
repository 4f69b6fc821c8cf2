-------------------------- MODULE ConstantResolution --------------------------
(***************************************************************************)
(* The fixed-point pass that finds the constant value of each rule         *)
(* (semantic.rs with the three passes of seedops.rs, rangeop.rs and        *)
(* ctlop.rs).  A program is a sequence of rules; a rule's right-hand side  *)
(* is a sequence of alternatives (the `type1` nodes of a `type`).  One     *)
(* iteration goes over the top-level nodes of the tree in order; a node is *)
(* a rule with the rules nested below it, or the rules that a directive    *)
(* brought in.  Each of the three passes walks the whole node before the   *)
(* next one begins.  The loop ends when an iteration leaves the number of  *)
(* unresolved entries as it found it.                                      *)
(***************************************************************************)
EXTENDS ResolverCache, Sequences

CONSTANTS
  InfWords,  \* names that parse as a Rust float: inf, infinity
  NaNWords,  \* and nan, in any case
  Programs   \* the programs compiled

FloatWords == InfWords \cup NaNWords

(* An operand is a literal or the name of a type; a name that is spelled   *)
(* like a float parses as one when it is read as an operand of an operator.*)
(* A "prefixed" literal is an integer written 0x.. or 0b.. .               *)
Operand == [kind : {"literal", "prefixed"}, value : Scalar]
           \cup [kind : {"ref"}, name : Names]

Ops == {"operand", "range", "plus", "cat", "encode"}
Alternative == [op : Ops, exclusive : BOOLEAN, lhs : Operand, rhs : Operand]

(* `opens`: the rule begins a top-level node, and is not nested in the one *)
(* of the rule before it.  What is below an extension (`/=`) is no rule of *)
(* the program: every pass returns at the extension.                       *)
Rule == [name : Names, file : Nat, define : BOOLEAN, opens : BOOLEAN,
         alts : Seq(Alternative)]

ASSUME ProgramsAssumption == /\ FloatWords \subseteq Names
                             /\ Programs \subseteq Seq(Rule)

VARIABLES
  program,   \* the rules, in source order
  cache,     \* the ResolverCache
  metadata,  \* metadata[i]: the flags of rule i
  warnings,  \* the diagnostics, as <<code, rule>>
  prev,      \* unresolved entries before the iteration
  pass,      \* "seed", "range" or "ctlop" of the node being walked, or "done"
  top,       \* the first rule of that node
  node,      \* the rule being visited
  alt        \* the alternative being visited

vars == <<program, cache, metadata, warnings, prev, pass, top, node, alt>>

None == [kind |-> "none"]
Flags == {"RedundantDefinition", "ConflictingDefinition",
          "RangeTypeMismatch", "CtlopTypeMismatch"}
-------------------------------------------------------------------------------
IsFloat(v)  == v.kind \in {"float", "inf", "-inf", "nan"}
IsNumber(v) == v.kind = "int" \/ IsFloat(v)

(* The value of an operand of an operator (`resolve_type2_leaf`): a name   *)
(* has its resolved value; other text counts when it parses as a decimal   *)
(* number or as a float, which some names do.                              *)
LeafValue(c, operand) ==
  IF operand.kind = "ref"
    THEN IF IsResolved(c[operand.name].state)     THEN c[operand.name].state
         ELSE IF operand.name \in InfWords        THEN Infinity
         ELSE IF operand.name \in NaNWords        THEN NaN
         ELSE None
    ELSE IF operand.kind = "literal" /\ IsNumber(operand.value)
           THEN operand.value
           ELSE None

(* What a range's two operands make: bounds of the same numeric family.    *)
RangeOf(a, l, r) ==
  IF \/ l.kind = "int" /\ r.kind = "int"
     \/ IsFloat(l) /\ IsFloat(r)
    THEN [kind |-> IF l.kind = "int" THEN "range_int" ELSE "range_float",
          exclusive |-> a.exclusive, min |-> l, max |-> r]
    ELSE None

IsUtf8(v)   == v.kind \in {"text", "bytes"}
IsBytes(v)  == v.kind \in {"bytes", "blob"}

(* Mutant: the integer addition wraps.                                     *)
PlusWrapping(l, r) ==
  IF l.kind = "int" /\ r.kind = "int"
    THEN [kind |-> "int",
          val |-> IF l.val + r.val <= MaxInt THEN l.val + r.val
                                             ELSE l.val + r.val - 2 * (MaxInt + 1)]
    ELSE None

(* The sum of two numbers as floats.                                       *)
FloatSum(l, r) ==
  IF NaN \in {l, r} \/ {l, r} = {Infinity, MinInfinity} THEN NaN
  ELSE IF Infinity \in {l, r}    THEN Infinity
  ELSE IF MinInfinity \in {l, r} THEN MinInfinity
  ELSE [kind |-> "float", val |-> l.val + r.val]

(* `.plus` adds numbers, a checked addition when both are integers.        *)
PlusOf(l, r) ==
  IF ~(IsNumber(l) /\ IsNumber(r))     THEN None
  ELSE IF IsFloat(l) \/ IsFloat(r)     THEN FloatSum(l, r)
  ELSE IF l.val + r.val <= MaxInt
    THEN [kind |-> "int", val |-> l.val + r.val]
  ELSE None

(* `.cat` joins strings and gives bytes when either is.                    *)
CatOf(l, r) ==
  IF IsUtf8(l) /\ IsUtf8(r)
    THEN [kind |-> IF IsBytes(l) \/ IsBytes(r) THEN "bytes" ELSE "text",
          val |-> l.val + r.val]
    ELSE None

(* An encoding takes bytes to their text.                                  *)
EncodingOf(r) == IF IsBytes(r) THEN [kind |-> "text", val |-> r.val] ELSE None

CtlopOf(a, l, r) == IF a.op = "plus"        THEN PlusOf(l, r)
                    ELSE IF a.op = "cat"    THEN CatOf(l, r)
                    ELSE IF a.op = "encode" THEN EncodingOf(r)
                    ELSE None

(* The control operators that tag the rule: a known operand of the wrong   *)
(* family.  An unknown operand and `.plus` never do.                       *)
CtlopMismatch(a, l, r) ==
  \/ a.op = "cat" /\ \E v \in {l, r} : v # None /\ ~IsUtf8(v)
  \/ a.op = "encode" /\ r # None /\ ~IsBytes(r)

(* The value an alternative has in a cache, by the operation it is.        *)
AltValue(c, a) ==
  LET l == LeafValue(c, a.lhs)
      r == LeafValue(c, a.rhs)
  IN IF a.op = "operand"
       THEN IF a.lhs.kind # "ref" THEN a.lhs.value
            ELSE IF IsResolved(c[a.lhs.name].state) THEN c[a.lhs.name].state
            ELSE None
     ELSE IF a.op = "range" THEN RangeOf(a, l, r)
     ELSE CtlopOf(a, l, r)
-------------------------------------------------------------------------------
TypeOK ==
  /\ program \in Programs
  /\ cache \in Cache
  /\ metadata \in [1..Len(program) -> SUBSET Flags]
  /\ warnings \subseteq {"W001", "E014"} \X (1..Len(program))
  /\ prev \in Nat
  /\ pass \in {"seed", "range", "ctlop", "done"}
  /\ top \in Nat \ {0}
  /\ node \in Nat \ {0}
  /\ alt \in Nat \ {0}

Init ==
  /\ program \in Programs
  /\ cache = EmptyCache
  /\ metadata = [i \in 1..Len(program) |-> {}]
  /\ warnings = {}
  /\ prev = 0
  /\ pass = "seed"
  /\ top = 1
  /\ node = 1
  /\ alt = 1

Visiting(p) == pass = p /\ node <= Len(program)
current == program[node]

(* A pass is done with a rule: it goes on to the rules nested after it.    *)
(* When it is at the end of the node, the next pass walks the same node    *)
(* from its first rule; after the last pass the next node begins.          *)
EndOfNode == node < Len(program) => program[node + 1].opens
NextRule == ~EndOfNode /\ node' = node + 1 /\ alt' = 1 /\ UNCHANGED <<pass, top>>
NextPass(p) == EndOfNode /\ pass' = p /\ node' = top /\ alt' = 1 /\ UNCHANGED top
NextNode == EndOfNode /\ pass' = "seed" /\ top' = node + 1 /\ node' = node + 1 /\ alt' = 1

(* What the owning rule is told of a refused write: a flag, and a          *)
(* diagnostic.  The set of diagnostics is what is left of the list once    *)
(* duplicates are dropped.                                                 *)
Report(flag, code, extra) ==
  /\ metadata' = [metadata EXCEPT ![node] = @ \cup {flag} \cup extra]
  /\ warnings' = warnings \cup {<<code, node>>}
Silent(extra) ==
  /\ metadata' = [metadata EXCEPT ![node] = @ \cup extra]
  /\ UNCHANGED warnings

(* A write from the range and control-operator passes                      *)
(* (`handle_rangeop_error` reports the refusals).                          *)
Write(n, v, extra) ==
  LET result == WriteResult(cache[n], v, node)
  IN /\ cache' = ResolveWithOrigin(cache, n, v, node)
     /\ IF result = "redundant" THEN Report("RedundantDefinition", "W001", extra)
        ELSE IF result = "conflicting" THEN Report("ConflictingDefinition", "E014", extra)
        ELSE Silent(extra)

(* The definition that resolved n lives in another file than this rule.    *)
CrossLibrary(c, n) == c[n].origin # NoOrigin
                      /\ program[c[n].origin].file # current.file

(* A write from the seed pass: W001 once per rule, E014 once per rule and  *)
(* only within a file.                                                     *)
SeedWrite(c, n, v) ==
  LET result == WriteResult(c[n], v, node)
  IN /\ cache' = ResolveWithOrigin(c, n, v, node)
     /\ IF result = "redundant" THEN Report("RedundantDefinition", "W001", {})
        ELSE IF result = "conflicting" /\ ~CrossLibrary(c, n)
          THEN Report("ConflictingDefinition", "E014", {})
        ELSE Silent({})

(* The right-hand side is one operand: a literal, or a bare name.          *)
IsLeaf(rule) == Len(rule.alts) = 1 /\ rule.alts[1].op = "operand"

(* The names the seed pass touches in the cache.                           *)
SeedTouched(c, rule) ==
  LET own == Get(c, rule.name)
  IN IF IsLeaf(rule) /\ rule.alts[1].lhs.kind = "ref"
       THEN Get(own, rule.alts[1].lhs.name)
       ELSE own

Seed ==
  /\ Visiting("seed")
  /\ IF current.define
       THEN LET c == SeedTouched(cache, current)
                v == IF IsLeaf(current) THEN AltValue(c, current.alts[1]) ELSE None
            IN IF v = None
                 THEN cache' = c /\ UNCHANGED <<metadata, warnings>>
                 ELSE SeedWrite(c, current.name, v)
       ELSE UNCHANGED <<cache, metadata, warnings>>
  /\ NextRule \/ NextPass("range")
  /\ UNCHANGED <<program, prev>>

(* The alternatives left to visit in the range or control-operator pass.   *)
(* Both skip a rule that extends another (`/=`).                           *)
MoreAlts == current.define /\ alt <= Len(current.alts)

RangeAlt ==
  /\ Visiting("range") /\ MoreAlts
  /\ LET a == current.alts[alt]
         v == RangeOf(a, LeafValue(cache, a.lhs), LeafValue(cache, a.rhs))
     IN IF a.op = "range"
          THEN IF v # None
                 THEN Write(current.name, v, {})
                 ELSE Silent({"RangeTypeMismatch"}) /\ UNCHANGED cache
          ELSE UNCHANGED <<cache, metadata, warnings>>
  /\ alt' = alt + 1
  /\ UNCHANGED <<program, prev, pass, top, node>>

RangeEnd ==
  /\ Visiting("range") /\ ~MoreAlts
  /\ NextRule \/ NextPass("ctlop")
  /\ UNCHANGED <<program, cache, metadata, warnings, prev>>

CtlopAlt ==
  /\ Visiting("ctlop") /\ MoreAlts
  /\ LET a == current.alts[alt]
         l == LeafValue(cache, a.lhs)
         r == LeafValue(cache, a.rhs)
         v == CtlopOf(a, l, r)
         extra == IF CtlopMismatch(a, l, r) THEN {"CtlopTypeMismatch"} ELSE {}
     IN IF v # None
          THEN Write(current.name, v, extra)
          ELSE Silent(extra) /\ UNCHANGED cache
  /\ alt' = alt + 1
  /\ UNCHANGED <<program, prev, pass, top, node>>

CtlopEnd ==
  /\ Visiting("ctlop") /\ ~MoreAlts
  /\ NextRule \/ NextNode
  /\ UNCHANGED <<program, cache, metadata, warnings, prev>>

(* Mutant: stop unless the count went up.                                  *)
EndIterationUnlessGrowing ==
  /\ pass = "seed" /\ node > Len(program)
  /\ LET now == CntUnresolved(cache)
     IN IF now >= prev
          THEN pass' = "done" /\ UNCHANGED <<top, node, alt, prev>>
          ELSE pass' = "seed" /\ top' = 1 /\ node' = 1 /\ alt' = 1 /\ prev' = now
  /\ UNCHANGED <<program, cache, metadata, warnings>>

(* Mutant: go on while anything is unresolved.                             *)
EndIterationWhenComplete ==
  /\ pass = "seed" /\ node > Len(program)
  /\ LET now == CntUnresolved(cache)
     IN IF now = 0
          THEN pass' = "done" /\ UNCHANGED <<top, node, alt, prev>>
          ELSE pass' = "seed" /\ top' = 1 /\ node' = 1 /\ alt' = 1 /\ prev' = now
  /\ UNCHANGED <<program, cache, metadata, warnings>>

(* The end of an iteration: stop when the count is the one it began with.  *)
EndIteration ==
  /\ pass = "seed" /\ node > Len(program)
  /\ LET now == CntUnresolved(cache)
     IN IF now = prev
          THEN pass' = "done" /\ UNCHANGED <<top, node, alt, prev>>
          ELSE pass' = "seed" /\ top' = 1 /\ node' = 1 /\ alt' = 1 /\ prev' = now
  /\ UNCHANGED <<program, cache, metadata, warnings>>

Next == Seed \/ RangeAlt \/ RangeEnd \/ CtlopAlt \/ CtlopEnd \/ EndIteration

Spec == Init /\ [][Next]_vars
FairSpec == Spec /\ WF_vars(Next)
-------------------------------------------------------------------------------
(* A resolved entry is never written again, whichever pass revisits the    *)
(* rule in a later iteration: values that were copied from it stay right.  *)
ResolvedIsFinal ==
  [][\A n \in Names : IsResolved(cache[n].state) => cache'[n] = cache[n]]_vars

MentionsFloatWord(a) ==
  \E operand \in {a.lhs, a.rhs} : operand.kind = "ref" /\ operand.name \in FloatWords

(* The alternatives a pass may turn into the rule's value: all but a bare  *)
(* operand inside a choice.                                                *)
Folds(rule, j) == rule.alts[j].op # "operand" \/ Len(rule.alts) = 1

(* Every value in the cache is still, with the cache as it is now, what    *)
(* the definition it came from evaluates to: nothing a pass read from the  *)
(* cache to compute it has changed since.                                  *)
Justified ==
  \A n \in Names : IsResolved(cache[n].state) =>
    LET i == cache[n].origin
    IN /\ i \in 1..Len(program) /\ program[i].name = n /\ program[i].define
       /\ \E j \in 1..Len(program[i].alts) :
            LET a == program[i].alts[j]
            IN MentionsFloatWord(a) \/ AltValue(cache, a) = cache[n].state

(* Comparing only two counts does not stop the loop early: when it ends,   *)
(* no definition evaluates to a value that its name does not have.         *)
FixpointReached ==
  pass = "done" =>
    \A i \in 1..Len(program) : \A j \in 1..Len(program[i].alts) :
      /\ program[i].define
      /\ Folds(program[i], j)
      /\ AltValue(cache, program[i].alts[j]) # None
      => IsResolved(cache[program[i].name].state)

(* Revisiting a rule is idempotent, but for two departures of the code     *)
(* that the README lists: a rule is reported as redundant or conflicting   *)
(* only if its name has a second definition or alternative, if it mentions *)
(* a name spelled like a float, which one iteration can read as a number   *)
(* and the next one as the value of its rule, or if the value it has given *)
(* its name has a NaN in it, which every visit finds to be another value.  *)
WarningsHaveTwoSources ==
  \A w \in warnings :
    \/ HasNaN(cache[program[w[2]].name].state)
    \/ Len(program[w[2]].alts) > 1
    \/ \E j \in 1..Len(program[w[2]].alts) : MentionsFloatWord(program[w[2]].alts[j])
    \/ \E k \in 1..Len(program) \ {w[2]} : program[k].name = program[w[2]].name

(* A program in which order cannot matter: one definition for a name, no   *)
(* choices, no name spelled like a float.                                  *)
Plain ==
  /\ \A i, k \in 1..Len(program) : program[i].name = program[k].name => i = k
  /\ \A i \in 1..Len(program) : /\ Len(program[i].alts) = 1
                                /\ ~MentionsFloatWord(program[i].alts[1])

(* The values of the names by definition: evaluate all definitions at once *)
(* on the values of the previous round, as often as there are names.       *)
DefinitionOf(n) == {i \in 1..Len(program) : program[i].define /\ program[i].name = n}
Evaluate(c, n) ==
  LET i == CHOOSE i \in DefinitionOf(n) : TRUE
      v == IF DefinitionOf(n) = {} THEN None ELSE AltValue(c, program[i].alts[1])
  IN [state |-> IF v = None THEN Unresolved ELSE v, origin |-> NoOrigin]
Meaning[k \in Nat] ==
  IF k = 0 THEN EmptyCache ELSE [n \in Names |-> Evaluate(Meaning[k - 1], n)]

(* The order of the rules does not matter: for a plain program the loop    *)
(* ends with the values the definitions have.                              *)
AgreesWithMeaning ==
  pass = "done" /\ Plain =>
    \A n \in Names :
      LET meant == Meaning[Cardinality(Names)][n].state
      IN IF IsResolved(meant) THEN cache[n].state = meant
                              ELSE ~IsResolved(cache[n].state)

(* When the loop is over nothing that folds is left, every value is the one *)
(* the definitions have, and no rule was reported for being read twice     *)
(* (with the two exceptions that WarningsHaveTwoSources names).            *)
Settled == FixpointReached /\ AgreesWithMeaning /\ WarningsHaveTwoSources

(* The loop ends, whatever cycles the definitions have.                    *)
Terminates == <>(pass = "done")
===============================================================================
