# A formal model of CBORK

CBORK is a tool kit for CDDL, the schema language of CBOR: a compiler that
reads a schema and the modules it names and reduces it to a tree of
definitions with resolved constants, a linter and a renderer on top of it, a
validator of CBOR documents, and a command that installs the skill files
shipped with the tool. This directory holds TLA+ models of the parts whose
behaviour depends on order, repetition, interference or failure, the TLC
configurations that check them on small instances, and proofs, checked by
TLAPS, of what must hold on all of them.

Paths below are relative to `crates/`. "compiler" is
`cbork-cddl-compiler/src`, "cli" is `cbork/src`.

## 1. Inventory of the system

| part | code | state it keeps | operations | interacts with |
|---|---|---|---|---|
| grammar and preprocessor | `cbork-cddl-parser/src`, compiler `parser.rs`, `preprocessor.rs` | none | `parse_cddl`, `process_ast` | the resolver and the compiler call it per module |
| directives | `cbork-cddl-parser/src/modules` | none | parse `;# import`/`;# include`, `FileName::resolve` | catalog, file system |
| catalog | `cbork-catalog` | constant table | `lookup` | directives |
| module resolver | compiler `resolver.rs` | `visited`, errors, imported libraries | `resolve_includes`, aliasing, prunable tags | calls the parser for every module, feeds all later passes |
| CBORK directives | compiler `compiled.rs`, `marker.rs`, `symbols.rs` | pending export, diagnostics | `Library`, `Extern`, `Export` markers | export contract checks of the last pass |
| generic expansion | compiler `generic.rs` | instances made so far | `expand_generics` | before finalization |
| finalization | compiler `finalize.rs` | the tree, prune keys, injected names | pruning, strength normalisation, postlude injection, unused directives, cycles, export contract | every other compiler part |
| constant resolution | compiler `semantic.rs`, `seedops.rs`, `rangeop.rs`, `ctlop.rs`, `resolver_cache.rs` | the cache, rule metadata, diagnostics | the fixed-point loop | run three times by finalization: user tree, postlude, replay |
| control-operator checks | compiler `ctlop.rs`, `within.rs`, cli `validate.rs` | the pairs being compared | operand families, `.within` containment (coinductive), what each operator accepts | finalization, validator |
| concrete rendering | compiler `concrete.rs` | names in progress, names to retain | expand references, keep the rest | `cbork render` |
| literals | compiler `literals/` | none | parse and re-encode text, bytes, arrays, regular expressions | constant resolution, validator |
| transformation and output | compiler `transform.rs`, `doc_block.rs`, `pretty.rs`, `schema_diff.rs`, cli `render.rs`, `render_abnf_breakdown.rs` | none | emit the effective CDDL | CLI |
| diagnostics | compiler `error.rs`, cli `diagnostics.rs`, `why.rs`, `ui.rs` | a list of diagnostics | rank, deduplicate, explain | all passes |
| validator | cli `validate.rs` | thread-local notes and hints, a list of issues | match a CBOR document against a type, with backtracking; print the annotated dump | compiler, decoder |
| lint and document checks | cli `lint.rs`, `rfc.rs`, `xref.rs`, compiler `doc_lint.rs`, `doc_semantics.rs` | none | walk the tree, report | compiler |
| CBOR helpers | `cbork-utils/src` | decoder position | decode with deterministic-encoding checks | validator, outside users |
| decode and EDN | cli `decode.rs`, `cbork-edn/src` | parser position | diagnostic notation to CBOR and back | validator |
| ABNF parser | `cbork-abnf-parser/src` | none | parse ABNF for `.abnf` | constant resolution |
| agent skills | cli `agent_skills.rs`, `cli.rs` | files, ancestors and temporary files on disk; the report | install, check, overwrite, merge, clean | file system, user, other runs |

Nothing in the repository starts a thread. Concurrency comes from outside:
several processes of the tool, and the user, share a directory. Everything
else that is hard is sequential: passes that run to a fixed point over a
shared cache, a recursive walk over a set that all levels share, several
definitions for one name, diagnostics that must not be lost or doubled, and
backtracking that must undo what it wrote.

What makes each part correct, in short:

* *module resolver*: it terminates; it finds every cycle and calls nothing
  else a cycle; success means that everything has been spliced; no error is
  lost; what may be pruned later is what no directive keeps.
* *constant resolution*: it terminates; a value in the cache is what its
  definition says and never changes; the order of rules does not matter; each
  complaint has a cause.
* *finalization*: pruning removes what is not reachable and nothing else; of
  several definitions of a name the right one survives, whatever the order.
* *validator*: what is accepted has the type, what has the type is accepted,
  the order of a map's entries is irrelevant, and the dump shows one
  derivation and nothing of the alternatives that failed.
* *control-operator checks*: what passes `.within` is contained, recursive
  types end; an operator that is refused could have matched nothing; what the
  operators accept is what they mean, and warnings belong to the way taken.
* *concrete rendering*: what is printed is CDDL, complete, means the same and
  is rendered as itself.
* *CBORK directives, unreferenced rules, cycles*: each `Export` marks one rule
  or is reported; the reports name enough and no more; nothing is lost when
  duplicates are removed.
* *CBOR helpers*: one accepted encoding per value; a path leads to the bytes
  of its part; decoders hand out what is there.
* *agent skills*: no file is cut short or replaced without consent; the
  report tells exactly what happened; interrupted and concurrent runs leave a
  directory that the next run can repair.

## 2. Modules

| module | models | checked by | proofs |
|---|---|---|---|
| `ResolverCache` | the cache as a pure data type (`resolver_cache.rs`) | through the next one | `ConstantResolutionProofs` |
| `ConstantResolution` | the loop of `semantic.rs` with its three passes | `ConstantResolution` | `ConstantResolutionProofs` |
| `ModuleResolver` | `resolver.rs` | `ModuleResolver` | `ModuleResolverProofs` |
| `DefinitionTree` | the tree that the compiler passes on, as the later passes see it | through the next one | `FinalizationProofs` |
| `Finalization` | pruning, strengths and postlude of `finalize.rs` | `Finalization` | `FinalizationProofs` |
| `Identifiers` | the constant `Names`, which the next three share | | |
| `Components` | the search for strongly connected components of `finalize.rs` | through `DocumentChecks` | `ComponentsProofs` |
| `ExportDirectives` | the `;@ CBORK:` directives of a document and of the libraries it uses (`compiled.rs`) | through the next one | `DocumentChecksProofs` |
| `DocumentChecks` | the checks of `finalize.rs` that report, the removal of duplicates | `DocumentChecks` | `DocumentChecksProofs` |
| `CddlMeaning` | what it means that a value has a type (no code: the reference) | through the next three | none |
| `Validation` | the descent of `validate.rs` and its traces | `Validation` | none |
| `Containment` | `.within` (`within.rs`) | `Containment` | none |
| `Rendering` | `concrete.rs` | `Rendering` | none |
| `ControlOperators` | the structural check of `ctlop.rs` and the operators of `validate.rs` | `ControlOperators` | none |
| `CborItems` | items in a buffer and their forms (no code: the reference) | through the next one | `SerializationProofs` |
| `Serialization` | the byte-level helpers of `cbork-utils` | `Serialization` | `SerializationProofs` |
| `SkillStore` | what the directory of skill files promises | through the next one | `AgentSkillsProofs` |
| `AgentSkills` | `agent_skills.rs` on a shared file system | `SkillsAlone`, `SkillsTogether`, `MergeTwice` | `AgentSkillsProofs` |
| `Induction` | no code: induction and recursion on the natural numbers, for sets | | itself |

Every module `X` that is checked has a module `MCX` with its small instances.
The compiler modules stand for consecutive parts of one compilation and hand
over only data: `ModuleResolver` ends with the spliced copies and their
prunable tags, `Finalization` starts from a tree with such tags,
`ConstantResolution` is the pass between its phases `declare` and `inject`,
which changes no definition, and `DocumentChecks` takes up the reports that
come before and after finalization. `Validation`, `ControlOperators` and
`Rendering` run on the result. So each can be checked on its own, over all
inputs of its kind, which is more than a composition would reach; the
documents of `MCFinalization` are placed in the tree the way the resolver and
the parser nest them. Composed are: `DocumentChecks`, which first takes the
steps of `ExportDirectives` and then runs `Components` for both of its graphs,
step by step; and `AgentSkills`, which implements `SkillStore`.

Definitions whose comment begins with "Mutant:" are wrong on purpose: each
changes the definition that follows it the way a slip in the code would, and
the property it is paired with in `PROJECT.json` must then fail. They are
used nowhere else.

### ConstantResolution

State: `cache` is the `ResolverCache`; `program` is the tree of rules, a rule
being a name, a source file, whether it is `=` or an extension, and the
alternatives of its right-hand side; `metadata` and `warnings` are what the
passes push; `prev`, `pass`, `top`, `node` and `alt` are the control state of
the loop. One action is one visit of a pass to a rule or to one alternative:
`Seed`, `RangeAlt`/`RangeEnd`, `CtlopAlt`/`CtlopEnd`, and `EndIteration` for
the comparison of the counts. The passes take turns on whole top-level nodes:
a rule either opens a node (`opens`) or is nested in the last one (a module is
nested below its directive), and each pass walks from `top` to the end of the
node before the next begins.

A value is its family and a number, which stands for the value of a number
and the length of a string: all that the operators distinguish. A float may
also be infinite or NaN, and a NaN is unequal to itself, in `WriteResult` as
in the derived comparison of `EntryState`. The operators modelled are the
ranges, `.plus`, `.cat`/`.det` and the byte encodings.

### ModuleResolver

The recursion of `resolve_includes` is `stack`; `visited` is the set all its
levels share. `Descend` is the part of `resolve_node_single` before the
recursive call, `Splice` and `GiveUp` the part after it, without and with
errors; `RejectUnresolvable`, `RejectSeen` and `RejectBroken` are its early
returns; `NextNode` and `Finish` are the loop of `resolve_includes`. `copies`
records each module spliced into the tree and which of its nodes are tagged
prunable. File contents do not change during a compilation, except that a
file may have disappeared when it is read the second time (`Condition`).

### Finalization

`DefinitionTree` is the tree as a sequence of nodes, rules and directives,
each with the nodes it is below (`above`). The directives that follow a rule
in its file are children of that rule line: that is how the parser nests
them and what makes pruning a rule dangerous. A definition is identified by
name, file and line (`Key`), as in the code, and its right-hand side is a
member of `Signatures` with the names it refers to.

`phase` follows `finalize_compiled`. *reach*: `Visit` takes any name of the
work list (the code starts it from a hash set), `Prune` is
`prune_nodes_with_keys`. *strength*: the walk of
`collect_definition_strength_actions` in the order of the text, one node a
step: `PassBy`, `First`, `LeaveBoth` (independent definitions), `Collide` (the
matrix of strengths); `Apply` prunes the collected keys. `Declare` is the
check of extern declarations and the comparison with the postlude, `Inject`
one whole scan of the tree, repeated until nothing is injected, `Unused` the
report of directives that select nothing.

### Components, ExportDirectives and DocumentChecks

`Components` is the recursive `visit` of `strongly_connected_components` with
its frames in `calls`. `indices`, `lowlink`, `stack` and `onStack` are the
variables of the code; start nodes and neighbours come in any order, because
they are read from hash sets. `SearchSpec` allows any graph and any number of
searches; `DocumentChecks` replaces the free choice of the graph by the two
graphs that the code builds. `Leads` (one name leads to another) is said with
closed sets instead of paths: it needs no recursion, so it can be proved about.

`ExportDirectives` reads files as sequences of comments, rules and directives.
For each file, `Scan` is the loop that looks for Library and Extern lines,
`MarkComment`, `MarkUse`, `MarkRule` and `MarkEnd` are the walk that carries a
pending Export; `ReadNext` goes on to the next file that is imported or
included. A file that is used twice is read twice; what was tagged the first
time stays. In `DocumentChecks` follow `FindUnreferenced`, `Search` and
`ReportUnreferenced` (E020), `Finalize`, which stands for what `Finalization`
models, `ReportCycles` (E030), `CheckUses` (W003 and its companions) and
`Deduplicate`. A rule is the names in its source, the names that generic
expansion put there, the names that stand alone in groups, and whether its
source has a `<` in it: that is all the checks look at.

### Validation

The validator is a recursive descent without interleaving, so it is written as
operators that take the traces and return the verdict and the new traces, one
operator per function of the code: `Check` is `validate_schema_node`,
`Sequence` is `validate_grpchoice_array`, `Element` `validate_array_element`,
`Splice` and `SpliceGroup` the splicing of groups into arrays, `Repeat`
`validate_array_repetition` (with `AfterElement` its step), `MapSequence`
`validate_grpchoice_map`, `KeyedEntry` and `NestedEntry` its two kinds of
entries, `MapBody`, `TryBody` and `TryRepeatedly` what a group takes of a map.
Two steps remain: `Validate` and `Report` (the verdict against `--fails`).

What is kept of the data: integers, byte strings that hold one encoded item,
arrays, maps; types by value, name, choice, array, map, group, socket and
`.cbor`; occurrences `?`, `+`, `*`, `n*` and `n*n`. `trace` holds the two
thread-local lists: notes (the label of a place of the document) and hints
(the byte strings shown decoded). The list of issues is kept as "empty or
not". What a probe of a map key notes is dropped, as it is at a place that
the dump does not have.

`CddlMeaning` gives the meaning independently: `Derive` enumerates the
derivations of a value from a type, as the sets of places and labels they
consist of, and has two readings, the generative one of RFC 8610 and the one
of a parsing expression grammar (Appendix A of the RFC).

### ControlOperators

The same descent with another cut through the data: scalars, tags, simple
values and arrays with every control operator, and a sequence of top-level
items. `Folded` and `State` say what constant resolution makes of a rule: a
constant, an interval or a pattern. `Compile` is the structural check
(`Family`, `Admitted`, `Fits` are the table of operand families; `Composed` and
`Weaker` the two warnings on nested serializations; `Conflicting` the rules
folded to two states). `Validate` is `CheckDocument`: a name that has a state
is checked only against that (`CheckNamed`, `MatchesState`); otherwise `Check`
passes the traces on,
`CheckChoice` takes them back when an alternative fails (`Truncated`),
`CheckRight` is the dispatch on the operator. A serialization operator asks
for the form of the bytes at the place of an item in its source, and the
contents of a byte string are a source of their own (`Opened`); how the bytes
are judged is `Serialization`. `Precision` stands for 2^53. Texts and patterns
are names; a pattern is the set of the texts it matches.

### Containment

`Resolve` turns both sides into a form without syntax (`ResolvedType`):
`MapEntry`, `GroupEntry` and `ResolveGroup` for groups, `Occurrence` for
occurrences. `Within` is `resolved_within` with its cases `NameWithin`,
`SomeArm`, `ControlWithin`, `ArrayWithin`, `MapWithin` and `EntryMatches`. It
returns the set of pairs it has seen, as the code passes one mutable set to
all comparisons. `Stack` bounds the nesting; reaching it is the verdict
"overflow".

### Rendering

What is printed is a sequence of tokens, not of characters, so that a missing
pair of parentheses changes what `Read` makes of it. `BuildResolution` finds
the recursive names; `RenderFirst` prints the first rule; `Retain` prints, in
any order, a rule whose name was printed as a name; `Finish` ends the pass and
`Again` renders what was printed. `Render` has two ways, on one line and on
several (`InlineType`, `PrettyType`), because the code has two sets of
functions that differ in where they put parentheses. The context of a
rendering (`Context`) holds what the code passes down in its arguments.

### Serialization

A call works on one `buffer` with a decoder whose position is `at`. What
recurses in the code is kept on a stack here, and a step is one turn of a
loop, so nothing in these modules is recursive. `check_serialization` and
`walk_item` are the actions from `WalkRefused` to `CheckReturn`: `frames` are
the loops over the parts of containers, each with the parts that were begun
and the bytes of the last key. `HeadAccepted` is what is asked of an item
before its parts. `locate_item` is `ItemSpanAtPath`: `rest` are the steps of
the path that are left, and `left` counts the parts that are still skipped.
`Map::decode` and `Array::decode` are `Decode`, with the rules of
`KeyIsDeterministic`, `KeysOrdered` and the error handler of the context
(`Passes`, `Stops`). What minicbor reads is external: `ReadHead`, and `Skips`
and `SkipEnd`, by which it goes over a whole item.

`CborItems` says what is in a buffer as a relation: an item is named by the
position where it starts, and a *document* tells of each item where its parts
start and where it ends; `Structured` says when that is true of the bytes. A
call comes with a `document`, the items that are known to be in the buffer,
all of them or only some. The walk does not look at it, except where a plain
check skips. It builds a document of its own, `found`, and `CanonicalOnly`
compares the two. `Utf8` and the values of floats (`Floats`) are constants:
what is assumed of a float is in which widths it has a form and what the
nearest single is.

### AgentSkills and SkillStore

The disk is `target`, `ancestor`, `temp` and `extras`. A process is the
record `run[p]`; its `pc` names the next file-system call, and one action is
one such call with the computation up to the next, so that other runs, the
user (`Edit`), failing calls (`Fault`) and crashes come between any two. A
rename installs what the temporary file holds at that moment (`InPlace`), so a
target could become a torn file if one were renamed too early; `--clean` looks
at an entry (`Look`) and removes it (`Remove`) in two calls, and the entry may
be another one by then.
`installed` and `run[p].wrote` are history variables. A file is a function
from lines to tokens and the merge of the diffy crate is taken line by line
(external).

`SkillStore` is what a user may rely on: a path changes at once and to a whole
content, and an ancestor is a content that was installed there. The mapping
forgets the processes, the temporary files and the extras: `file` is `target`,
`kept` is `ancestor`, `history` is `installed`. A rename implements `Put`, the
writing of an ancestor `Remember`, an edit `Change`; everything else stutters.

## 3. Runs

Bounds are constants of the configurations, or the sets in the `MC` modules.
Some properties are conjunctions of named parts, given in parentheses.

* `ConstantResolution`: all combinations of 8 x 12 x 6 right-hand sides for
  three names that refer to each other, each rule in a node of its own or all
  in one, some with a name that is read as infinity or NaN, or an extension
  instead of a definition, and pairs of libraries with the same private name.
  Three names give chains in both directions and cycles of length one to
  three. `Justified`: a value is what some definition says. `Settled`
  (`FixpointReached`, `AgreesWithMeaning`, `WarningsHaveTwoSources`): at the
  end another round changes nothing, the values are those of a denotational
  reading of the rules, and who is reported has a second definition or
  alternative, a name spelled like a float, or a NaN (section 4).
  `ResolvedIsFinal`, and termination.
* `ModuleResolver`: a root with two directives in one or two nodes and three
  more modules, every combination of import and include, plain or with names:
  chains of three, diamonds, self-reference and cycles through the root, a
  module that is unparsable or vanishes. `NoRecursion`; `VisitedExactly`
  (`IncludedOnce`, `ImportsFailOnCyclesOnly`); `SplicedExactly`
  (`OkIsComplete`, `PrunableExactly`); `ErrorsSurvive`.
* `Finalization`: a root rule, a file with two rules, and a file used before,
  between or after them, with all four kinds of directive and references that
  lead forwards, backwards, to sockets, to the postlude and nowhere;
  documents with extern declarations; the same name in the consumer (not at
  all, once, twice) and in two files, directly or one import deeper, in several
  orders: enough for every pair of strengths in both orders and for a third
  definition after them; names that are listed with the alias or without; and
  four imports from two files, in all orders, with lists that have a name or
  not (`Twofold`). `NamesResolved` is `NamesSurvive`,
  `StrengthsResolved` and `ConflictsReported`; together with `NoSilentLoss` it
  names the ways in which a definition is lost although something refers to it
  (`LostBelow`, and copies of one file of which a weak one gave way).
* `DocumentChecks`: three families of documents. Five opening sequences of
  directives (after two of them up to four lines of six kinds, after the others
  up to three, in every order), so that an Export meets a comment, a rule, a
  use, another Export and the end of the file before and after the first rule,
  at the end of a line and within a rule. Three rules with every choice of
  references, as types and as groups: all graphs of three nodes, hence all
  shapes of components, and a socket. Imports and includes of a library, of a
  file that is none and of a library that exports nothing, with and without an
  alias, before and after the rules, with names that collide.
  `ExportsAccounted`: which rules are marked and which Exports reported, as the
  code has it, and as the comments of the code have it outside four kinds of
  documents that are named (section 4). `UnreferencedCovered`, `CyclesFound`;
  `SurfaceGuarded` (W003 blames names that the text of a library neither
  declares nor exports; where the sources are plain it finds all that they use,
  and in the end reports what the contract says but for `Uncontracted` and
  `SeveralBlamed`); and `Placed` of the search: components are the sets of
  nodes that lead to each other, and at the end every node is in one.
* `Validation`: arrays of at most two of 20 entries and of three of 7, against
  all lists of at most three items out of three; arrays with maps in them; maps
  of at most two of 16 entries and of three of 5, against all maps of at most
  three entries with three keys and two values, in all orders; alternatives in
  which each place can have four labels. Two entries with groups, names and
  sockets in them reach every function twice in a row; three put a repetition
  between others. `Sound` and `Complete` compare with `CddlMeaning` and name
  the schemas that the validator does not read as RFC 8610 does: `BoundsRead`,
  `MapsInArrays`, `StarredKeys`, `EmptyGroups`, and groups of several
  alternatives (`OneWay`). The instances have all of these.
  `DumpUnlessGuessed` (`OneViewOfEach`, and `DumpIsADerivation` where the
  validator does not guess): the dump shows each place once and one derivation.
* `ControlOperators`: five families. Every ordering and equality with seven
  bounds on integers and floats around the bound and around `Precision`;
  operators on texts and byte strings; choices in which several alternatives
  warn or match a pattern; byte strings in byte strings with each form of
  encoding; sequences at the root. Among their rules are some that are folded
  (constants, intervals, patterns, joins, choices), used as types and as
  operands. `Agrees`
  compares with `Means`, written from RFC 8610 and the operators' own RFCs,
  outside the departures that `Regular` names and section 4 explains:
  `Unimplemented`, `MatchesNaN`, `NotFolded`, `Misfolded`, `Rounded`,
  `UncheckedSequence`. `Reported`: warnings and patterns are those of the way
  taken, of rules that are not folded. `RefusedMatchNothing`: what the
  structural check refuses matches no item, but for `Usable`.
* `Containment`: pairs of scalars, of arrays, of maps and of names, over rules
  with aliases, recursion through arrays, tags and choices, group rules and
  sockets. `Contained` (`Sound`, `Reflexive`) compares with `CddlMeaning` on
  values chosen to tell the types of the instance apart. The types for which
  the check departs from containment are in the instances, and `Sound` names
  them (`Departs`, and the history `stale`, which says that a pair of names was
  met again after a pair had been refuted). `Ends` says that a nesting of eight
  names is only reached if both sides have a `RecursiveMap`, with at most three
  names in a cycle.
* `Rendering`: all combinations of 19 root rules, 13 and 7 rules they may
  name, and six sets of sockets that compile. Three rules give references
  through two names and cycles of length one to three. `Ends` (but for
  `SelfPlugged`, a plug that names its own socket); `Faithful`
  (`Closed`, `SameMeaning`): every name is defined, what is printed is CDDL and
  matches the same values; `Stable`: the rendering of a rendering is itself.
  Schemas on which the renderer departs (`DepartsOtherwise`, `Shifts` in
  `MCRendering`, listed in section 4) are left out of the properties, not of
  the run.
* `Serialization`: items of every kind at the arguments 0, 23, 24, 255, 256
  and the boundaries of 2, 4 and 8 bytes, each in every width it fits in;
  strings of 0, 1, 23, 24 and 256 bytes; floats in each width, among them
  doubles near a shorter form; bignums of 0, 8, 9 and 10 bytes; arrays and
  maps of up to three entries, definite and indefinite, nested, in pairs, and
  cut short by a byte; and all buffers of up to three bytes out of 20 that
  begin items of every kind. `CanonicalOnly`, `SpansFound`, `DecodersExact`
  (`DecodedIsExact`: what is handed out is what the head announces;
  `WhatIsAsked`: which of the rules for deterministic encoding the decoders
  hold to; `FormsAgree`: they refuse nothing that the check accepts but for the
  order of keys). That what the instance writes is a whole
  document in the sense of `CborItems` is an `ASSUME` of `MCSerialization`.
* `SkillsAlone`: one process, two runs of all modes and two versions, an edit,
  a crash and a failing call, two files, an extra file. Two versions that
  differ in one line of two make merges with and without conflict.
  `ReportIsExact`, `ReplacedByConsent`.
* `SkillsTogether`: two processes at once, with an edit and a crash; one file
  and one extra entry, which the user may also replace by something of another
  kind (`Edit`). The smallest instance with a race. A failing call is left to
  `SkillsAlone` and to the proofs, so that the run stays small.
  `ImplementsStore`, `ReportIsTrue`, `ExtrasProtected`, and `RunsEnd`: every
  run ends or dies.
* `MergeTwice`: the counterexample of section 4.

`CHECK_DEADLOCK FALSE` appears where the modelled program ends.

Two runs state fairness. A compilation is a sequential program, so `WF` of
`Next` in `ConstantResolution` says only that it is not stopped. For the
skills it is weak fairness of each process's own steps: a live process reaches
its next system call, and a user at a prompt answers. Nothing is assumed of
edits, faults or crashes. The descents that could go on for ever
(`Containment`, `Rendering`) have a bound on their nesting instead, and
`Ends` says that it is reached only in the cases it names.

## 4. Where code and text disagree

The run `MergeTwice` is a counterexample to a comment, and the finding of
`PROJECT.json`: `--merge` stores the merged bytes as the ancestor, so the next
merge takes the user's lines away.

The rest came up while the code was read and the models were checked. The
models follow the code, the instances have these cases, and where a property
would fail for this reason alone, it names the case by a predicate.

Constant resolution (compiler):

* `rangeop.rs:86`: the alternatives of `a = 1..2 / 1..3` are folded under one
  name and reported as a conflict of the rule with itself.
* `rangeop.rs:195`: a mismatch flag set before the operands are known is not
  taken back.
* `ctlop.rs:867-901`: the operand of `.plus` that is a name spelled like a
  float (`b = 1 .plus inf`, and `inf = 1` in a later rule) is read as that
  float while the name has no value, and as the value once it has one. The
  alternative then yields two values, and the rule is reported (E014) for a
  conflict although it has one definition.
* `resolver_cache.rs:99`, `492`: entries are compared with the equality of
  floats, so `b = 1 .plus nan` differs from itself and is reported (E014) at
  every later visit, against lines 488-491 ("Re-applying the exact same
  resolution from the same source origin is idempotent").
* `semantic.rs:89`: private names of independently imported files share one
  cache and conflict.
* `seedops.rs:393`: a hexadecimal or binary literal above the largest `i128`
  is cast and becomes negative.

Resolver and finalization (compiler):

* `resolver.rs:167`: an import takes only its own entry out of `visited`, so a
  second import of a module with an include fails, against lines 307-309.
* `resolver.rs:25`: a path that cannot be made canonical is not recorded, so a
  cycle through it is not seen.
* `finalize.rs:1810`: a pruned rule line takes the directives below it along,
  and with them definitions that a kept rule needs; nothing reports it
  (`LostBelow`).
* `finalize.rs:84`: of identical strong definitions the later one is pruned,
  where lines 520-521 say "neither is auto-pruned". `StrengthsResolved` says
  what the code does: one place is left.
* `finalize.rs:202`: names are marked in a cache that line 264 replaces.
* `finalize.rs:593`: the step over an independent definition also skips what
  is nested below it.
* `finalize.rs:619`: whether two weak definitions that differ are an
  error depends on whether the strong one comes before both.
* `finalize.rs:629`: a file that is imported and then included, or imported
  twice with lists that differ (`Twofold`), has one key for both copies;
  dropping the weak copy drops the strong one. It goes without the diagnostic
  that two strong definitions must have, and if the other one gave way to it
  elsewhere, no definition is left.
* `finalize.rs:3841`: a directive whose names are all pruned below
  another rule is not reported as unused.

Directives and reports (compiler):

* `compiled.rs:821`: the removal of duplicates leaves one W003, W005, W007 or
  E030 per file, where `finalize.rs:3275-3278` says that a W003 is emitted for
  every reference (`SeveralBlamed`).
* `finalize.rs:3647`: files that are only included, and files that are no
  libraries, are held to the export contract, against lines 3281-3284
  (`Uncontracted`).
* `compiled.rs:681`: an Export in a comment behind a rule marks the next rule,
  where lines 291-292 and 459-461 say that trailing comments never apply
  (`TrailingExport`).
* An import or include after the first rule is a child of that rule's line. So
  it does not take away an Export before it, against `compiled.rs:531-533`
  (`PassedUse`), and it is not reported with W004 or W005.
* An Export below a refused one with a directive between them marks the next
  rule, against `compiled.rs:537-538` (`ResumedChain`).
* An Export within the body of a rule neither marks nor is reported
  (`EnclosedExport`). Of several leading Library comments the last is kept.
* Diagnostics of imported and included files never reach the user.
* `finalize.rs:3601`: a type text with a `<` in it hides all other references
  of the rule from W003.
* `finalize.rs:3284`: the first source of a bare name wins, so a rule's own
  name can be blamed; dotted names never match exported ones.
* `a = (a)` is no cycle, `a = [b]`, `b = [a]` is one (E030).

Validator (cli `validate.rs`):

* `:5137`: a keyed map entry with `*` takes exactly one entry (`StarredKeys`).
* `:4648`: the label of a repeated element stays at the item that ended
  the repetition.
* `:1725`: `int .size n` accepts no integer.
* `:3586`: hints are cut to the number of notes, so a decoded
  view of a failed alternative can stay; traces of patterns stay likewise.
* `:4424`, `:4519`: in an array a constant before `*` is read as its lower
  bound, and one after `n*` as its upper one (`BoundsRead`).
* `:4627`: an unbounded repetition of something that takes
  nothing does not end. The model ends it, so that TLC does.
* `:4757`: a map type in an array where no map stands is matched against the
  array's items, so that `[7]` is accepted for `[{1 => int}]` (`MapsInArrays`).
  Of such arrays `Sound` says only that the document has the type when braces
  may be left out (`Braceless`).
* `:4958`: a group takes the longest part that any of its
  alternatives matches, not the part of the first that matches; `Complete` is
  therefore stated for groups with one alternative (`OneWay`).
* `:5266`: a required nested group that takes nothing is
  refused: `{ (? a: int) }` on `{}` (`EmptyGroups`).
* `:2939`: `lo...hi` excludes both ends, where `resolver_cache.rs:132` of the
  compiler excludes the upper one.
* `:2817`: a NaN matches any float literal (`MatchesNaN`); integers above 2^53
  are rounded before they are compared (`Rounded`).
* `:481`: below a root sequence, a serialization operator inside it locates
  another item; the form of `any .dtrmseq` at the root is not checked
  (`UncheckedSequence`).
* `:922-935`, `:1011-1016`: a name with a resolved state is checked against the
  state and nothing else (`Misfolded`). So a rule that is `text .regexp p` or
  `bytes .abnf p` accepts texts and byte strings alike; of encrypted, hashed
  and compressed grammars the bytes on the wire are matched against the grammar
  of what they encode, and no warning says so; a choice with an alternative
  that folds accepts that one only (`a = 1..2 / text` refuses every text); and
  what the pattern matched is not in the annotated dump.
* `:2564`: the label before `.det` is dropped from a grammar, unless the rule
  was folded: then it is still there. A constant that is written with an
  operator and was not folded (`"a" .cat "b"` as a type, a `.plus` right of an
  operator) accepts nothing (`NotFolded`).
* `.bits`, `.and` and `.plus` on values are not implemented (`Unimplemented`,
  with `.size` of integers and `...`).

Structural checks (compiler):

* `ctlop.rs:1495`: W008 is reported for `bstr .dtrm x` with `x = bstr .cbor
  int`. `Usable`: `[+ uint] .prefpseq` gets E015 although the positive vector
  `draft_cbor_serialization_all_operators.cddl:18` uses it, `bytes .cbor 5`
  gets it too, and so do the `.size` of an array and most operators on `any`.
* `within.rs:2103`: the set of visited pairs is never reduced and its keys are
  coarse, so the second arm of `int .within (one / one)` passes unseen, and
  `x .within ({1: int} / {1: bstr})` with `x = {1: tstr}` is accepted
  (`stale`).
* `within.rs:2882`: a map starts a set of its own, so recursion through maps
  does not end, against lines 1693-1694 (`RecursiveMap`).
* A text key passes any text key (`TextKeys`); `[]` passes `[+ int]` and
  `[int, * text]`, `[* int]` passes `[+ int]` (`RepeatedLast`); optional
  entries on the left are never checked (`AbsentMembers`); the upper bound of
  `? int => int` is ignored (`BoundedMembers`); only the first of several group
  choices is compared, and an occurrence before parentheses is dropped
  (`GroupChoices`); `any .le 5` is reduced to its controller
  (`ControlledAny`). Such types are not contained as line 1687 says.
* Sockets on the right are only resolved in maps; a nested `.within` on the
  right is taken for its carrier; a name is looked up by its suffix in the
  order of a hash map.

Rendering (compiler `concrete.rs`), by the names of `MCRendering`:

* `DepartsOtherwise`: `.within` in one of several arms is printed as written
  and its names are lost; a choice right of `.within` lets its arms escape; a
  control is added to a name that stands for a control; a choice of controls
  right of a control looks as if in parentheses; a self-arm below a tag is left
  out; only the first entry of a plug is printed, and an occurrence before a
  group socket is lost; a plug that names its own socket is put in its own
  place for ever (`SelfPlugged`); `lo...hi` is printed as `lo..hi`, `//` as a
  comma; of an entry that begins with an array or a map the other arms are
  lost.
* `ManyPlugs` (`:4749`): several plugs of a group socket are printed as a
  sequence, against `tests/render_vectors.rs:366-367`.
* `Shifts`: some controls get parentheses on the second rendering; a rule that
  names itself through a socket does without the socket once it is rendered.
* Not in the model: `~name` loses its unwrap, a recursive first rule is printed
  twice, redundant definitions that are referred to are not retained.

CBOR helpers (`cbork-utils`):

* `serialization_checker.rs:372`: what comes of skipping an indefinite item is
  dropped, so `9f` alone passes, against line 69.
* `serialization_checker.rs:446`: the width of a tag's head is not checked;
  infinity passes in any width.
* `serialization_checker.rs:805`: a double is refused if the *nearest* single
  fits in a half, even if it is another number. So 1e300 (nearest: infinity),
  1e-300 (nearest: 0) and 1 + 2^-40 (nearest: 1) have no accepted form at all,
  against the message, "can be represented as f16 via f32" (`:808`). The model
  has this rule (`ShortestFloat`), and `Readable` leaves such values out
  (`LostDouble`).
* The checker and the map decoder order keys differently (bytewise, and by
  length first); `FormsAgree` is about keys of one length.
* The decoders of maps and arrays ask less than their comments say. In a
  deterministic context they take `B8 00`, `B9 00 01` and keys or elements like
  `18 01`, against `map.rs:110-122`, `158-162` and `array.rs:61-63`; the check
  refuses all of these. `WhatIsAsked` says what they do ask.

Agent skills (cli `agent_skills.rs`):

* `:176`: an error in the middle of a bundle drops the
  report of the files already written.
* `:250`: a skip after an error is taken for a quit and
  ends the bundle.
* `:288`: what was read before the prompt is merged and replaced after it.
* `:453`: "Skips symlinks (they are never managed)", but a link that takes the
  place of a file between the look and the removal is removed.

## 5. Proofs

All are of `Spec => []P`, of an action property, or of a refinement, for
arbitrary constants under the `ASSUME`s of the modules, which TLC evaluates on
the instances.

Several of them need induction over data: over the rounds of an evaluation,
over the elements of a finite set, along a chain of references. The provers
cannot instantiate an induction rule for predicates, so two forms without one
are used. `Induction` states induction and recursion on the natural numbers for
*sets*: a property `P` is the set `{k \in Nat : P(k)}`. And "leads to" is said
by closed sets: `b` is in every set that has `a` and is closed under the edges;
to show something of all that is reached, one shows that it is closed.

* `ConstantResolutionProofs`: `TypeCorrect`, `ResolvedStaysFinal`,
  `ResolutionIsJustified`, `WarningsAreEarned`, `StopsAtFixpoint`,
  `ValuesAreTheMeaning`, and `LoopSettles`, which puts the last three together.
  All rest on one fact: writing an unresolved entry keeps the value of every
  alternative that had one, because an alternative with a value has only
  resolved operands, and these never change. So `Justified` is inductive. For
  the reports, an entry that refuses a write was given its value by another
  rule or by another alternative, or the rule mentions a name spelled like a
  float, or the value has a NaN in it (section 4). Where the walk is inside a
  node does not matter to any of this, only that between two iterations every
  pass has been through every rule (`TypeCorrect` has the control state, and
  that no integer in the cache is above the largest `i128`). For the fixed
  point, `FixInv` says that from the second iteration on every name has an
  entry, so each write makes the number of unresolved entries smaller; while
  that number is what it was when the iteration began, nothing was written, and
  every alternative visited so far folds to what the cache has. The loop
  compares only the two numbers, and this is why that is enough. For the
  meaning, `Meant` says that everything in the cache is there after some number
  of rounds of evaluating all definitions at once. Rounds only add values, and
  as many as there are names are enough (`MeaningSettles`); a fixed point below
  the meaning is the meaning. So the order of the rules does not matter.
* `ModuleResolverProofs`: `TypeCorrect`, `NeverInsideItself`,
  `ErrorsReachTheRoot`, `VisitedIsExact`, `SplicedIsExact`. The first three
  need only the stack (`ResolverInv`): while the walk runs there is an error
  exactly if some frame has failed; leaving a module removes at most its own
  entry from `visited`, and since no other frame has that module, all others
  keep theirs. The last two relate the stack to the tree built so far
  (`WalkInv`): the stack is one path of directives; the copies are those of
  the directives that the frames are past, with everything below them; the
  tags of a copy are what the directives of its path that have returned keep;
  and no module that is done is on a cycle, because its directives lead only
  to modules that are done. So an import is refused only on a real cycle.
* `FinalizationProofs`: `TypeCorrect`, `ReachedLeast`, `InjectedLeast`,
  `EveryReferenceAccounted`, `LossReported`, `NamesAreResolved`. Each has an
  invariant of its own. `Reaching`: what is reached or in the work list is
  closed one step ahead, and inside every closed set; so when the list is empty
  it is the least one, whatever order it was read in. `Injecting`: what is
  injected is inside every sufficient part of the postlude, and a scan that
  adds nothing shows that it is sufficient. `Scanned`: after the last scan
  every reference is defined, injected, excused or reported. `LossExplained`:
  every key to prune belongs to a weak definition or to one with a diagnostic,
  and every node that is gone is below a rule that was unreached or dropped.
  `WalkInv` is about the walk over strengths, which compares a definition only
  with the one it holds for the name: a definition it has been at is at the
  place of that one or to be dropped, is equal to it or reported if both are
  as strong, and the one that is held is weak only if all are. It is to be
  dropped itself only if a weak copy of it gave way, and then there is a
  diagnostic on it (`DroppedFor`): where copies with one key differ in strength
  (`Twofold`), the theorems say what is left, as section 4 does.
* `ComponentsProofs`: `SearchTypeCorrect`, `ComponentsPlaced`: for every graph
  and every order, each component is the set of all nodes that lead to each
  other, and at the end every node is in one and the stack is empty. The code
  pops the stack when a lowlink equals an index, so a lowlink that is too small
  would leave nodes behind, and one that is too large would tear a component
  apart. Against the first, `SearchInv` says that indices are given once and in
  order (`Numbered`), grow along the stack (`StackOrdered`) and along the open
  visits, of which the first is at the bottom of the stack (`CallsOrdered`);
  that a discovered node is on the stack or in one component (`Partition`); and
  that no lowlink on the stack is below the index of its bottom (`LowBounds`).
  So the outermost visit always closes the whole stack. Against the second,
  `TreeInv` says that the open visits lead to each other in order (`Chained`);
  that each node of the stack belongs to an open visit and leads to it and back
  (`Grouped`); that a lowlink is the index of a node that is reached
  (`LowReached`) and that no edge looked at so far leads further back
  (`LowLeast`); and that what is found is closed and exact (`FoundClosed`,
  `FoundExact`).
* `DocumentChecksProofs`: `UnreferencedAreCovered`, `CyclesAreFound`, for files
  of any length. `DocInv` says that the graph that is searched is the one of
  the document and that nothing else reports these codes; `ComponentsPlaced`
  gives the components. The code names one rule of each component that no edge
  from another leads into. That these cover all others follows by a least
  counterexample: among the rules that no named one leads to, take one that the
  fewest lead to; if its component were not named, an edge would lead into it
  from a component that fewer lead to. `ExportsAreAccounted` is in the same
  module, for files of any length, used any number of times. An Export waits
  while comments, directives and the children of a rule go by, so the end of a
  file says little about its middle. The invariant `MarkInv` says of every
  Export above the line that is read that its rule is tagged, or that it is
  reported, or that it is the one that waits, with nothing between it and this
  line that would take it away (`Waits`); that no other one is for a rule below
  (`Decided`); and that no file has a rule tagged that no Export is for
  (`OnlyBound`), which is what makes a second reading of it harmless. That this
  is what the comments say, outside the four kinds of documents of section 4,
  is a fact about texts (`AsIntended`). `SurfaceIsGuarded` is about documents
  whose files are not inside themselves (`TreeSpec`; the resolver lets no
  others pass, `NeverInsideItself`) and whose names are sequences of words with
  at least one (`NamesAreWords`). What the check of uses goes by is a surface
  that was put together line by line and a tree that is the recursion of
  `TreeOf` over files. `ReadInv` says that the surface of every file read so
  far is what its text offers, though files are read again and again;
  `TreesExist` says that the recursion has a solution and that each tree in it
  is a list, by induction on the depth of files; and `BlameInv` says that
  nothing else reports W003. Which names are then blamed is compared with the
  sources: always soundly, exactly where they are plain (`Plainly`), and with
  the contract after duplicates are removed. The ways in which they may not be
  are those of the findings in section 4: two files with one bare name, a `<`
  in a rule, a generic parameter with the name of a rule, and a prefix or
  defined name that generic expansion also put there.
* `SerializationProofs`: `TypeInvariant`, `WalkCanonical`, `DecodersAreExact`,
  `SpansAreFound`, for every buffer, every document that is known to be in it
  and every call. That an accepted buffer is canonical is `Sound`: all that was
  found is `Good` and before the position; the open loops are those of
  containers whose heads were read, each in the last part of the one around it
  (`OpenGood`); the parts of a loop follow one another up to the position
  (`PartsGood`); and the keys that were compared ascend, the last of them being
  the one that is remembered (`KeysGood`), so that comparing neighbours is
  enough (`BytewiseTransitive`). That a canonical buffer is accepted is
  `Aligned`: what was found agrees with the document, and each loop is at the
  next known part; there the head is accepted (`ShortestMeans`, `WidthChecks`:
  what the checks of widths in the code mean), and no key is refused. `Decoded`
  says that the spans of a decoder follow one another from the head and are
  items, and that what it was asked to refuse has been refused, `Agreed` that
  in a canonical map with keys of one length no entry is refused. `Located`
  says of the search that each step led to the part it means, and that of the
  parts before the next one as many are passed as have been counted down; at
  the top level a step may lead past the last item (`Over`), which only the
  step after it notices.
* `AgentSkillsProofs`: `TypeCorrect`, `PathsAreWhole`,
  `AncestorsWereInstalled`, `ReportsAreTrue`, `RunsImplementStore`,
  `CleaningIsBounded`. The invariant ties the bytes in memory to the program
  counter and an ancestor about to be written to the history of the path. A
  temporary file is incomplete only while its run is writing or after it died,
  and no other run has that name: so what a rename finds there is missing or
  whole, and no target is ever torn (`PathsAreWhole`). The refinement
  `Spec => Store!Spec` has one step per action: a rename puts what the
  invariant knows to be a whole content, and the ancestor that is written is in
  the history by the invariant. `CleaningIsBounded` is about the time between
  the look and the removal, in which anyone may have changed the entry: what
  goes is what the report says, by a `--clean` run only, never a directory that
  holds something, and a link only where the run had seen a file.
  `ReportsAreExact` and `ReplacesByConsent` are about a run that nothing
  disturbs (`Alone`: one process, and a user who waits), for otherwise what was
  read before a prompt can be stale after it (section 4); crashes, failing
  calls and any history of earlier runs are allowed. Their invariant `AloneInv`
  says of every active run that its report is a `Book` of the files it is
  through with: each is listed once or failed, none of the others is, what is
  said to be installed, replaced or unchanged is the new content on disk, what
  differs is not, and `ok` is given up exactly for a reason that is told; and
  that what it saw at the path of the next file is still there, so that it
  replaces what it asked about.

Only model-checked: liveness (`Terminates`, `RunsEnd`), and all of
`Validation`, `ControlOperators`, `Containment` and `Rendering`, whose
recursive operators no installed prover can reason about.

## 6. Not modelled

* Parsing and formatting: functions without state. The grammar is generated by
  pest from a file, the catalog is a constant table. Of the parser only the
  nesting of lines below rules is modelled.
* `generic.rs`: the instances of generic rules; `DocumentChecks` takes what
  they put into a rule as given (`pulled`), `Containment` that a template is
  skipped.
* In constant resolution: `.abnf`, `.json`, `.printf`, `.join`, `.regexp` and
  the literal parsers, which yield values or nothing.
* In the resolver: the hoisting of directives; names get their alias in
  `DocumentChecks`.
* In finalization: collisions of generic instances, elision of self references.
* In the validator: upper bounds alone (`*m`), one-sided bounds in maps,
  and the text of dumps.
* In the rendering: layout, comments and doc blocks.
* In the CBOR helpers: the wrapper that keeps the bytes of a decoded value.
* Lint, cross references, diagnostic notation and the ABNF parser. Each is
  listed with its reason in `PROJECT.json`.

## 7. Plan

The order in which the models were written follows what a mistake would cost:
first the fixed point and the walk that every compilation rests on, then the
file system, then pruning, then the validator, then the checks around them.
What is left:

1. `GenericExpansion` (`generic.rs`): instances made once, termination when
   arguments grow. Liveness by TLC, uniqueness of instances as a theorem.
2. `DocBlocks` (`doc_block.rs`, `transform.rs`): which rule a documentation
   block belongs to after transformations.
3. The literal parsers and the diagnostic notation, as functions that are
   inverse to the printers.
4. Collisions of generic instances in `Finalization`, the remaining one-sided
   bounds in `Validation`.

Theorems still worth proving: that the comparison of `Containment` is
reflexive, and that what `ControlOperators` refuses matches no value, once both
are written without recursive operators.
