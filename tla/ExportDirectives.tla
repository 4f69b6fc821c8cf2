---------------------------- MODULE ExportDirectives ----------------------------
(***************************************************************************)
(* The `;@ CBORK:` directives of a document and of the libraries it uses   *)
(* (compiled.rs, marker.rs): which are in the wrong place, what they make  *)
(* a file's surface, and the rules that its Export directives mark.        *)
(*                                                                         *)
(* A file is the sequence of its comments, rules and `;#` directives.  The *)
(* grammar attaches everything that follows a rule to that rule's line, so *)
(* a line is a node of its own only before the first rule; after it, it is *)
(* a child of the nearest rule above.  Names are sequences: <<"l", "x">>   *)
(* is l.x.                                                                 *)
(***************************************************************************)
EXTENDS Identifiers, Integers, Sequences

CONSTANTS
  Files, Main,                \* Main is the file that is compiled
  Invalid                     \* names that no extern declaration may give

ASSUME MainIsAFile == Main \in Files

(* What a comment says: a CBORK directive, one of another tool, nothing.   *)
Says == {"Library", "Export", "Extern", "Unknown", "Foreign", "nothing"}

Comment == [kind : {"comment"}, says : Says, names : SUBSET Names, trailing : BOOLEAN]
(* `written` are the names in the source of the right-hand side, `pulled`  *)
(* those that generic expansion put there, `groups` those that stand alone *)
(* as an entry, `angle` whether the source of the right-hand side has a    *)
(* `<` in it, `inside` what the comments within the rule say, and `names`  *)
(* those that an Extern among them gives.                                  *)
Rule == [kind : {"rule"}, name : Names, assign : {"=", "/=", "//="}, written : SUBSET Names,
         pulled : SUBSET Names, groups : SUBSET Names, params : SUBSET Names,
         angle : BOOLEAN, inside : SUBSET Says, names : SUBSET Names]
Use == [kind : {"use"}, include : BOOLEAN, file : Files, alias : Names \cup {<<>>}]
Text == Seq(Comment \cup Rule \cup Use)

VARIABLES
  texts,    \* the files
  stage,    \* where the compiler is
  file,     \* the file whose directives are read
  used,     \* the line of Main whose `;#` directive led to this file, or 0
  at,       \* the next line
  pending,  \* the line of an Export that waits for its rule, or 0
  tagged,   \* tagged[f]: the rule lines of f with MetaData::Exported
  surface,  \* surface[f]: is f a library, and the names it exports or declares
  found,    \* diagnostics of the file that is read
  warnings  \* diagnostics of the document

docVars == <<texts, stage, file, used, at, pending, tagged, surface, found, warnings>>

Finding(code, f, line, about) == [code |-> code, file |-> f, at |-> line, about |-> about]

-----------------------------------------------------------------------------
(* The directives of a file.                                               *)

Rules(t) == {i \in DOMAIN t : t[i].kind = "rule"}
Uses(t) == {i \in DOMAIN t : t[i].kind = "use"}
Comments(t) == {i \in DOMAIN t : t[i].kind = "comment"}
Nested(t, i) == \E r \in Rules(t) : r < i

(* Comments on a line of their own, within rules too, that say s.          *)
Said(t, s) == {i \in Comments(t) : ~t[i].trailing /\ t[i].says = s}
              \cup {i \in Rules(t) : s \in t[i].inside}

(* Library counts before anything but comments.  The scan keeps the last   *)
(* of several, which makes the earlier ones the duplicates.                *)
LibraryLines(t) == {i \in Comments(t) \cap Said(t, "Library") : 1..i \subseteq Comments(t)}
IsLibrary(t) == LibraryLines(t) # {}
Misplaced(t) == Said(t, "Library") \ {i \in LibraryLines(t) : \A j \in LibraryLines(t) : j <= i}

Declared(t) == (UNION {t[i].names : i \in Said(t, "Extern")}) \ Invalid
Repeated(t, i) == t[i].names \cap UNION {t[j].names : j \in {k \in Said(t, "Extern") : k < i}}

(* Directives that end the line of a rule do not count, except to Export.  *)
Trailing(t) == {j \in Comments(t) : t[j].trailing /\ t[j].says # "nothing"}

ScanFindings(f) ==
  LET t == texts[f]
  IN {Finding("E018", f, i, {}) : i \in Misplaced(t)}
     \cup {Finding("E021", f, i, {}) : i \in Said(t, "Unknown")}
     \cup {Finding("W002", f, i, {}) : i \in Said(t, "Foreign")}
     \cup (UNION {{Finding("E019", f, i, {n}) : n \in (t[i].names \cap Invalid) \cup Repeated(t, i)}
                    : i \in Said(t, "Extern")})
     \cup {Finding("E019", f, i, {}) :
             i \in IF ~IsLibrary(t) /\ Declared(t) # {} THEN Said(t, "Extern") ELSE {}}
     \cup {Finding("W030", f, i, {}) : i \in Trailing(t)}

(* compile_from_source, up to the Export directives.                       *)
Scan ==
  /\ stage = "scan"
  /\ surface' = [surface EXCEPT ![file] =
                   [library |-> IsLibrary(texts[file]), extern |-> Declared(texts[file]), exported |-> {}]]
  /\ found' = ScanFindings(file)
  /\ at' = 1
  /\ pending' = 0
  /\ stage' = "mark"
  /\ UNCHANGED <<texts, file, used, tagged, warnings>>

Line == texts[file][at]
Useless(line) == Finding("E022", file, line, {})

Advance == at' = at + 1 /\ UNCHANGED <<texts, stage, file, used, warnings>>

(* A comment, where it may stand: at the top of the file or directly below *)
(* a rule.  Only an Export changes anything.                               *)
MarkComment ==
  /\ stage = "mark" /\ at \in Comments(texts[file])
  /\ IF Line.says # "Export" THEN UNCHANGED <<pending, found>>
     ELSE IF ~surface[file].library
     THEN pending' = 0 /\ found' = found \cup {Useless(at)}
     ELSE /\ found' = found \cup (IF pending = 0 THEN {} ELSE {Useless(pending)})
          /\ pending' = at
  /\ Advance
  /\ UNCHANGED <<tagged, surface>>

(* A `;#` directive takes a waiting Export away, but one that follows a    *)
(* rule is a child of it, and of those only the comments are looked at.    *)
MarkUse ==
  /\ stage = "mark" /\ at \in Uses(texts[file])
  /\ IF pending = 0 \/ Nested(texts[file], at) THEN UNCHANGED <<pending, found>>
     ELSE pending' = 0 /\ found' = found \cup {Useless(pending)}
  /\ Advance
  /\ UNCHANGED <<tagged, surface>>

(* Mutant: an Export goes on to mark every rule that follows.              *)
MarkRules ==
  /\ stage = "mark" /\ at \in Rules(texts[file])
  /\ IF pending = 0 THEN UNCHANGED <<tagged, surface>>
     ELSE /\ tagged' = [tagged EXCEPT ![file] = @ \cup {at}]
          /\ surface' = [surface EXCEPT ![file].exported = @ \cup {Line.name}]
  /\ Advance
  /\ UNCHANGED <<pending, found>>

MarkRule ==
  /\ stage = "mark" /\ at \in Rules(texts[file])
  /\ IF pending = 0 THEN UNCHANGED <<tagged, surface>>
     ELSE /\ tagged' = [tagged EXCEPT ![file] = @ \cup {at}]
          /\ surface' = [surface EXCEPT ![file].exported = @ \cup {Line.name}]
  /\ pending' = 0
  /\ Advance
  /\ UNCHANGED found

(* The end of the file.  What is found in a library stays there: only the  *)
(* nodes of a module and its surface reach the file that uses it.          *)
MarkEnd ==
  /\ stage = "mark" /\ at > Len(texts[file])
  /\ found' = found \cup (IF pending = 0 THEN {} ELSE {Useless(pending)})
  /\ pending' = 0
  /\ warnings' = IF file = Main THEN found' ELSE warnings
  /\ stage' = "next"
  /\ UNCHANGED <<texts, file, used, at, tagged, surface>>

(* resolve_includes compiles the files that Main names, one after another. *)
ReadNext ==
  /\ stage = "next"
  /\ LET left == {i \in Uses(texts[Main]) : i > used}
     IN IF left = {} THEN stage' = "unreferenced" /\ UNCHANGED <<file, used>>
        ELSE \E i \in left : /\ \A j \in left : i <= j
                             /\ file' = texts[Main][i].file
                             /\ used' = i
                             /\ stage' = "scan"
  /\ UNCHANGED <<texts, at, pending, tagged, surface, found, warnings>>

ReadingInit(documents) ==
  /\ texts \in documents
  /\ stage = "scan"
  /\ file = Main
  /\ used = 0
  /\ at = 1
  /\ pending = 0
  /\ tagged = [f \in Files |-> {}]
  /\ surface = [f \in Files |-> [library |-> FALSE, extern |-> {}, exported |-> {}]]
  /\ found = {}
  /\ warnings = {}

ReadingNext == Scan \/ MarkComment \/ MarkUse \/ MarkRule \/ MarkEnd \/ ReadNext

ReadingSpec == ReadingInit([Files -> Text]) /\ [][ReadingNext]_docVars

-----------------------------------------------------------------------------
Exports(t) == {i \in Comments(t) : t[i].says = "Export"}

(* What takes an Export away from the rules below.                         *)
Stops(t) == Rules(t) \cup Exports(t) \cup {i \in Uses(t) : ~Nested(t, i)}

(* Rule r is the one that the Export in line e is for.                     *)
Binds(t, e, r) == /\ IsLibrary(t)
                  /\ e \in Exports(t) /\ r \in Rules(t) /\ r > e
                  /\ \A i \in Stops(t) : ~(e < i /\ i < r)

(* The comments of compiled.rs say otherwise (291-292, 459-461, 531-538): *)
(* an Export counts wherever it stands on a line of its own, in a rule too,*)
(* and nowhere else; every `;#` directive takes a waiting one away, and    *)
(* then an Export below it, with no rule above, marks nothing either.      *)
Resumes(t, e) == \E d \in Said(t, "Export"), u \in Uses(t) :
                   d < u /\ u < e /\ \A i \in Rules(t) : ~(d < i /\ i < e)
Intends(t, e, r) == /\ IsLibrary(t)
                    /\ e \in Said(t, "Export") /\ r \in Rules(t) /\ r > e
                    /\ \A i \in Rules(t) \cup Said(t, "Export") \cup Uses(t) : ~(e < i /\ i < r)
                    /\ ~Resumes(t, e)

(* The documents in which it shows.                                        *)
TrailingExport(t) == \E e \in Exports(t) : t[e].trailing
EnclosedExport(t) == \E r \in Rules(t) : "Export" \in t[r].inside
PassedUse(t) == \E u \in Uses(t) : \E e, r \in DOMAIN t : e < u /\ u < r /\ Binds(t, e, r)
ResumedChain(t) == \E e, r \in DOMAIN t : Resumes(t, e) /\ Binds(t, e, r)

(* Every Export marks the rule that follows it or is reported as useless   *)
(* (E022), never both and never twice, whatever comments, directives and   *)
(* rules stand between; a Library line after the first rule does not       *)
(* count, and in a file that is read twice nothing else gets marked.       *)
(* Which rule follows is as the comments say but in four cases, which      *)
(* the second half leaves out and the first one covers as the code has it: *)
(* an Export in a trailing comment is taken for one (compiled.rs:681,      *)
(* against 291-292 and 459-461), one within a rule is never looked at, a   *)
(* `;#` directive after the first rule takes none away (against 531-533),  *)
(* and an Export below a `;#` directive marks (against 537-538).           *)
ExportsAccounted ==
  stage = "next" =>
    LET t == texts[file]
        told == {d.at : d \in {f \in found : f.code = "E022"}}
    IN /\ tagged[file] = {r \in Rules(t) : \E e \in Exports(t) : Binds(t, e, r)}
       /\ surface[file].exported = {t[r].name : r \in tagged[file]}
       /\ told = {e \in Exports(t) : \A r \in Rules(t) : ~Binds(t, e, r)}
       /\ ~TrailingExport(t) /\ ~EnclosedExport(t) /\ ~PassedUse(t) /\ ~ResumedChain(t) =>
            /\ tagged[file] = {r \in Rules(t) : \E e \in Said(t, "Export") : Intends(t, e, r)}
            /\ told = {e \in Said(t, "Export") : \A r \in Rules(t) : ~Intends(t, e, r)}

===============================================================================
