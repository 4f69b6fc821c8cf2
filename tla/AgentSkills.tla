------------------------------ MODULE AgentSkills ------------------------------
(***************************************************************************)
(* `cbork agent skills` (crates/cbork/src/agent_skills.rs): runs of the    *)
(* tool reconcile the skill files embedded in the binary with a            *)
(* destination directory, and keep in a state directory, for each file,    *)
(* the bytes they last installed (the ancestor of later merges).           *)
(*                                                                         *)
(* A run is a process.  Its steps are the file-system calls, so that runs, *)
(* the user's edits and crashes interleave between any two of them.  What  *)
(* the program keeps in memory is the record run[p], lost in a crash; the  *)
(* disk is target, ancestor, temp and extras.  (run[p].wrote and installed *)
(* are history, for the properties.)                                       *)
(***************************************************************************)
EXTENDS Naturals, FiniteSets

CONSTANTS
  NumFiles,    \* managed files of the bundle, in manifest order
  Lines,       \* the lines of a file, the units a merge works on
  Tokens,      \* what a line can hold
  Versions,    \* released versions of the tool
  Bundled,     \* Bundled[v]: the content each file has in version v
  UserToken,   \* what an edit leaves on a line
  Procs,       \* process identifiers
  Extras,      \* entries of the directory that no manifest names
  InitExtras,  \* what there can be at first under these names
  InitTargets, \* the states of the managed paths a history starts from
  QuietUser,   \* TRUE: the user edits only while no run is active
  MaxRuns, MaxEdits, MaxCrashes, MaxFaults   \* bounds of a history

Files   == 1..NumFiles
Content == [Lines -> Tokens]
Missing    == [kind |-> "missing"]
Directory  == [kind |-> "directory"]
NonRegular == [kind |-> "nonregular"]
Regular(c) == [kind |-> "regular", bytes |-> c]
TornFile   == [kind |-> "torn"]   \* cut short
TargetState == {Missing, Directory, NonRegular, TornFile} \cup {Regular(c) : c \in Content}

(* Bytes that are not there, and a file whose write was cut short.         *)
None    == [kind |-> "none"]
Partial == [kind |-> "partial"]
Stored(c) == [kind |-> "bytes", bytes |-> c]
AncestorState == {None} \cup {Stored(c) : c \in Content}
TempState == {None, Partial} \cup {Stored(c) : c \in Content}

Modes == {"install", "check", "overwrite", "merge", "clean"}
Outcomes == {"installed", "unchanged", "replaced", "merged", "skipped", "differ"}
TempName == [proc : Procs, file : Files]

(* What an extra entry is ("empty" and "nonempty" directories), and what a *)
(* cleaning run has seen it to be.                                         *)
Kinds == {"gone", "file", "symlink", "empty", "nonempty"}
Unseen == [kind |-> "unseen"]
Seen(e, k) == [entry |-> e, kind |-> k]

ASSUME AgentSkillsAssumption ==
  /\ NumFiles \in Nat \ {0}
  /\ Versions # {}
  /\ Bundled \in [Versions -> Content] /\ UserToken \in Tokens
  /\ InitTargets \subseteq [Files -> TargetState \ {TornFile}]
  /\ InitExtras \subseteq [Extras -> Kinds]
  /\ Extras \cap TempName = {}   \* the user's names are not those of temporary files
  /\ QuietUser \in BOOLEAN
  /\ {MaxRuns, MaxEdits, MaxCrashes, MaxFaults} \subseteq Nat

VARIABLES
  target,     \* target[f]: what is at the path of a managed file
  ancestor,   \* ancestor[f]: the state file kept for it
  temp,       \* temp[p][f]: the temporary sibling that process p writes
  extras,     \* extras[e]: what there is under the name of an extra entry
  run,        \* run[p]: the memory of process p
  installed,  \* installed[f]: contents that runs have put at f's path
  budget      \* what is left of the bounds

disk == <<target, ancestor, temp, extras>>
vars == <<target, ancestor, temp, extras, run, installed, budget>>
--------------------------------------------------------------------------------
(* The report of a run: per outcome the files that had it, what failed (a  *)
(* file, the whole bundle or the scan for extras), the entries removed, and*)
(* `ok`.                                                                   *)
BundleError == 0
ScanError   == NumFiles + 1
EmptyReport == [outcome |-> [o \in Outcomes |-> {}], errors |-> {}, removed |-> {}, ok |-> TRUE]
FailedReport == [EmptyReport EXCEPT !.errors = {BundleError}, !.ok = FALSE]

Report == [outcome : [Outcomes -> SUBSET Files], errors : SUBSET (Files \cup {BundleError, ScanError}),
           removed : SUBSET (Extras \cup TempName), ok : BOOLEAN]

IdleRun == [pc |-> "idle", mode |-> "check", version |-> CHOOSE v \in Versions : TRUE,
            tty |-> FALSE, file |-> 1, existing |-> None, base |-> None, bytes |-> None,
            outcome |-> "unchanged", answer |-> "none", scanned |-> {}, seen |-> Unseen,
            wrote |-> {}, report |-> EmptyReport]

Run == [pc : {"idle", "file", "differs", "prompt", "write", "close", "rename", "ancestor",
              "scan", "clean", "remove", "done"},
        mode : Modes, version : Versions, tty : BOOLEAN, file : Files,
        existing : AncestorState, base : AncestorState, bytes : AncestorState,
        outcome : Outcomes, answer : {"none", "merge", "replace", "skip", "quit"},
        scanned : SUBSET (Extras \cup TempName),
        seen : {Unseen} \cup [entry : Extras \cup TempName, kind : Kinds],
        wrote : SUBSET Files, report : Report]

TypeOK ==
  /\ target \in [Files -> TargetState]
  /\ ancestor \in [Files -> AncestorState]
  /\ temp \in [Procs -> [Files -> TempState]]
  /\ extras \in [Extras -> Kinds]
  /\ run \in [Procs -> Run]
  /\ installed \in [Files -> SUBSET Content]
  /\ budget \in [runs : Nat, edits : Nat, crashes : Nat, faults : Nat]

Init ==
  /\ target \in InitTargets
  /\ ancestor = [f \in Files |-> None]
  /\ temp = [p \in Procs |-> [f \in Files |-> None]]
  /\ extras \in InitExtras
  /\ run = [p \in Procs |-> IdleRun]
  /\ installed = [f \in Files |-> {}]
  /\ budget = [runs |-> MaxRuns, edits |-> MaxEdits, crashes |-> MaxCrashes,
               faults |-> MaxFaults]

At(p, pc) == run[p].pc = pc
Incoming(p) == Bundled[run[p].version]
Active(p) == run[p].pc \notin {"idle", "done"}

(* What a run knows of one file it forgets with it.                        *)
Forget(r) == [r EXCEPT !.existing = None, !.base = None, !.bytes = None,
                       !.outcome = "unchanged", !.answer = "none"]

(* Where a run goes once it is through with a file: to the next file, or   *)
(* to the extras pass; a user's quit ends the bundle.                      *)
AfterFile(r, report) ==
  IF r.file < NumFiles
    THEN [Forget(r) EXCEPT !.pc = "file", !.file = r.file + 1, !.report = report]
    ELSE [Forget(r) EXCEPT !.pc = "scan", !.report = report]

(* The same, after a file that differed.  `process_bundle` takes a file    *)
(* that was skipped in a report that is not ok for a request to quit.      *)
AfterDiffering(r, report) ==
  IF r.file \in report.outcome["skipped"] /\ ~report.ok
    THEN [Forget(r) EXCEPT !.pc = "done", !.report = report]
    ELSE AfterFile(r, report)

Push(report, o, f) == [report EXCEPT !.outcome[o] = @ \cup {f}]
Fail(report) == [report EXCEPT !.ok = FALSE]

(* Mutant: an error leaves `ok`.                                           *)
PushErrorOnly(report, f) == [report EXCEPT !.errors = @ \cup {f}]
PushError(report, f) == Fail([report EXCEPT !.errors = @ \cup {f}])
Conflicting(report, f) == PushError(Push(report, "differ", f), f)

(* `?` in process_bundle: the report built so far is dropped and the       *)
(* operation reports the bundle as failed.                                 *)
Abort(r) == [Forget(r) EXCEPT !.pc = "done", !.report = FailedReport]

(* Begin `install_file` of these bytes, to report it as this outcome.      *)
Install(r, bytes, outcome) ==
  [r EXCEPT !.pc = "write", !.bytes = Stored(bytes), !.outcome = outcome]

(* The three-way merge of the diffy crate, line by line: a side that left  *)
(* a line alone takes the other side's.                                    *)
MergeConflicts(base, local, incoming) ==
  \E l \in Lines : /\ local[l] # base[l] /\ incoming[l] # base[l]
                   /\ local[l] # incoming[l]
Merged(base, local, incoming) ==
  [l \in Lines |-> IF local[l] = base[l] THEN incoming[l] ELSE local[l]]

(* Reconcile by merging (`try_merge` and the arms that use its outcome).   *)
TryMerge(r, incoming) ==
  LET local == r.existing.bytes
  IN IF r.base = None \/ (local # incoming
                          /\ MergeConflicts(r.base.bytes, local, incoming))
       THEN AfterDiffering(r, Conflicting(r.report, r.file))
     ELSE IF local = incoming
       THEN AfterDiffering(r, Push(r.report, "unchanged", r.file))
     ELSE Install(r, Merged(r.base.bytes, local, incoming), "merged")
--------------------------------------------------------------------------------
Become(p, r) == run' = [run EXCEPT ![p] = r]

(* `execute`: a run of some version of the tool in some mode, whose        *)
(* directories exist or can be created.                                    *)
Start(p) ==
  /\ ~Active(p) /\ budget.runs > 0
  /\ \E m \in Modes, v \in Versions, tty \in BOOLEAN :
       /\ tty => m \in {"install", "clean"}
       /\ Become(p, [IdleRun EXCEPT !.pc = "file", !.mode = m, !.version = v, !.tty = tty])
  /\ budget' = [budget EXCEPT !.runs = @ - 1]
  /\ UNCHANGED <<disk, installed>>

(* `read_target` and the arms of process_bundle for what it finds.         *)
ReadTarget(p) ==
  /\ At(p, "file")
  /\ LET r == run[p]
         t == target[r.file]
     IN Become(p,
          IF t = Missing
            THEN IF r.mode = "check"
                   THEN AfterFile(r, Fail(Push(r.report, "differ", r.file)))
                   ELSE Install(r, Incoming(p), "installed")
          ELSE IF t \in {Directory, NonRegular, TornFile}
            THEN AfterFile(r, PushError(r.report, r.file))
          ELSE IF t = Regular(Incoming(p))
            THEN AfterFile(r, Push(r.report, "unchanged", r.file))
          ELSE [r EXCEPT !.pc = "differs", !.existing = Stored(t.bytes)])
  /\ UNCHANGED <<disk, installed, budget>>

(* Mutant: without a terminal the file is replaced.                        *)
HandleDifferingUnasked(p) ==
  /\ At(p, "differs")
  /\ LET r == run[p]
         read == [r EXCEPT !.base = ancestor[r.file]]
     IN Become(p,
          IF r.mode = "merge" THEN TryMerge(read, Incoming(p))
          ELSE IF r.tty THEN [read EXCEPT !.pc = "prompt"]
          ELSE IF r.mode = "check"
            THEN AfterDiffering(r, Fail(Push(r.report, "differ", r.file)))
          ELSE Install(r, Incoming(p), "replaced"))
  /\ UNCHANGED <<disk, installed, budget>>

(* `handle_differing`, up to a prompt: the ancestor is read in the modes   *)
(* that may merge.                                                         *)
HandleDiffering(p) ==
  /\ At(p, "differs")
  /\ LET r == run[p]
         read == [r EXCEPT !.base = ancestor[r.file]]
     IN Become(p,
          IF r.mode = "overwrite" THEN Install(r, Incoming(p), "replaced")
          ELSE IF r.mode = "merge" THEN TryMerge(read, Incoming(p))
          ELSE IF r.tty THEN [read EXCEPT !.pc = "prompt"]
          ELSE AfterDiffering(r, Fail(Push(r.report, "differ", r.file))))
  /\ UNCHANGED <<disk, installed, budget>>

(* The user's answer; `merge` is offered only with an ancestor.  End of    *)
(* input and an empty line are `skip`.                                     *)
Answer(p) ==
  /\ At(p, "prompt")
  /\ \E choice \in {"merge", "replace", "skip", "quit"} :
       LET r == [run[p] EXCEPT !.answer = choice]
           skipped == Push(r.report, "skipped", r.file)
       IN /\ choice = "merge" => r.base # None
          /\ Become(p,
               IF choice = "merge"        THEN TryMerge(r, Incoming(p))
               ELSE IF choice = "replace" THEN Install(r, Incoming(p), "replaced")
               ELSE IF choice = "skip"    THEN AfterDiffering(r, skipped)
               ELSE AfterDiffering(r, Fail(skipped)))
  /\ UNCHANGED <<disk, installed, budget>>
--------------------------------------------------------------------------------
(* `install_file`: the bytes go to a temporary sibling, which is renamed   *)
(* over the path; then the ancestor is written.                            *)

Write(p) ==
  /\ At(p, "write")
  /\ temp' = [temp EXCEPT ![p][run[p].file] = Partial]
  /\ Become(p, [run[p] EXCEPT !.pc = "close"])
  /\ UNCHANGED <<target, ancestor, extras, installed, budget>>

(* Mutant: a write that stops short passes for a complete one.             *)
CloseShort(p) ==
  /\ At(p, "close")
  /\ Become(p, [run[p] EXCEPT !.pc = "rename"])
  /\ UNCHANGED <<target, ancestor, temp, extras, installed, budget>>

(* The file is complete, unless it lost its name meanwhile.                *)
Close(p) ==
  /\ At(p, "close")
  /\ temp' = [temp EXCEPT ![p][run[p].file] = IF @ = None THEN None ELSE run[p].bytes]
  /\ Become(p, [run[p] EXCEPT !.pc = "rename"])
  /\ UNCHANGED <<target, ancestor, extras, installed, budget>>

(* Renaming fails on a file that is gone and onto a directory.             *)
Renamable(p) == /\ temp[p][run[p].file] # None
                /\ target[run[p].file] # Directory

(* What a rename puts at the path is what the temporary file holds.        *)
InPlace(t) == IF t = Partial THEN TornFile ELSE Regular(t.bytes)
Whole(t)   == IF t = Partial THEN {} ELSE {t.bytes}

(* Mutant: a failed rename is not an error.                                *)
RenameUnchecked(p) ==
  /\ At(p, "rename")
  /\ LET r == run[p]
         f == r.file
     IN /\ temp' = [temp EXCEPT ![p][f] = None]
        /\ Become(p, [r EXCEPT !.pc = "ancestor",
                      !.wrote = IF Renamable(p) THEN @ \cup {f} ELSE @])
        /\ IF Renamable(p)
             THEN /\ target' = [target EXCEPT ![f] = InPlace(temp[p][f])]
                  /\ installed' = [installed EXCEPT ![f] = @ \cup Whole(temp[p][f])]
             ELSE UNCHANGED <<target, installed>>
  /\ UNCHANGED <<ancestor, extras, budget>>

Rename(p) ==
  /\ At(p, "rename")
  /\ LET r == run[p]
         f == r.file
     IN /\ temp' = [temp EXCEPT ![p][f] = None]
        /\ IF Renamable(p)
             THEN /\ target' = [target EXCEPT ![f] = InPlace(temp[p][f])]
                  /\ installed' = [installed EXCEPT ![f] = @ \cup Whole(temp[p][f])]
                  /\ Become(p, [r EXCEPT !.pc = "ancestor", !.wrote = @ \cup {f}])
             ELSE /\ Become(p, Abort(r))
                  /\ UNCHANGED <<target, installed>>
  /\ UNCHANGED <<ancestor, extras, budget>>

(* The report of an installed file; only a file that differed before can   *)
(* be taken for a request to quit, and this one was not skipped.           *)
Installed(r) == AfterFile(r, Push(r.report, r.outcome, r.file))

(* The ancestor has a temporary sibling too, which nothing else reads: one *)
(* step.                                                                   *)
WriteAncestor(p) ==
  /\ At(p, "ancestor")
  /\ ancestor' = [ancestor EXCEPT ![run[p].file] = run[p].bytes]
  /\ Become(p, Installed(run[p]))
  /\ UNCHANGED <<target, temp, extras, installed, budget>>
--------------------------------------------------------------------------------
(* `scan_extras`: what the directory holds beside the managed files, the   *)
(* temporary files of any run included.                                    *)
KindOf(e) == IF e \in Extras THEN extras[e]
             ELSE IF temp[e.proc][e.file] = None THEN "gone" ELSE "file"
Present == {e \in Extras \cup TempName : KindOf(e) # "gone"}

(* `run_extras_pass`: only --clean removes; the others warn and end.       *)
Scan(p) ==
  /\ At(p, "scan")
  /\ Become(p, IF run[p].mode = "clean"
                 THEN [run[p] EXCEPT !.pc = "clean", !.scanned = Present]
                 ELSE [run[p] EXCEPT !.pc = "done"])
  /\ UNCHANGED <<disk, installed, budget>>

(* `clean_extra` looks at an entry, and for a directory into it, and then  *)
(* removes it: two system calls, and what it saw may have gone meanwhile.  *)

(* Mutant: an entry that stays is looked at again.                         *)
LookAgain(p) ==
  /\ At(p, "clean")
  /\ \E e \in run[p].scanned :
       KindOf(e) \in {"file", "empty"} /\
         Become(p, [run[p] EXCEPT !.pc = "remove", !.scanned = @ \ {e}, !.seen = Seen(e, KindOf(e))])
  /\ UNCHANGED <<disk, installed, budget>>

Look(p) ==
  /\ At(p, "clean")
  /\ \E e \in run[p].scanned :
       Become(p, IF KindOf(e) \in {"file", "empty"}
                   THEN [run[p] EXCEPT !.pc = "remove", !.scanned = @ \ {e}, !.seen = Seen(e, KindOf(e))]
                   ELSE [run[p] EXCEPT !.scanned = @ \ {e}])
  /\ UNCHANGED <<disk, installed, budget>>

(* Mutant: a directory goes with what it holds (`remove_dir_all`).         *)
RemovesTree(seen) == IF seen = "file" THEN {"file", "symlink"} ELSE {"empty", "nonempty"}

(* What the call made for such an entry takes away, when it comes to it:   *)
(* `remove_file` a link as well, `remove_dir` a directory that is empty.   *)
Removes(seen) == IF seen = "file" THEN {"file", "symlink"} ELSE {"empty"}

Remove(p) ==
  /\ At(p, "remove")
  /\ LET e == run[p].seen.entry
         removed == KindOf(e) \in Removes(run[p].seen.kind)
     IN /\ extras' = [x \in Extras |-> IF removed /\ x = e THEN "gone" ELSE extras[x]]
        /\ temp' = [q \in Procs |-> [f \in Files |->
                      IF removed /\ e = [proc |-> q, file |-> f] THEN None ELSE temp[q][f]]]
        /\ Become(p, [run[p] EXCEPT !.pc = "clean", !.seen = Unseen,
                        !.report.removed = IF removed THEN @ \cup {e} ELSE @])
  /\ UNCHANGED <<target, ancestor, installed, budget>>

CleanEnd(p) ==
  /\ At(p, "clean") /\ run[p].scanned = {}
  /\ Become(p, [run[p] EXCEPT !.pc = "done"])
  /\ UNCHANGED <<disk, installed, budget>>

(* A system call that fails.  Most end the bundle (`?`); a failed write    *)
(* leaves its temporary file, a failed rename removes it; the ancestor's   *)
(* is a warning, and the scan's an error of the report.                    *)
ReadsAncestor(r) == r.mode = "merge" \/ (r.mode # "overwrite" /\ r.tty)

Fault(p) ==
  /\ budget.faults > 0
  /\ LET r == run[p]
     IN \/ /\ \/ r.pc \in {"file", "prompt", "write", "close"}
              \/ r.pc = "differs" /\ ReadsAncestor(r)
           /\ Become(p, Abort(r))
           /\ UNCHANGED temp
        \/ /\ r.pc = "rename"
           /\ Become(p, Abort(r))
           /\ temp' = [temp EXCEPT ![p][r.file] = None]
        \/ /\ r.pc = "ancestor"
           /\ Become(p, Installed(r))
           /\ UNCHANGED temp
        \/ /\ r.pc = "scan"
           /\ Become(p, [r EXCEPT !.pc = "done", !.report = PushError(r.report, ScanError)])
           /\ UNCHANGED temp
        \/ /\ r.pc = "clean"      \* an entry that cannot be looked at is skipped
           /\ \E e \in r.scanned : Become(p, [r EXCEPT !.scanned = @ \ {e}])
           /\ UNCHANGED temp
        \/ /\ r.pc = "remove"     \* and one that cannot be removed
           /\ Become(p, [r EXCEPT !.pc = "clean", !.seen = Unseen])
           /\ UNCHANGED temp
  /\ budget' = [budget EXCEPT !.faults = @ - 1]
  /\ UNCHANGED <<target, ancestor, extras, installed>>

(* The process dies; its temporary file stays.                             *)
Crash(p) ==
  /\ Active(p) /\ budget.crashes > 0
  /\ Become(p, IdleRun)
  /\ budget' = [budget EXCEPT !.crashes = @ - 1]
  /\ UNCHANGED <<disk, installed>>

(* The user edits a line of a managed file, removes it, or puts a          *)
(* directory in its place; or changes what there is under another name.    *)
EditFile ==
  /\ \E f \in Files :
       \/ target' = [target EXCEPT ![f] = Missing]
       \/ target' = [target EXCEPT ![f] = Directory]
       \/ /\ target[f].kind = "regular"
          /\ \E l \in Lines : target' = [target EXCEPT ![f].bytes[l] = UserToken]
  /\ UNCHANGED extras

EditExtra ==
  /\ \E e \in Extras, k \in Kinds : extras' = [extras EXCEPT ![e] = k]
  /\ UNCHANGED target

Edit ==
  /\ budget.edits > 0
  /\ QuietUser => \A p \in Procs : ~Active(p)
  /\ EditFile \/ EditExtra
  /\ budget' = [budget EXCEPT !.edits = @ - 1]
  /\ UNCHANGED <<ancestor, temp, run, installed>>

Step(p) ==
  \/ ReadTarget(p) \/ HandleDiffering(p) \/ Answer(p)
  \/ Write(p) \/ Close(p) \/ Rename(p) \/ WriteAncestor(p)
  \/ Scan(p) \/ Look(p) \/ Remove(p) \/ CleanEnd(p)

Next == \/ \E p \in Procs : Step(p) \/ Start(p) \/ Fault(p) \/ Crash(p)
        \/ Edit

Spec == Init /\ [][Next]_vars

(* A process that is not dead gets to its next system call, and a user at  *)
(* a prompt answers it.                                                    *)
FairSpec == Spec /\ \A p \in Procs : WF_vars(Step(p))
--------------------------------------------------------------------------------
Done(p) == At(p, "done")
Aborted(p) == BundleError \in run[p].report.errors
Outcome(p, o) == run[p].report.outcome[o]
UpToDate(p) == \A f \in Files : target[f] = Regular(Incoming(p))

(* A managed path never holds a file cut short, whatever crashes between   *)
(* two system calls and whatever another run removes: the reason for the   *)
(* temporary file (agent_skills.rs:568-570).                               *)
NeverTorn == \A f \in Files : target[f] # TornFile

(* The state directory never runs ahead of the files: the ancestor of a    *)
(* file is a content that a run really installed at its path.              *)
AncestorWasInstalled ==
  \A f \in Files : ancestor[f] # None => \E c \in installed[f] : ancestor[f] = Stored(c)

(* The directory of skill files as its users know it: seen without the     *)
(* temporary files and the memory of the runs, every step puts a whole     *)
(* content at one path, keeps one that was installed as the ancestor, is   *)
(* the user's, or changes nothing.                                         *)
Store == INSTANCE SkillStore WITH
  Paths <- Files, Contents <- Content, Initially <- InitTargets,
  Absent <- Missing, Blocked <- Directory, Occupied <- Regular, Nothing <- None, Remembered <- Stored,
  file <- target, kept <- ancestor, history <- installed
ImplementsStore == Store!Spec

(* The report lists a file as installed, replaced or merged only if this   *)
(* run put it in place, also when a --clean in another process takes its   *)
(* temporary files away.                                                   *)
ReportIsTrue ==
  \A p \in Procs :
    Outcome(p, "installed") \cup Outcome(p, "replaced") \cup Outcome(p, "merged")
      \subseteq run[p].wrote

(* Every file a run has got to is in the report exactly once: under one    *)
(* outcome or among the errors (a merge conflict under both).  An error of *)
(* the whole bundle leaves nothing else in the report.                     *)
Listed(p, f) == {o \in Outcomes : f \in Outcome(p, o)}
Accounted(p, f) ==
  LET failed == f \in run[p].report.errors
  IN \/ Cardinality(Listed(p, f)) = 1 /\ (failed => Listed(p, f) = {"differ"})
     \/ Listed(p, f) = {} /\ failed
FilesAccounted(p) == Aborted(p) \/ \A f \in 1..run[p].file : Accounted(p, f)

(* `ok` says, of a run that nothing disturbed, what its mode promises:     *)
(* after --check and --overwrite exactly that the directory holds the      *)
(* bundle; after the others no file differs that the user did not choose   *)
(* to keep, or that was not merged.                                        *)
Kept(p) == {f \in Files : f \in Outcome(p, "skipped") \cup Outcome(p, "merged")}
OkIsExactFor(p) ==
  LET report == run[p].report
  IN /\ run[p].mode \in {"check", "overwrite"} =>
          (report.ok <=> UpToDate(p) /\ report.errors = {})
     /\ report.ok => \A f \in Files \ Kept(p) : target[f] = Regular(Incoming(p))
(* What a run reports when it ends is exact: the files and the verdict.    *)
ReportIsExact ==
  [][\A p \in Procs : ~Done(p) /\ Done(p)' => (FilesAccounted(p) /\ OkIsExactFor(p))']_vars

(* A content that no run put there is the user's.  A run that nothing      *)
(* disturbs replaces it only if it was told to: by --overwrite or --merge, *)
(* or by the answer to its prompt.                                         *)
Consented(p) == run[p].mode \in {"overwrite", "merge"} \/ run[p].answer \in {"merge", "replace"}
ReplacedByConsent ==
  [][\A p \in Procs, f \in Files :
       run'[p].wrote \ run[p].wrote = {f} =>
         \/ target[f] = Missing
         \/ /\ target[f].kind = "regular"
            /\ target[f].bytes \notin installed[f] => Consented(p)]_vars

(* Two runs that clean, and a user who changes the entries between a look  *)
(* and the removal: a run takes away, in the mode that may, what is then   *)
(* in its report, and reports nothing else; never a directory that holds   *)
(* something; a link only if it took the place of a file after the look    *)
(* (`clean_extra`, whose comment has no such case, agent_skills.rs:453).   *)
RemovedNow(p) == run'[p].report.removed \ run[p].report.removed
MayRemove(p, e) ==
  /\ At(p, "remove") /\ run[p].mode = "clean"
  /\ extras[e] \in {"file", "empty"} \/ (extras[e] = "symlink" /\ run[p].seen.kind = "file")
ExtrasProtected ==
  [][\A e \in Extras :
       /\ extras'[e] # extras[e] /\ run' # run =>
            /\ extras'[e] = "gone"
            /\ \E p \in Procs : MayRemove(p, e) /\ e \in run'[p].report.removed
       /\ \A p \in Procs : e \in RemovedNow(p) => extras'[e] = "gone" /\ extras[e] # "gone"]_vars

(* A run comes to its end (or dies), however other runs interfere.         *)
RunsEnd == \A p \in Procs : Active(p) ~> ~Active(p)
--------------------------------------------------------------------------------
(* README.md:55 of the crate, `--merge` is to "Three-way merge local edits *)
(* against incoming vendored changes", and agent_skills.rs:646, "`ancestor`*)
(* is the previously installed vendored bytes": a clean merge of an edited *)
(* file leaves the lines the user wrote.                                   *)
UserLines(c) == {l \in Lines : c[l] = UserToken}
MergeKeepsEdits ==
  [][\A p \in Procs, f \in Files :
       /\ At(p, "rename") /\ run[p].outcome = "merged" /\ run[p].file = f
       /\ target'[f] # target[f] /\ target[f].kind = "regular"
       => UserLines(target[f].bytes) \subseteq UserLines(target'[f].bytes)]_vars
================================================================================
