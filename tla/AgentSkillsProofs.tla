-------------------------- MODULE AgentSkillsProofs --------------------------
(***************************************************************************)
(* Proofs about AgentSkills for any number of processes, files, versions   *)
(* and extra entries, and any history: types, that a managed path never    *)
(* holds a torn file, that an ancestor was installed, that a report lists  *)
(* nothing that its run did not write, and the refinement of SkillStore.   *)
(* They follow from one invariant, SkillsInv: what the memory of a run     *)
(* carries (RunInv), and that the temporary file that a run is about to    *)
(* rename is whole, or gone (WholeTemps).                                  *)
(*                                                                         *)
(* The last part is about runs that nothing disturbs: that the report is   *)
(* exact and that nothing of the user's is replaced unasked.  Its          *)
(* invariant, Good, ties the memory of the run to the disk: a Book of the  *)
(* files the run is through with, and what it saw at the path of the next. *)
(***************************************************************************)
EXTENDS AgentSkills, FiniteSetTheorems, TLAPS

Installing == {"write", "close", "rename", "ancestor"}
Bytes == {Stored(c) : c \in Content}

(* The report r claims nothing that is not in wrote.                       *)
Truthful(report, wrote) ==
  report.outcome["installed"] \cup report.outcome["replaced"] \cup report.outcome["merged"]
    \subseteq wrote

(* The memory of a run, given the contents installed so far: a run that is *)
(* about to install has bytes, one past its rename has put them in place,  *)
(* and one that removes entries was told to.                               *)
RunInv(r, inst) ==
  /\ r \in Run
  /\ Truthful(r.report, r.wrote)
  /\ r.pc \in {"differs", "prompt"} => r.existing \in Bytes
  /\ r.pc \in Installing => r.bytes \in Bytes
  /\ r.pc = "ancestor" => r.file \in r.wrote /\ r.bytes.bytes \in inst[r.file]
  /\ r.pc \in {"clean", "remove"} => r.mode = "clean"
  /\ r.pc = "remove" => r.seen.kind \in {"file", "empty"}

MemoryInv ==
  /\ TypeOK
  /\ NeverTorn
  /\ AncestorWasInstalled
  /\ \A p \in Procs : RunInv(run[p], installed)

(* A run renames its temporary file only after it has closed it: it holds  *)
(* the bytes of the run, unless another run has removed it.                *)
WholeTemps ==
  \A p \in Procs : At(p, "rename") => temp[p][run[p].file] \in {None, run[p].bytes}

SkillsInv == MemoryInv /\ WholeTemps

LEMMA BytesFacts ==
  /\ \A b \in Bytes : b.bytes \in Content /\ b = Stored(b.bytes) /\ b # None
  /\ Bytes \subseteq AncestorState
  /\ AncestorState \subseteq TempState
  /\ \A b \in AncestorState : b # None => b \in Bytes
BY DEF Bytes, Stored, AncestorState, TempState, None, Partial

LEMMA ReportFacts == EmptyReport \in Report /\ FailedReport \in Report
                     /\ \A w \in SUBSET Files : Truthful(EmptyReport, w) /\ Truthful(FailedReport, w)
BY AgentSkillsAssumption DEF EmptyReport, FailedReport, Report, Truthful, Outcomes, BundleError, ScanError, Files

LEMMA ForgetFacts ==
  ASSUME NEW r \in Run
  PROVE  /\ Forget(r) \in Run
         /\ Forget(r).mode = r.mode /\ Forget(r).version = r.version /\ Forget(r).tty = r.tty
         /\ Forget(r).file = r.file /\ Forget(r).wrote = r.wrote /\ Forget(r).report = r.report
         /\ Forget(r).pc = r.pc
<1>1. None \in AncestorState /\ "unchanged" \in Outcomes
  BY DEF AncestorState, Outcomes
<1>. QED BY <1>1 DEF Forget, Run

LEMMA IdleFacts ==
  ASSUME NEW inst \in [Files -> SUBSET Content]
  PROVE  RunInv(IdleRun, inst)
<1>1. (CHOOSE v \in Versions : TRUE) \in Versions
  BY AgentSkillsAssumption
<1>2. 1 \in Files
  BY AgentSkillsAssumption DEF Files
<1>3. IdleRun \in Run
  BY <1>1, <1>2, ReportFacts DEF IdleRun, Run, Modes, AncestorState, Outcomes
<1>. QED BY <1>3, ReportFacts DEF IdleRun, RunInv, Installing

(* Pushing an outcome that claims no write.                                *)
LEMMA PushFacts ==
  ASSUME NEW report \in Report, NEW o \in Outcomes, NEW f \in Files, NEW w \in SUBSET Files,
         Truthful(report, w), o \in {"installed", "replaced", "merged"} => f \in w
  PROVE  Push(report, o, f) \in Report /\ Truthful(Push(report, o, f), w)
BY DEF Push, Report, Truthful, Outcomes

LEMMA FailFacts ==
  ASSUME NEW report \in Report, NEW f \in Files \cup {BundleError, ScanError}, NEW w \in SUBSET Files,
         Truthful(report, w)
  PROVE  /\ Fail(report) \in Report /\ Truthful(Fail(report), w)
         /\ PushError(report, f) \in Report /\ Truthful(PushError(report, f), w)
BY DEF Fail, PushError, Report, Truthful, Outcomes

LEMMA ConflictingFacts ==
  ASSUME NEW report \in Report, NEW f \in Files, NEW w \in SUBSET Files, Truthful(report, w)
  PROVE  Conflicting(report, f) \in Report /\ Truthful(Conflicting(report, f), w)
<1>1. Push(report, "differ", f) \in Report /\ Truthful(Push(report, "differ", f), w)
  BY PushFacts DEF Outcomes
<1>. QED BY <1>1, FailFacts DEF Conflicting

(* The ways a run goes on from a file.                                     *)
LEMMA AfterFacts ==
  ASSUME NEW inst, NEW r \in Run, NEW report \in Report, Truthful(report, r.wrote)
  PROVE  RunInv(AfterFile(r, report), inst) /\ RunInv(AfterDiffering(r, report), inst)
<1>1. r.file < NumFiles => r.file + 1 \in Files
  BY AgentSkillsAssumption DEF Run, Files
<1>2. RunInv(AfterFile(r, report), inst)
  <2> DEFINE next == AfterFile(r, report)
  <2>1. next \in Run /\ next.report = report /\ next.wrote = r.wrote /\ next.pc \in {"file", "scan"}
    BY <1>1, ForgetFacts DEF AfterFile, Run
  <2> HIDE DEF next
  <2>2. RunInv(next, inst)
    BY <2>1 DEF RunInv, Installing
  <2>. QED BY <2>2 DEF next
<1>3. RunInv([Forget(r) EXCEPT !.pc = "done", !.report = report], inst)
  BY ForgetFacts DEF RunInv, Run, Installing
<1>. QED BY <1>2, <1>3 DEF AfterDiffering

LEMMA InstallFacts ==
  ASSUME NEW inst, NEW r \in Run, Truthful(r.report, r.wrote), NEW c \in Content, NEW o \in Outcomes
  PROVE  RunInv(Install(r, c, o), inst)
BY BytesFacts DEF Install, RunInv, Run, Installing, Bytes

LEMMA AbortFacts ==
  ASSUME NEW inst, NEW r \in Run
  PROVE  RunInv(Abort(r), inst)
BY ReportFacts, ForgetFacts DEF Abort, RunInv, Run, Installing

LEMMA TryMergeFacts ==
  ASSUME NEW inst, NEW r \in Run, Truthful(r.report, r.wrote), r.existing \in Bytes,
         NEW incoming \in Content
  PROVE  RunInv(TryMerge(r, incoming), inst)
<1> DEFINE local == r.existing.bytes
<1>1. r.report \in Report /\ r.file \in Files /\ r.wrote \in SUBSET Files /\ r.base \in AncestorState
  BY DEF Run
<1>2. RunInv(AfterDiffering(r, Conflicting(r.report, r.file)), inst)
  BY <1>1, ConflictingFacts, AfterFacts
<1>3. RunInv(AfterDiffering(r, Push(r.report, "unchanged", r.file)), inst)
  BY <1>1, PushFacts, AfterFacts DEF Outcomes
<1>4. ASSUME r.base # None
      PROVE  RunInv(Install(r, Merged(r.base.bytes, local, incoming), "merged"), inst)
  <2>1. r.base.bytes \in Content /\ local \in Content
    BY <1>1, <1>4, BytesFacts
  <2>2. Merged(r.base.bytes, local, incoming) \in Content
    BY <2>1 DEF Merged, Content
  <2>. QED BY <2>2, InstallFacts DEF Outcomes
<1>. QED BY <1>2, <1>3, <1>4 DEF TryMerge

(* RunInv survives when more has been installed.                           *)
LEMMA RunInvMonotone ==
  ASSUME NEW r, NEW inst, NEW more, RunInv(r, inst), \A f \in Files : inst[f] \subseteq more[f]
  PROVE  RunInv(r, more)
BY DEF RunInv, Run

(* A step of p that touches memory only.                                   *)
LEMMA MemoryStep ==
  ASSUME SkillsInv, NEW p \in Procs, NEW r, RunInv(r, installed), Become(p, r),
         UNCHANGED <<target, ancestor, extras, installed>>,
         temp' \in [Procs -> [Files -> TempState]],
         budget' \in [runs : Nat, edits : Nat, crashes : Nat, faults : Nat]
  PROVE  MemoryInv'
<1>1. r \in Run
  BY DEF RunInv
<1>2. run' \in [Procs -> Run]
  BY <1>1 DEF SkillsInv, MemoryInv, TypeOK, Become
<1>3. TypeOK'
  BY <1>2 DEF SkillsInv, MemoryInv, TypeOK
<1>4. \A q \in Procs : RunInv(run[q], installed)'
  BY DEF SkillsInv, MemoryInv, TypeOK, Become
<1>. QED BY <1>3, <1>4 DEF SkillsInv, MemoryInv, NeverTorn, AncestorWasInstalled

(* A step of p that only moves bytes between its temporary files.          *)
LEMMA TempTypes ==
  ASSUME TypeOK, NEW p \in Procs, NEW f \in Files, NEW t \in TempState
  PROVE  [temp EXCEPT ![p][f] = t] \in [Procs -> [Files -> TempState]]
BY DEF TypeOK

LEMMA BundledFacts ==
  ASSUME NEW r \in Run PROVE Bundled[r.version] \in Content
BY AgentSkillsAssumption DEF Run

LEMMA InitInv == Init => SkillsInv
<1> SUFFICES ASSUME Init PROVE SkillsInv
  OBVIOUS
<1> USE DEF Init
<1>1. installed \in [Files -> SUBSET Content]
  OBVIOUS
<1>2. RunInv(IdleRun, installed)
  BY <1>1, IdleFacts
<1>3. target \in [Files -> TargetState] /\ NeverTorn
  BY AgentSkillsAssumption DEF NeverTorn
<1>4. TypeOK
  BY <1>1, <1>2, <1>3, AgentSkillsAssumption DEF TypeOK, RunInv, AncestorState, TempState
<1>5. WholeTemps
  BY DEF WholeTemps, At, IdleRun
<1>. QED BY <1>2, <1>3, <1>4, <1>5 DEF SkillsInv, MemoryInv, AncestorWasInstalled

LEMMA StartInv ==
  ASSUME SkillsInv, NEW p \in Procs, Start(p) PROVE MemoryInv'
<1>1. PICK m \in Modes, v \in Versions, tty \in BOOLEAN :
        Become(p, [IdleRun EXCEPT !.pc = "file", !.mode = m, !.version = v, !.tty = tty])
  BY DEF Start
<1>2. RunInv(IdleRun, installed)
  BY IdleFacts DEF SkillsInv, MemoryInv, TypeOK
<1>3. RunInv([IdleRun EXCEPT !.pc = "file", !.mode = m, !.version = v, !.tty = tty], installed)
  BY <1>2 DEF RunInv, Run, Installing
<1>4. budget' \in [runs : Nat, edits : Nat, crashes : Nat, faults : Nat]
  BY DEF Start, SkillsInv, MemoryInv, TypeOK
<1>. QED BY <1>1, <1>3, <1>4, MemoryStep DEF Start, disk, SkillsInv, MemoryInv, TypeOK

LEMMA ReadTargetInv ==
  ASSUME SkillsInv, NEW p \in Procs, ReadTarget(p) PROVE MemoryInv'
<1> DEFINE r == run[p]
<1> DEFINE f == r.file
<1> DEFINE t == target[f]
<1>1. /\ r \in Run /\ r.report \in Report /\ Truthful(r.report, r.wrote)
      /\ f \in Files /\ r.wrote \in SUBSET Files /\ t \in TargetState
  BY DEF SkillsInv, MemoryInv, TypeOK, RunInv, Run
<1>2. RunInv(AfterFile(r, Fail(Push(r.report, "differ", f))), installed)
  BY <1>1, PushFacts, FailFacts, AfterFacts DEF Outcomes
<1>3. RunInv(Install(r, Incoming(p), "installed"), installed)
  BY <1>1, BundledFacts, InstallFacts DEF Incoming, Outcomes
<1>4. RunInv(AfterFile(r, PushError(r.report, f)), installed)
  BY <1>1, FailFacts, AfterFacts
<1>5. RunInv(AfterFile(r, Push(r.report, "unchanged", f)), installed)
  BY <1>1, PushFacts, AfterFacts DEF Outcomes
<1>6. ASSUME t \notin {Missing, Directory, NonRegular, TornFile}
      PROVE  RunInv([r EXCEPT !.pc = "differs", !.existing = Stored(t.bytes)], installed)
  <2>0. PICK c \in Content : t = Regular(c)
    BY <1>1, <1>6 DEF TargetState
  <2>1. t.bytes \in Content
    BY <2>0 DEF Regular
  <2>. QED BY <1>1, <2>1 DEF RunInv, Run, Installing, Bytes, AncestorState
<1>. QED BY <1>2, <1>3, <1>4, <1>5, <1>6, MemoryStep DEF ReadTarget, disk, SkillsInv, MemoryInv, TypeOK

LEMMA HandleDifferingInv ==
  ASSUME SkillsInv, NEW p \in Procs, HandleDiffering(p) PROVE MemoryInv'
<1> DEFINE r == run[p]
<1> DEFINE f == r.file
<1> DEFINE read == [r EXCEPT !.base = ancestor[f]]
<1>1. /\ r \in Run /\ r.report \in Report /\ Truthful(r.report, r.wrote)
      /\ f \in Files /\ r.wrote \in SUBSET Files /\ ancestor[f] \in AncestorState
      /\ r.existing \in Bytes
  BY DEF SkillsInv, MemoryInv, TypeOK, RunInv, Run, HandleDiffering, At
<1>2. /\ read \in Run /\ Truthful(read.report, read.wrote) /\ read.existing \in Bytes
      /\ Incoming(p) \in Content
  BY <1>1, BundledFacts DEF Run, Incoming
<1>3. RunInv(Install(r, Incoming(p), "replaced"), installed)
  BY <1>1, <1>2, InstallFacts DEF Outcomes
<1>4. RunInv(TryMerge(read, Incoming(p)), installed)
  BY <1>2, TryMergeFacts
<1>5. RunInv([read EXCEPT !.pc = "prompt"], installed)
  BY <1>2 DEF RunInv, Run, Installing
<1>6. RunInv(AfterDiffering(r, Fail(Push(r.report, "differ", f))), installed)
  BY <1>1, PushFacts, FailFacts, AfterFacts DEF Outcomes
<1>. QED BY <1>3, <1>4, <1>5, <1>6, MemoryStep DEF HandleDiffering, disk, SkillsInv, MemoryInv, TypeOK

LEMMA AnswerInv ==
  ASSUME SkillsInv, NEW p \in Procs, Answer(p) PROVE MemoryInv'
<1>1. PICK choice \in {"merge", "replace", "skip", "quit"} :
        LET r == [run[p] EXCEPT !.answer = choice]
            skipped == Push(r.report, "skipped", r.file)
        IN Become(p,
             IF choice = "merge"        THEN TryMerge(r, Incoming(p))
             ELSE IF choice = "replace" THEN Install(r, Incoming(p), "replaced")
             ELSE IF choice = "skip"    THEN AfterDiffering(r, skipped)
             ELSE AfterDiffering(r, Fail(skipped)))
  BY DEF Answer
<1> DEFINE r == [run[p] EXCEPT !.answer = choice]
<1> DEFINE skipped == Push(r.report, "skipped", r.file)
<1>2. /\ r \in Run /\ r.report \in Report /\ Truthful(r.report, r.wrote)
      /\ r.file \in Files /\ r.wrote \in SUBSET Files /\ r.existing \in Bytes
  <2>1. /\ run[p] \in Run /\ Truthful(run[p].report, run[p].wrote)
        /\ run[p].existing \in Bytes
    BY DEF SkillsInv, MemoryInv, RunInv, Answer, At
  <2>2. /\ r \in Run /\ r.report = run[p].report /\ r.wrote = run[p].wrote
        /\ r.existing = run[p].existing
    BY <2>1 DEF Run
  <2>. QED BY <2>1, <2>2 DEF Run
<1>3. Incoming(p) \in Content
  BY BundledFacts DEF Incoming, SkillsInv, MemoryInv, TypeOK
<1>4. RunInv(TryMerge(r, Incoming(p)), installed)
  BY <1>2, <1>3, TryMergeFacts
<1>5. RunInv(Install(r, Incoming(p), "replaced"), installed)
  BY <1>2, <1>3, InstallFacts DEF Outcomes
<1>6. skipped \in Report /\ Truthful(skipped, r.wrote)
  BY <1>2, PushFacts DEF Outcomes
<1>7. RunInv(AfterDiffering(r, skipped), installed)
  BY <1>2, <1>6, AfterFacts
<1>8. RunInv(AfterDiffering(r, Fail(skipped)), installed)
  BY <1>2, <1>6, FailFacts, AfterFacts
<1>. QED BY <1>1, <1>4, <1>5, <1>7, <1>8, MemoryStep DEF Answer, disk, SkillsInv, MemoryInv, TypeOK

LEMMA WriteInv ==
  ASSUME SkillsInv, NEW p \in Procs, Write(p) PROVE MemoryInv'
<1>1. run[p] \in Run /\ run[p].file \in Files
  BY DEF SkillsInv, MemoryInv, TypeOK, Run
<1>2. RunInv([run[p] EXCEPT !.pc = "close"], installed)
  BY <1>1 DEF SkillsInv, MemoryInv, RunInv, Run, Write, At, Installing
<1>3. temp' \in [Procs -> [Files -> TempState]]
  BY <1>1, TempTypes DEF Write, SkillsInv, MemoryInv, TempState
<1>. QED BY <1>2, <1>3, MemoryStep DEF Write, SkillsInv, MemoryInv, TypeOK

LEMMA CloseInv ==
  ASSUME SkillsInv, NEW p \in Procs, Close(p) PROVE MemoryInv'
<1>1. run[p] \in Run /\ run[p].file \in Files /\ run[p].bytes \in Bytes
  BY DEF SkillsInv, MemoryInv, TypeOK, Run, RunInv, Close, At, Installing
<1>2. RunInv([run[p] EXCEPT !.pc = "rename"], installed)
  BY <1>1 DEF SkillsInv, MemoryInv, RunInv, Run, Close, At, Installing
<1>3. run[p].bytes \in TempState /\ None \in TempState
  BY <1>1, BytesFacts DEF TempState
<1>4. temp' \in [Procs -> [Files -> TempState]]
  BY <1>1, <1>3, TempTypes DEF Close, SkillsInv, MemoryInv
<1>. QED BY <1>2, <1>4, MemoryStep DEF Close, SkillsInv, MemoryInv, TypeOK

(* What a rename puts at a managed path is whole.                          *)
LEMMA RenamesWhole ==
  ASSUME SkillsInv, NEW p \in Procs, At(p, "rename"), Renamable(p)
  PROVE  /\ InPlace(temp[p][run[p].file]) = Regular(run[p].bytes.bytes)
         /\ Whole(temp[p][run[p].file]) = {run[p].bytes.bytes}
<1>1. run[p].bytes \in Bytes
  BY DEF SkillsInv, MemoryInv, RunInv, At, Installing
<1>2. temp[p][run[p].file] = run[p].bytes
  BY DEF SkillsInv, WholeTemps, Renamable
<1>3. run[p].bytes # Partial
  BY <1>1 DEF Bytes, Stored, Partial
<1>. QED BY <1>2, <1>3 DEF InPlace, Whole

(* The one step that changes a managed path: its bytes are whole, and from *)
(* here on they count as installed.                                        *)
LEMMA RenameInv ==
  ASSUME SkillsInv, NEW p \in Procs, Rename(p) PROVE MemoryInv'
<1> DEFINE r == run[p]
<1> DEFINE f == r.file
<1>1. /\ r \in Run /\ f \in Files /\ r.bytes \in Bytes /\ r.wrote \in SUBSET Files
      /\ Truthful(r.report, r.wrote)
  BY DEF SkillsInv, MemoryInv, TypeOK, Run, RunInv, Rename, At, Installing
<1>0. Renamable(p) => InPlace(temp[p][f]) = Regular(r.bytes.bytes) /\ Whole(temp[p][f]) = {r.bytes.bytes}
  BY RenamesWhole DEF Rename
<1>2. temp' \in [Procs -> [Files -> TempState]]
  BY <1>1, TempTypes DEF Rename, SkillsInv, MemoryInv, TempState
<1>3. CASE ~Renamable(p)
  <2>1. Become(p, Abort(r)) /\ UNCHANGED <<target, installed>>
    BY <1>3 DEF Rename
  <2>. QED BY <1>1, <1>2, <2>1, AbortFacts, MemoryStep DEF Rename, SkillsInv, MemoryInv, TypeOK
<1>4. CASE Renamable(p)
  <2> DEFINE next == [r EXCEPT !.pc = "ancestor", !.wrote = @ \cup {f}]
  <2>1. /\ target' = [target EXCEPT ![f] = Regular(r.bytes.bytes)]
        /\ installed' = [installed EXCEPT ![f] = @ \cup {r.bytes.bytes}]
        /\ Become(p, next) /\ UNCHANGED <<ancestor, extras, budget>>
    BY <1>0, <1>4 DEF Rename
  <2>2. r.bytes.bytes \in Content
    BY <1>1, BytesFacts
  <2>3. Regular(r.bytes.bytes) \in TargetState /\ Regular(r.bytes.bytes) # TornFile
    BY <2>2 DEF TargetState, Regular, TornFile
  <2>4. /\ target' \in [Files -> TargetState] /\ NeverTorn'
        /\ installed' \in [Files -> SUBSET Content]
        /\ \A g \in Files : installed[g] \subseteq installed'[g]
    BY <1>1, <2>1, <2>2, <2>3 DEF SkillsInv, MemoryInv, TypeOK, NeverTorn
  <2>5. AncestorWasInstalled'
    BY <2>1, <2>4 DEF SkillsInv, MemoryInv, AncestorWasInstalled
  <2>6. RunInv(next, installed')
    <3>1. next \in Run /\ Truthful(next.report, next.wrote)
      BY <1>1 DEF Run, Truthful
    <3>2. r.bytes.bytes \in installed'[f]
      BY <1>1, <2>1 DEF SkillsInv, MemoryInv, TypeOK
    <3>3. next.file = f /\ next.bytes = r.bytes /\ f \in next.wrote /\ next.pc = "ancestor"
      BY <1>1 DEF Run
    <3>. QED BY <1>1, <3>1, <3>2, <3>3 DEF RunInv
  <2>7. \A q \in Procs : RunInv(run'[q], installed')
    <3> SUFFICES ASSUME NEW q \in Procs PROVE RunInv(run'[q], installed')
      OBVIOUS
    <3>1. CASE q = p
      BY <2>1, <2>6, <3>1 DEF Become, SkillsInv, MemoryInv, TypeOK
    <3>2. CASE q # p
      <4>1. run'[q] = run[q] /\ RunInv(run[q], installed)
        BY <2>1, <3>2 DEF Become, SkillsInv, MemoryInv, TypeOK
      <4>. QED BY <2>4, <4>1, RunInvMonotone
    <3>. QED BY <3>1, <3>2
  <2>8. run' \in [Procs -> Run]
    BY <2>1, <2>6 DEF Become, SkillsInv, MemoryInv, TypeOK, RunInv
  <2>9. TypeOK'
    BY <1>2, <2>1, <2>4, <2>8 DEF SkillsInv, MemoryInv, TypeOK
  <2>. QED BY <2>4, <2>5, <2>7, <2>9 DEF SkillsInv, MemoryInv
<1>. QED BY <1>3, <1>4

(* The report of an installed file.                                        *)
LEMMA InstalledFacts ==
  ASSUME SkillsInv, NEW p \in Procs, At(p, "ancestor")
  PROVE  RunInv(Installed(run[p]), installed)
<1>1. /\ run[p] \in Run /\ run[p].report \in Report /\ run[p].outcome \in Outcomes
      /\ run[p].file \in Files /\ run[p].wrote \in SUBSET Files
      /\ Truthful(run[p].report, run[p].wrote) /\ run[p].file \in run[p].wrote
  BY DEF SkillsInv, MemoryInv, TypeOK, RunInv, Run, At
<1>. QED BY <1>1, PushFacts, AfterFacts DEF Installed

LEMMA WriteAncestorInv ==
  ASSUME SkillsInv, NEW p \in Procs, WriteAncestor(p) PROVE MemoryInv'
<1> DEFINE r == run[p]
<1> DEFINE f == r.file
<1>1. At(p, "ancestor") /\ RunInv(Installed(r), installed)
  BY InstalledFacts DEF WriteAncestor
<1>2. f \in Files /\ r.bytes \in Bytes /\ r.bytes.bytes \in installed[f]
  BY <1>1 DEF SkillsInv, MemoryInv, TypeOK, RunInv, Run, At, Installing
<1>3. ancestor' \in [Files -> AncestorState] /\ AncestorWasInstalled'
  BY <1>2, BytesFacts DEF SkillsInv, MemoryInv, TypeOK, WriteAncestor, AncestorWasInstalled
<1>4. run' \in [Procs -> Run] /\ \A q \in Procs : RunInv(run'[q], installed)
  BY <1>1 DEF SkillsInv, MemoryInv, TypeOK, WriteAncestor, Become, RunInv
<1>5. TypeOK'
  BY <1>3, <1>4 DEF SkillsInv, MemoryInv, TypeOK, WriteAncestor
<1>6. NeverTorn' /\ \A q \in Procs : RunInv(run[q], installed)'
  BY <1>4 DEF SkillsInv, MemoryInv, WriteAncestor, NeverTorn
<1>. QED BY <1>3, <1>5, <1>6 DEF SkillsInv, MemoryInv

LEMMA ScanInv ==
  ASSUME SkillsInv, NEW p \in Procs, Scan(p) PROVE MemoryInv'
<1>1. run[p] \in Run /\ Truthful(run[p].report, run[p].wrote)
  BY DEF SkillsInv, MemoryInv, RunInv
<1>2. Present \subseteq Extras \cup TempName
  BY DEF SkillsInv, MemoryInv, TypeOK, Present
<1>3. run[p].mode = "clean" =>
        RunInv([run[p] EXCEPT !.pc = "clean", !.scanned = Present], installed)
  BY <1>1, <1>2 DEF RunInv, Run, Installing
<1>4. RunInv([run[p] EXCEPT !.pc = "done"], installed)
  BY <1>1 DEF RunInv, Run, Installing
<1>. QED BY <1>3, <1>4, MemoryStep DEF Scan, disk, SkillsInv, MemoryInv, TypeOK

LEMMA KindFacts ==
  ASSUME TypeOK, NEW e \in Extras \cup TempName PROVE KindOf(e) \in Kinds
BY DEF KindOf, TypeOK, Kinds

LEMMA LookInv ==
  ASSUME SkillsInv, NEW p \in Procs, Look(p) PROVE MemoryInv'
<1>1. PICK e \in run[p].scanned :
        Become(p, IF KindOf(e) \in {"file", "empty"}
                    THEN [run[p] EXCEPT !.pc = "remove", !.scanned = @ \ {e}, !.seen = Seen(e, KindOf(e))]
                    ELSE [run[p] EXCEPT !.scanned = @ \ {e}])
  BY DEF Look
<1>2. /\ run[p] \in Run /\ Truthful(run[p].report, run[p].wrote) /\ run[p].pc = "clean"
      /\ run[p].mode = "clean" /\ e \in Extras \cup TempName
  BY DEF SkillsInv, MemoryInv, TypeOK, RunInv, Look, At, Run
<1>3. RunInv([run[p] EXCEPT !.scanned = @ \ {e}], installed)
  BY <1>2 DEF RunInv, Run, Installing
<1>4. ASSUME KindOf(e) \in {"file", "empty"}
      PROVE  RunInv([run[p] EXCEPT !.pc = "remove", !.scanned = @ \ {e}, !.seen = Seen(e, KindOf(e))],
                    installed)
  <2>1. /\ Seen(e, KindOf(e)) \in [entry : Extras \cup TempName, kind : Kinds]
        /\ Seen(e, KindOf(e)).kind \in {"file", "empty"}
    BY <1>2, <1>4 DEF Kinds, Seen
  <2>. QED BY <1>2, <2>1 DEF RunInv, Run, Installing
<1>. QED BY <1>1, <1>3, <1>4, MemoryStep DEF Look, disk, SkillsInv, MemoryInv, TypeOK

(* The step that takes an entry out of the directory, which may be the     *)
(* temporary file of any run.                                              *)
LEMMA RemoveInv ==
  ASSUME SkillsInv, NEW p \in Procs, Remove(p) PROVE MemoryInv'
<1> DEFINE e == run[p].seen.entry
           removed == KindOf(e) \in Removes(run[p].seen.kind)
           next == [run[p] EXCEPT !.pc = "clean", !.seen = Unseen,
                      !.report.removed = IF removed THEN @ \cup {e} ELSE @]
<1>1. /\ extras' = [x \in Extras |-> IF removed /\ x = e THEN "gone" ELSE extras[x]]
      /\ temp' = [q \in Procs |-> [f \in Files |->
                    IF removed /\ e = [proc |-> q, file |-> f] THEN None ELSE temp[q][f]]]
      /\ Become(p, next) /\ UNCHANGED <<target, ancestor, installed, budget>>
  BY DEF Remove
<1>2. /\ run[p] \in Run /\ Truthful(run[p].report, run[p].wrote)
      /\ run[p].mode = "clean" /\ e \in Extras \cup TempName
  <2>1. RunInv(run[p], installed) /\ run[p].pc = "remove"
    BY DEF SkillsInv, MemoryInv, Remove, At
  <2>2. run[p].seen # Unseen
    BY <2>1 DEF RunInv, Unseen
  <2>. QED BY <2>1, <2>2 DEF RunInv, Run
<1> HIDE DEF removed, e
<1>3. RunInv(next, installed)
  <2>1. next \in Run
    BY <1>2 DEF Run, Report
  <2>2. next.report.outcome = run[p].report.outcome /\ next.wrote = run[p].wrote
        /\ next.pc = "clean" /\ next.mode = "clean"
    BY <1>2 DEF Run, Report
  <2>. QED BY <1>2, <2>1, <2>2 DEF RunInv, Truthful, Installing
<1> HIDE DEF next
<1>4. temp' \in [Procs -> [Files -> TempState]] /\ extras' \in [Extras -> Kinds]
  BY <1>1 DEF SkillsInv, MemoryInv, TypeOK, TempState, Kinds
<1>5. run' \in [Procs -> Run] /\ \A q \in Procs : RunInv(run'[q], installed)
  BY <1>1, <1>3 DEF SkillsInv, MemoryInv, TypeOK, Become, RunInv
<1>6. TypeOK'
  BY <1>1, <1>4, <1>5 DEF SkillsInv, MemoryInv, TypeOK
<1>7. NeverTorn' /\ AncestorWasInstalled' /\ \A q \in Procs : RunInv(run[q], installed)'
  BY <1>1, <1>5 DEF SkillsInv, MemoryInv, NeverTorn, AncestorWasInstalled
<1>. QED BY <1>6, <1>7 DEF MemoryInv

LEMMA CleanEndInv ==
  ASSUME SkillsInv, NEW p \in Procs, CleanEnd(p) PROVE MemoryInv'
<1>1. RunInv([run[p] EXCEPT !.pc = "done"], installed)
  BY DEF SkillsInv, MemoryInv, RunInv, Run, Installing
<1>. QED BY <1>1, MemoryStep DEF CleanEnd, disk, SkillsInv, MemoryInv, TypeOK

LEMMA FaultInv ==
  ASSUME SkillsInv, NEW p \in Procs, Fault(p) PROVE MemoryInv'
<1> DEFINE r == run[p]
<1>1. /\ r \in Run /\ r.file \in Files /\ r.report \in Report /\ r.wrote \in SUBSET Files
      /\ Truthful(r.report, r.wrote)
  BY DEF SkillsInv, MemoryInv, TypeOK, RunInv, Run
<1>2. budget' \in [runs : Nat, edits : Nat, crashes : Nat, faults : Nat]
  BY DEF Fault, SkillsInv, MemoryInv, TypeOK
<1>3. temp' \in [Procs -> [Files -> TempState]]
  <2>1. temp' = temp \/ temp' = [temp EXCEPT ![p][r.file] = None]
    BY DEF Fault
  <2>2. None \in TempState
    BY DEF TempState
  <2>3. [temp EXCEPT ![p][r.file] = None] \in [Procs -> [Files -> TempState]]
    BY <1>1, <2>2, TempTypes DEF SkillsInv, MemoryInv
  <2>. QED BY <2>1, <2>3 DEF SkillsInv, MemoryInv, TypeOK
<1>4. RunInv(Abort(r), installed)
  BY <1>1, AbortFacts
<1>5. r.pc = "ancestor" => RunInv(Installed(r), installed)
  BY InstalledFacts DEF At
<1>6. RunInv([r EXCEPT !.pc = "done", !.report = PushError(r.report, ScanError)], installed)
  <2>1. /\ PushError(r.report, ScanError) \in Report
        /\ Truthful(PushError(r.report, ScanError), r.wrote)
    BY <1>1, FailFacts
  <2>. QED BY <1>1, <2>1 DEF RunInv, Run, Installing
<1>7. ASSUME NEW e \in r.scanned
      PROVE  r.pc = "clean" => RunInv([r EXCEPT !.scanned = @ \ {e}], installed)
  <2>1. r.pc = "clean" => r.mode = "clean"
    BY DEF SkillsInv, MemoryInv, RunInv
  <2>. QED BY <1>1, <2>1 DEF RunInv, Run, Installing
<1>8. r.pc = "remove" => RunInv([r EXCEPT !.pc = "clean", !.seen = Unseen], installed)
  <2>1. r.pc = "remove" => r.mode = "clean"
    BY DEF SkillsInv, MemoryInv, RunInv
  <2>. QED BY <1>1, <2>1 DEF RunInv, Run, Installing
<1>. QED BY <1>2, <1>3, <1>4, <1>5, <1>6, <1>7, <1>8, MemoryStep DEF Fault

LEMMA CrashInv ==
  ASSUME SkillsInv, NEW p \in Procs, Crash(p) PROVE MemoryInv'
<1>1. RunInv(IdleRun, installed)
  BY IdleFacts DEF SkillsInv, MemoryInv, TypeOK
<1>2. budget' \in [runs : Nat, edits : Nat, crashes : Nat, faults : Nat]
  BY DEF Crash, SkillsInv, MemoryInv, TypeOK
<1>. QED BY <1>1, <1>2, MemoryStep DEF Crash, disk, SkillsInv, MemoryInv, TypeOK

LEMMA EditInv ==
  ASSUME SkillsInv, Edit PROVE MemoryInv'
<1>1. budget' \in [runs : Nat, edits : Nat, crashes : Nat, faults : Nat]
  BY DEF Edit, SkillsInv, MemoryInv, TypeOK
<1>2. target' \in [Files -> TargetState] /\ NeverTorn'
  <2>0. CASE EditExtra
    BY <2>0 DEF EditExtra, SkillsInv, MemoryInv, TypeOK, NeverTorn
  <2> SUFFICES ASSUME EditFile PROVE target' \in [Files -> TargetState] /\ NeverTorn'
    BY <2>0 DEF Edit
  <2>1. PICK f \in Files :
          \/ target' = [target EXCEPT ![f] = Missing]
          \/ target' = [target EXCEPT ![f] = Directory]
          \/ /\ target[f].kind = "regular"
             /\ \E l \in Lines : target' = [target EXCEPT ![f].bytes[l] = UserToken]
    BY DEF EditFile
  <2>2. CASE target' = [target EXCEPT ![f] = Missing] \/ target' = [target EXCEPT ![f] = Directory]
    <3>1. {Missing, Directory} \subseteq TargetState \ {TornFile}
      BY DEF TargetState, Missing, Directory, TornFile
    <3>. QED BY <2>2, <3>1 DEF SkillsInv, MemoryInv, TypeOK, NeverTorn
  <2>3. ASSUME target[f].kind = "regular",
               NEW l \in Lines, target' = [target EXCEPT ![f].bytes[l] = UserToken]
        PROVE  target' \in [Files -> TargetState] /\ NeverTorn'
    <3>1. target[f] \in TargetState
      BY DEF SkillsInv, MemoryInv, TypeOK
    <3>2. PICK c \in Content : target[f] = Regular(c)
      BY <2>3, <3>1 DEF TargetState, Missing, Directory, NonRegular, TornFile
    <3>3. [c EXCEPT ![l] = UserToken] \in Content
      BY <2>3, AgentSkillsAssumption DEF Content
    <3>4. target' = [target EXCEPT ![f] = Regular([c EXCEPT ![l] = UserToken])]
      <4>1. Regular(c).bytes = c
        BY DEF Regular
      <4>2. [Regular(c) EXCEPT !.bytes[l] = UserToken] = Regular([c EXCEPT ![l] = UserToken])
        BY <4>1 DEF Regular
      <4>3. target' = [target EXCEPT ![f] = [target[f] EXCEPT !.bytes[l] = UserToken]]
        BY <2>3 DEF SkillsInv, MemoryInv, TypeOK
      <4>. QED BY <3>2, <4>2, <4>3
    <3>5. Regular([c EXCEPT ![l] = UserToken]) \in TargetState \ {TornFile}
      BY <3>3 DEF TargetState, Regular, TornFile
    <3>. QED BY <3>4, <3>5 DEF SkillsInv, MemoryInv, TypeOK, NeverTorn
  <2>. QED BY <2>1, <2>2, <2>3
<1>4. extras' \in [Extras -> Kinds]
  BY DEF Edit, EditFile, EditExtra, SkillsInv, MemoryInv, TypeOK
<1>3. TypeOK'
  BY <1>1, <1>2, <1>4 DEF Edit, SkillsInv, MemoryInv, TypeOK
<1>. QED BY <1>2, <1>3 DEF SkillsInv, MemoryInv, Edit, AncestorWasInstalled

(* How a run goes on from a file: not to a rename.                         *)
LEMMA NotRenaming ==
  ASSUME NEW r \in Run
  PROVE  /\ \A report : AfterFile(r, report).pc # "rename" /\ AfterDiffering(r, report).pc # "rename"
         /\ \A c, o : Install(r, c, o).pc # "rename"
         /\ \A c : TryMerge(r, c).pc # "rename"
         /\ Abort(r).pc # "rename" /\ Installed(r).pc # "rename"
<1>1. ASSUME NEW report PROVE AfterFile(r, report).pc # "rename" /\ AfterDiffering(r, report).pc # "rename"
  BY ForgetFacts DEF AfterFile, AfterDiffering, Run
<1>2. \A c, o : Install(r, c, o).pc # "rename"
  BY DEF Install, Run
<1>3. \A c : TryMerge(r, c).pc # "rename"
  BY <1>1, <1>2 DEF TryMerge
<1>4. Abort(r).pc # "rename"
  BY ForgetFacts DEF Abort, Run
<1>. QED BY <1>1, <1>2, <1>3, <1>4 DEF Installed

(* Only the step that closes its temporary file takes a run to the rename. *)
LEMMA ClosedFirst ==
  ASSUME SkillsInv, NEW p \in Procs, Step(p) \/ Start(p) \/ Fault(p) \/ Crash(p), run'[p].pc = "rename"
  PROVE  Close(p)
<1> DEFINE r == run[p]
<1>1. r \in Run
  BY DEF SkillsInv, MemoryInv, TypeOK
<1>2. \A next : Become(p, next) => next.pc = "rename"
  BY DEF SkillsInv, MemoryInv, TypeOK, Become
<1>3. ~ReadTarget(p)
  <2> DEFINE differs == [r EXCEPT !.pc = "differs", !.existing = Stored(target[r.file].bytes)]
  <2>1. differs.pc # "rename"
    BY <1>1 DEF Run
  <2>2. ReadTarget(p) => \/ \E report : Become(p, AfterFile(r, report))
                         \/ \E c, o : Become(p, Install(r, c, o))
                         \/ Become(p, differs)
    BY DEF ReadTarget
  <2> HIDE DEF differs
  <2>. QED BY <1>1, <1>2, <2>1, <2>2, NotRenaming
<1>4. ~HandleDiffering(p)
  <2> DEFINE read == [r EXCEPT !.base = ancestor[r.file]]
             prompt == [read EXCEPT !.pc = "prompt"]
  <2>1. ancestor[r.file] \in AncestorState
    BY <1>1 DEF SkillsInv, MemoryInv, TypeOK, Run
  <2>2. read \in Run /\ prompt.pc # "rename"
    BY <1>1, <2>1 DEF Run
  <2>3. HandleDiffering(p) => \/ \E report : Become(p, AfterDiffering(r, report))
                              \/ \E c, o : Become(p, Install(r, c, o))
                              \/ \E c : Become(p, TryMerge(read, c))
                              \/ Become(p, prompt)
    BY DEF HandleDiffering
  <2> HIDE DEF read, prompt
  <2>. QED BY <1>1, <1>2, <2>2, <2>3, NotRenaming
<1>5. ~Answer(p)
  <2>1. Answer(p) =>
          \E choice \in {"merge", "replace", "skip", "quit"} :
            LET r1 == [r EXCEPT !.answer = choice]
            IN \/ \E report : Become(p, AfterDiffering(r1, report))
               \/ \E c, o : Become(p, Install(r1, c, o))
               \/ \E c : Become(p, TryMerge(r1, c))
    BY DEF Answer
  <2>2. ASSUME NEW choice \in {"merge", "replace", "skip", "quit"}
        PROVE  [r EXCEPT !.answer = choice] \in Run
    BY <1>1 DEF Run
  <2>. QED BY <1>2, <2>1, <2>2, NotRenaming
<1>6. ~Write(p)
  BY <1>1, <1>2 DEF Write, Run
<1>7. ~Rename(p)
  <2>1. [r EXCEPT !.pc = "ancestor", !.wrote = @ \cup {r.file}].pc # "rename"
    BY <1>1 DEF Run
  <2>. QED BY <1>1, <1>2, <2>1, NotRenaming DEF Rename
<1>8. ~WriteAncestor(p)
  BY <1>1, <1>2, NotRenaming DEF WriteAncestor
<1>9. ~Scan(p) /\ ~CleanEnd(p)
  <2>1. /\ [r EXCEPT !.pc = "clean", !.scanned = Present].pc # "rename"
        /\ [r EXCEPT !.pc = "done"].pc # "rename"
    BY <1>1 DEF Run
  <2>. QED BY <1>2, <2>1 DEF Scan, CleanEnd
<1>10. ~Look(p)
  <2>1. \A e : /\ At(p, "clean") => [r EXCEPT !.scanned = @ \ {e}].pc # "rename"
                /\ [r EXCEPT !.pc = "remove", !.scanned = @ \ {e}, !.seen = Seen(e, KindOf(e))].pc # "rename"
    BY <1>1 DEF Run, At
  <2>. QED BY <1>2, <2>1 DEF Look
<1>11. ~Remove(p)
  <2>1. \A removed : [r EXCEPT !.pc = "clean", !.seen = Unseen, !.report.removed = removed].pc # "rename"
    BY <1>1 DEF Run
  <2>2. Remove(p) => \E removed :
          Become(p, [r EXCEPT !.pc = "clean", !.seen = Unseen, !.report.removed = removed])
    BY DEF Remove
  <2>. QED BY <1>2, <2>1, <2>2
<1>12. ~Start(p)
  <2>1. \A m, v, tty :
          [IdleRun EXCEPT !.pc = "file", !.mode = m, !.version = v, !.tty = tty].pc # "rename"
    BY DEF IdleRun
  <2>2. Start(p) => \E m, v, tty :
          Become(p, [IdleRun EXCEPT !.pc = "file", !.mode = m, !.version = v, !.tty = tty])
    BY DEF Start
  <2>. QED BY <1>2, <2>1, <2>2
<1>13. ~Crash(p)
  BY <1>2 DEF Crash, IdleRun
<1>14. ~Fault(p)
  <2>1. /\ \A e : r.pc = "clean" => [r EXCEPT !.scanned = @ \ {e}].pc # "rename"
        /\ [r EXCEPT !.pc = "clean", !.seen = Unseen].pc # "rename"
        /\ [r EXCEPT !.pc = "done", !.report = PushError(r.report, ScanError)].pc # "rename"
    BY <1>1 DEF Run
  <2>. QED BY <1>1, <1>2, <2>1, NotRenaming DEF Fault
<1>. QED BY <1>3, <1>4, <1>5, <1>6, <1>7, <1>8, <1>9, <1>10, <1>11, <1>12, <1>13, <1>14 DEF Step

(* A step of p leaves the memory of another run alone, and of its          *)
(* temporary files may remove one.                                         *)
LEMMA OthersTemps ==
  ASSUME SkillsInv, NEW p \in Procs, Step(p) \/ Start(p) \/ Fault(p) \/ Crash(p),
         NEW q \in Procs, q # p, NEW f \in Files
  PROVE  run'[q] = run[q] /\ temp'[q][f] \in {None, temp[q][f]}
<1>1. run'[q] = run[q]
  <2>1. \E next : Become(p, next)
    BY DEF Step, Start, Fault, Crash, ReadTarget, HandleDiffering, Answer, Write, Close,
         Rename, WriteAncestor, Scan, Look, Remove, CleanEnd
  <2>. QED BY <2>1 DEF Become, SkillsInv, MemoryInv, TypeOK
<1>2. CASE Write(p) \/ Close(p) \/ Rename(p) \/ Fault(p)
  <2>1. temp' = temp \/ \E t : temp' = [temp EXCEPT ![p][run[p].file] = t]
    BY <1>2 DEF Write, Close, Rename, Fault
  <2>. QED BY <1>1, <2>1 DEF SkillsInv, MemoryInv, TypeOK
<1>3. CASE Remove(p)
  <2> DEFINE removed(e) == KindOf(e) \in Removes(run[p].seen.kind) /\ run[p].seen.entry = e
  <2>1. temp'[q][f] = IF removed([proc |-> q, file |-> f]) THEN None ELSE temp[q][f]
    BY <1>3 DEF Remove
  <2> HIDE DEF removed
  <2>. QED BY <1>1, <2>1
<1>4. CASE ReadTarget(p) \/ HandleDiffering(p) \/ Answer(p) \/ WriteAncestor(p) \/ Scan(p)
           \/ Look(p) \/ CleanEnd(p) \/ Start(p) \/ Crash(p)
  <2>1. UNCHANGED temp
    BY <1>4 DEF ReadTarget, HandleDiffering, Answer, WriteAncestor, Scan, Look, CleanEnd, Start,
       Crash, disk
  <2>. QED BY <1>1, <2>1
<1>. QED BY <1>1, <1>2, <1>3, <1>4 DEF Step

LEMMA WholeTempsKept == SkillsInv /\ [Next]_vars => WholeTemps'
<1> SUFFICES ASSUME SkillsInv, [Next]_vars, NEW q \in Procs, run'[q].pc = "rename"
             PROVE  temp'[q][run'[q].file] \in {None, run'[q].bytes}
  BY DEF WholeTemps, At
<1>1. CASE UNCHANGED vars \/ Edit
  BY <1>1 DEF vars, Edit, SkillsInv, WholeTemps, At
<1>2. ASSUME NEW p \in Procs, Step(p) \/ Start(p) \/ Fault(p) \/ Crash(p)
      PROVE  temp'[q][run'[q].file] \in {None, run'[q].bytes}
  <2>1. CASE q = p
    <3>1. Close(p)
      BY <1>2, <2>1, ClosedFirst
    <3>2. run[p] \in Run /\ run[p].file \in Files
      BY DEF SkillsInv, MemoryInv, TypeOK, Run
    <3>3. run'[p].file = run[p].file /\ run'[p].bytes = run[p].bytes
      BY <3>1, <3>2 DEF Close, Become, SkillsInv, MemoryInv, TypeOK, Run
    <3>4. temp'[p][run[p].file] \in {None, run[p].bytes}
      BY <3>1, <3>2 DEF Close, SkillsInv, MemoryInv, TypeOK
    <3>. QED BY <2>1, <3>3, <3>4
  <2>2. CASE q # p
    <3>1. run[q].file \in Files
      BY DEF SkillsInv, MemoryInv, TypeOK, Run
    <3>2. run'[q] = run[q] /\ temp'[q][run[q].file] \in {None, temp[q][run[q].file]}
      BY <1>2, <2>2, <3>1, OthersTemps
    <3>. QED BY <3>2 DEF SkillsInv, WholeTemps, At
  <2>. QED BY <2>1, <2>2
<1>. QED BY <1>1, <1>2 DEF Next

LEMMA NextInv == SkillsInv /\ [Next]_vars => SkillsInv'
<1> SUFFICES ASSUME SkillsInv, [Next]_vars PROVE MemoryInv'
  BY WholeTempsKept DEF SkillsInv
<1>1. CASE UNCHANGED vars
  BY <1>1 DEF vars, SkillsInv, MemoryInv, TypeOK, NeverTorn, AncestorWasInstalled
<1>2. CASE Edit
  BY <1>2, EditInv
<1>3. ASSUME NEW p \in Procs, Step(p) \/ Start(p) \/ Fault(p) \/ Crash(p)
      PROVE  MemoryInv'
  <2>1. CASE ReadTarget(p)
    BY <2>1, ReadTargetInv
  <2>2. CASE HandleDiffering(p)
    BY <2>2, HandleDifferingInv
  <2>3. CASE Answer(p)
    BY <2>3, AnswerInv
  <2>4. CASE Write(p)
    BY <2>4, WriteInv
  <2>5. CASE Close(p)
    BY <2>5, CloseInv
  <2>6. CASE Rename(p)
    BY <2>6, RenameInv
  <2>7. CASE WriteAncestor(p)
    BY <2>7, WriteAncestorInv
  <2>8. CASE Scan(p)
    BY <2>8, ScanInv
  <2>9. CASE Look(p) \/ Remove(p)
    BY <2>9, LookInv, RemoveInv
  <2>10. CASE CleanEnd(p)
    BY <2>10, CleanEndInv
  <2>11. CASE Start(p)
    BY <2>11, StartInv
  <2>12. CASE Fault(p)
    BY <2>12, FaultInv
  <2>13. CASE Crash(p)
    BY <2>13, CrashInv
  <2>. QED BY <1>3, <2>1, <2>2, <2>3, <2>4, <2>5, <2>6, <2>7, <2>8, <2>9, <2>10,
              <2>11, <2>12, <2>13 DEF Step
<1>. QED BY <1>1, <1>2, <1>3 DEF Next

LEMMA Invariance == Spec => []SkillsInv
BY InitInv, NextInv, PTL DEF Spec

(* The state of the disk and of every run has its type.                    *)
THEOREM TypeCorrect == Spec => []TypeOK
<1>1. SkillsInv => TypeOK
  BY DEF SkillsInv, MemoryInv
<1>. QED BY <1>1, Invariance, PTL

(* No history of any number of runs, faults and crashes leaves a managed   *)
(* path with a file that was cut short.                                    *)
THEOREM PathsAreWhole == Spec => []NeverTorn
<1>1. SkillsInv => NeverTorn
  BY DEF SkillsInv, MemoryInv
<1>. QED BY <1>1, Invariance, PTL

(* An ancestor is never ahead of what runs have installed at its path.     *)
THEOREM AncestorsWereInstalled == Spec => []AncestorWasInstalled
<1>1. SkillsInv => AncestorWasInstalled
  BY DEF SkillsInv, MemoryInv
<1>. QED BY <1>1, Invariance, PTL

(* A report lists no file that its run did not put in place, whatever the  *)
(* --clean of another run removes.                                         *)
THEOREM ReportsAreTrue == Spec => []ReportIsTrue
<1>1. SkillsInv => ReportIsTrue
  BY DEF SkillsInv, MemoryInv, RunInv, Truthful, ReportIsTrue, Outcome
<1>. QED BY <1>1, Invariance, PTL
--------------------------------------------------------------------------------
(* The refinement: a rename is a Put, the write of the state file is a     *)
(* Remember, an edit is a Change, and every other step a stutter.          *)
LEMMA InitRefines == Init => Store!Init
BY DEF Init, Store!Init

LEMMA RenameRefines ==
  ASSUME SkillsInv, NEW p \in Procs, Rename(p) PROVE [Store!Next]_(Store!store)
<1> DEFINE r == run[p]
<1> DEFINE f == r.file
<1>1. f \in Files /\ r.bytes \in Bytes
  BY DEF SkillsInv, MemoryInv, TypeOK, Run, RunInv, Rename, At, Installing
<1>2. CASE ~Renamable(p)
  BY <1>2 DEF Rename, Store!store
<1>3. CASE Renamable(p)
  <2>1. /\ target' = [target EXCEPT ![f] = Regular(r.bytes.bytes)]
        /\ installed' = [installed EXCEPT ![f] = @ \cup {r.bytes.bytes}]
        /\ UNCHANGED ancestor /\ target[f] # Directory
    BY <1>3, RenamesWhole DEF Rename, Renamable
  <2>2. Store!Put(f, r.bytes.bytes)
    BY <2>1 DEF Store!Put
  <2>3. r.bytes.bytes \in Content
    BY <1>1, BytesFacts
  <2>. QED BY <1>1, <2>2, <2>3 DEF Store!Next
<1>. QED BY <1>2, <1>3

LEMMA WriteAncestorRefines ==
  ASSUME SkillsInv, NEW p \in Procs, WriteAncestor(p) PROVE [Store!Next]_(Store!store)
<1> DEFINE r == run[p]
<1> DEFINE f == r.file
<1> DEFINE c == r.bytes.bytes
<1>1. f \in Files /\ r.bytes \in Bytes /\ c \in installed[f]
  BY DEF SkillsInv, MemoryInv, TypeOK, RunInv, Run, WriteAncestor, At, Installing
<1>2. c \in Content /\ r.bytes = Stored(c)
  BY <1>1, BytesFacts
<1>3. Store!Remember(f, c)
  BY <1>1, <1>2 DEF Store!Remember, WriteAncestor
<1>. QED BY <1>1, <1>2, <1>3 DEF Store!Next

LEMMA EditRefines ==
  ASSUME SkillsInv, Edit PROVE [Store!Next]_(Store!store)
<1>0. CASE EditExtra
  BY <1>0 DEF Edit, EditExtra, Store!store
<1> SUFFICES ASSUME EditFile PROVE [Store!Next]_(Store!store)
  BY <1>0 DEF Edit
<1>1. PICK f \in Files :
        \/ target' = [target EXCEPT ![f] = Missing]
        \/ target' = [target EXCEPT ![f] = Directory]
        \/ /\ target[f].kind = "regular"
           /\ \E l \in Lines : target' = [target EXCEPT ![f].bytes[l] = UserToken]
  BY DEF EditFile
<1>2. UNCHANGED <<ancestor, installed>>
  BY DEF Edit
<1>3. CASE target' = [target EXCEPT ![f] = Missing] \/ target' = [target EXCEPT ![f] = Directory]
  BY <1>2, <1>3 DEF Store!Next, Store!Change
<1>4. ASSUME target[f].kind = "regular",
             NEW l \in Lines, target' = [target EXCEPT ![f].bytes[l] = UserToken]
      PROVE  Store!Change(f)
  <2>1. target[f] \in TargetState
    BY DEF SkillsInv, MemoryInv, TypeOK
  <2>2. PICK c \in Content : target[f] = Regular(c)
    BY <1>4, <2>1 DEF TargetState, Missing, Directory, NonRegular, TornFile
  <2>3. [c EXCEPT ![l] = UserToken] \in Content
    BY <1>4, AgentSkillsAssumption DEF Content
  <2>4. target' = [target EXCEPT ![f] = [target[f] EXCEPT !.bytes[l] = UserToken]]
    BY <1>4 DEF SkillsInv, MemoryInv, TypeOK
  <2>5. [Regular(c) EXCEPT !.bytes[l] = UserToken] = Regular([c EXCEPT ![l] = UserToken])
    BY DEF Regular
  <2>6. target' = [target EXCEPT ![f] = Regular([c EXCEPT ![l] = UserToken])]
    BY <2>2, <2>4, <2>5
  <2>. QED BY <1>2, <2>3, <2>6 DEF Store!Change
<1>. QED BY <1>1, <1>3, <1>4 DEF Store!Next

LEMMA NextRefines == SkillsInv /\ [Next]_vars => [Store!Next]_(Store!store)
<1> SUFFICES ASSUME SkillsInv, [Next]_vars PROVE [Store!Next]_(Store!store)
  OBVIOUS
<1>1. CASE UNCHANGED vars
  BY <1>1 DEF vars, Store!store
<1>2. CASE Edit
  BY <1>2, EditRefines
<1>3. ASSUME NEW p \in Procs, Step(p) \/ Start(p) \/ Fault(p) \/ Crash(p)
      PROVE  [Store!Next]_(Store!store)
  <2>1. CASE Rename(p)
    BY <2>1, RenameRefines
  <2>2. CASE WriteAncestor(p)
    BY <2>2, WriteAncestorRefines
  <2>3. CASE ReadTarget(p) \/ HandleDiffering(p) \/ Answer(p)
    BY <2>3 DEF ReadTarget, HandleDiffering, Answer, disk, Store!store
  <2>4. CASE Write(p) \/ Close(p)
    BY <2>4 DEF Write, Close, Store!store
  <2>5. CASE Scan(p) \/ Look(p) \/ Remove(p) \/ CleanEnd(p)
    BY <2>5 DEF Scan, Look, Remove, CleanEnd, disk, Store!store
  <2>6. CASE Start(p) \/ Fault(p) \/ Crash(p)
    BY <2>6 DEF Start, Fault, Crash, disk, Store!store
  <2>. QED BY <1>3, <2>1, <2>2, <2>3, <2>4, <2>5, <2>6 DEF Step
<1>. QED BY <1>1, <1>2, <1>3 DEF Next

(* Any number of runs of any versions, with faults and crashes between any *)
(* two system calls, behave towards the directory like a store of whole    *)
(* files.                                                                  *)
THEOREM RunsImplementStore == Spec => ImplementsStore
BY InitRefines, NextRefines, Invariance, PTL DEF Spec, ImplementsStore, Store!Spec

(* Only a removal adds to what a run reports as removed.                   *)
LEMMA SameRemoved ==
  ASSUME NEW r \in Run
  PROVE  /\ \A report : report.removed = r.report.removed =>
              /\ AfterFile(r, report).report.removed = r.report.removed
              /\ AfterDiffering(r, report).report.removed = r.report.removed
         /\ \A c, o : Install(r, c, o).report.removed = r.report.removed
         /\ \A c : TryMerge(r, c).report.removed = r.report.removed
         /\ Abort(r).report.removed = {}
         /\ r.outcome \in Outcomes => Installed(r).report.removed = r.report.removed
<1>1. ASSUME NEW report, report.removed = r.report.removed
      PROVE  /\ AfterFile(r, report).report.removed = r.report.removed
             /\ AfterDiffering(r, report).report.removed = r.report.removed
  BY <1>1, ForgetFacts DEF AfterFile, AfterDiffering, Run
<1>2. \A c, o : Install(r, c, o).report.removed = r.report.removed
  BY DEF Install, Run
<1>3. r.report \in Report /\ r.file \in Files
  BY DEF Run
<1>4. \A o \in Outcomes : Push(r.report, o, r.file).removed = r.report.removed
  BY <1>3 DEF Push, Report
<1>5. Conflicting(r.report, r.file).removed = r.report.removed
  BY <1>3 DEF Conflicting, Push, PushError, Fail, Report
<1>6. \A c : TryMerge(r, c).report.removed = r.report.removed
  BY <1>1, <1>2, <1>4, <1>5 DEF TryMerge, Outcomes
<1>7. Abort(r).report.removed = {}
  BY ForgetFacts DEF Abort, Run, FailedReport, EmptyReport
<1>. QED BY <1>1, <1>2, <1>4, <1>6, <1>7 DEF Installed

LEMMA OnlyRemoveReports ==
  ASSUME SkillsInv, NEW p \in Procs, Step(p) \/ Start(p) \/ Fault(p) \/ Crash(p), ~Remove(p)
  PROVE  /\ extras' = extras
         /\ run'[p].report.removed \subseteq run[p].report.removed
<1> DEFINE r == run[p]
<1>1. r \in Run /\ r.report \in Report /\ r.file \in Files
  BY DEF SkillsInv, MemoryInv, TypeOK, Run
<1>2. \A next : Become(p, next) => run'[p] = next
  BY DEF SkillsInv, MemoryInv, TypeOK, Become
<1>3. /\ \A o \in Outcomes : /\ Push(r.report, o, r.file).removed = r.report.removed
                             /\ Fail(Push(r.report, o, r.file)).removed = r.report.removed
      /\ \A f : PushError(r.report, f).removed = r.report.removed
  BY <1>1 DEF Push, Fail, PushError, Report
<1>4. CASE ReadTarget(p)
  <2> DEFINE differs == [r EXCEPT !.pc = "differs", !.existing = Stored(target[r.file].bytes)]
  <2>1. differs.report = r.report
    BY <1>1 DEF Run
  <2>2. \/ \E report : report.removed = r.report.removed /\ Become(p, AfterFile(r, report))
        \/ \E c, o : Become(p, Install(r, c, o))
        \/ Become(p, differs)
    BY <1>3, <1>4 DEF ReadTarget, Outcomes
  <2> HIDE DEF differs
  <2>3. run'[p].report.removed = r.report.removed
    BY <1>1, <1>2, <2>1, <2>2, SameRemoved
  <2>. QED BY <1>4, <2>3 DEF ReadTarget, disk
<1>5. CASE HandleDiffering(p)
  <2> DEFINE read == [r EXCEPT !.base = ancestor[r.file]]
             prompt == [read EXCEPT !.pc = "prompt"]
  <2>1. ancestor[r.file] \in AncestorState
    BY <1>1 DEF SkillsInv, MemoryInv, TypeOK
  <2>2. read \in Run /\ read.report = r.report /\ prompt.report = r.report
    BY <1>1, <2>1 DEF Run
  <2>3. \/ \E report : report.removed = r.report.removed /\ Become(p, AfterDiffering(r, report))
        \/ \E c, o : Become(p, Install(r, c, o))
        \/ \E c : Become(p, TryMerge(read, c))
        \/ Become(p, prompt)
    BY <1>3, <1>5 DEF HandleDiffering, Outcomes
  <2> HIDE DEF read, prompt
  <2>4. run'[p].report.removed = r.report.removed
    BY <1>1, <1>2, <2>2, <2>3, SameRemoved
  <2>. QED BY <1>5, <2>4 DEF HandleDiffering, disk
<1>6. CASE Answer(p)
  <2>1. PICK choice \in {"merge", "replace", "skip", "quit"} :
          LET r1 == [r EXCEPT !.answer = choice]
          IN \/ \E report : /\ report \in {Push(r1.report, "skipped", r1.file),
                                           Fail(Push(r1.report, "skipped", r1.file))}
                            /\ Become(p, AfterDiffering(r1, report))
             \/ \E c, o : Become(p, Install(r1, c, o))
             \/ \E c : Become(p, TryMerge(r1, c))
    BY <1>6 DEF Answer
  <2> DEFINE r1 == [r EXCEPT !.answer = choice]
  <2>2. r1 \in Run /\ r1.report = r.report /\ r1.file = r.file
    BY <1>1 DEF Run
  <2>3. \A report \in {Push(r1.report, "skipped", r1.file), Fail(Push(r1.report, "skipped", r1.file))} :
          report.removed = r1.report.removed
    BY <1>3, <2>2 DEF Outcomes
  <2>5. \/ \E report : report.removed = r1.report.removed /\ Become(p, AfterDiffering(r1, report))
        \/ \E c, o : Become(p, Install(r1, c, o))
        \/ \E c : Become(p, TryMerge(r1, c))
    BY <2>1, <2>3
  <2> HIDE DEF r1
  <2>4. run'[p].report.removed = r.report.removed
    BY <1>2, <2>2, <2>5, SameRemoved
  <2>. QED BY <1>6, <2>4 DEF Answer, disk
<1>7. CASE Write(p) \/ Close(p) \/ CleanEnd(p)
  <2>1. \A pc : [r EXCEPT !.pc = pc].report = r.report
    BY <1>1 DEF Run
  <2>. QED BY <1>2, <1>7, <2>1 DEF Write, Close, CleanEnd, disk
<1>8. CASE Rename(p)
  <2>1. [r EXCEPT !.pc = "ancestor", !.wrote = @ \cup {r.file}].report = r.report
    BY <1>1 DEF Run
  <2>2. run'[p].report.removed \subseteq r.report.removed
    BY <1>1, <1>2, <1>8, <2>1, SameRemoved DEF Rename
  <2>. QED BY <1>8, <2>2 DEF Rename
<1>9. CASE WriteAncestor(p)
  <2>1. r.outcome \in Outcomes
    BY <1>1 DEF Run
  <2>. QED BY <1>1, <1>2, <1>9, <2>1, SameRemoved DEF WriteAncestor
<1>10. CASE Scan(p)
  <2>1. /\ [r EXCEPT !.pc = "done"].report = r.report
        /\ [r EXCEPT !.pc = "clean", !.scanned = Present].report = r.report
    BY <1>1 DEF Run
  <2>. QED BY <1>2, <1>10, <2>1 DEF Scan, disk
<1>11. CASE Look(p)
  <2>1. \A e : /\ [r EXCEPT !.scanned = @ \ {e}].report = r.report
                /\ [r EXCEPT !.pc = "remove", !.scanned = @ \ {e}, !.seen = Seen(e, KindOf(e))].report
                     = r.report
    BY <1>1 DEF Run
  <2>. QED BY <1>2, <1>11, <2>1 DEF Look, disk
<1>12. CASE Start(p)
  <2>1. PICK m, v, tty :
          Become(p, [IdleRun EXCEPT !.pc = "file", !.mode = m, !.version = v, !.tty = tty])
    BY <1>12 DEF Start
  <2>2. run'[p] = [IdleRun EXCEPT !.pc = "file", !.mode = m, !.version = v, !.tty = tty]
    BY <1>2, <2>1
  <2>3. run'[p].report.removed = {}
    BY <2>2 DEF IdleRun, EmptyReport
  <2>. QED BY <1>12, <2>3 DEF Start, disk
<1>13. CASE Crash(p)
  BY <1>2, <1>13 DEF Crash, IdleRun, EmptyReport, disk
<1>14. CASE Fault(p)
  <2>1. r.outcome \in Outcomes
    BY <1>1 DEF Run
  <2>3. ASSUME Become(p, Abort(r)) \/ Become(p, Installed(r))
        PROVE  run'[p].report.removed \subseteq r.report.removed
    BY <1>1, <1>2, <2>1, <2>3, SameRemoved
  <2>4. ASSUME Become(p, [r EXCEPT !.pc = "done", !.report = PushError(r.report, ScanError)])
        PROVE  run'[p].report.removed \subseteq r.report.removed
    <3>1. [r EXCEPT !.pc = "done", !.report = PushError(r.report, ScanError)].report
            = PushError(r.report, ScanError)
      BY <1>1 DEF Run
    <3>. QED BY <1>2, <1>3, <2>4, <3>1
  <2>5. ASSUME Become(p, [r EXCEPT !.pc = "clean", !.seen = Unseen])
        PROVE  run'[p].report.removed \subseteq r.report.removed
    <3>1. [r EXCEPT !.pc = "clean", !.seen = Unseen].report = r.report
      BY <1>1 DEF Run
    <3>. QED BY <1>2, <2>5, <3>1
  <2>6. ASSUME NEW e, Become(p, [r EXCEPT !.scanned = @ \ {e}])
        PROVE  run'[p].report.removed \subseteq r.report.removed
    <3>1. [r EXCEPT !.scanned = @ \ {e}].report = r.report
      BY <1>1 DEF Run
    <3>. QED BY <1>2, <2>6, <3>1
  <2>2. run'[p].report.removed \subseteq r.report.removed
    BY <1>14, <2>3, <2>4, <2>5, <2>6 DEF Fault
  <2>. QED BY <1>14, <2>2 DEF Fault
<1>. QED BY <1>4, <1>5, <1>6, <1>7, <1>8, <1>9, <1>10, <1>11, <1>12, <1>13, <1>14 DEF Step

(* The step that does remove: only what the call for it can.               *)
LEMMA RemoveProtects ==
  ASSUME SkillsInv, NEW p \in Procs, Remove(p), NEW e \in Extras
  PROVE  /\ extras'[e] # extras[e] => /\ extras'[e] = "gone" /\ MayRemove(p, e)
                                      /\ e \in run'[p].report.removed
         /\ e \in RemovedNow(p) => extras'[e] = "gone" /\ extras[e] # "gone"
<1> DEFINE x == run[p].seen.entry
           removed == KindOf(x) \in Removes(run[p].seen.kind)
<1>1. run[p] \in Run /\ run[p].report \in Report /\ At(p, "remove") /\ run[p].mode = "clean"
  BY DEF Remove, SkillsInv, MemoryInv, RunInv, At, Run
<1>2. run[p].seen.kind \in {"file", "empty"}
  BY <1>1 DEF SkillsInv, MemoryInv, RunInv, At, Seen
<1>3. run'[p] = [run[p] EXCEPT !.pc = "clean", !.seen = Unseen,
                    !.report.removed = IF removed THEN @ \cup {x} ELSE @]
  BY DEF Remove, SkillsInv, MemoryInv, TypeOK, Become
<1>4. run'[p].report.removed = IF removed THEN run[p].report.removed \cup {x} ELSE run[p].report.removed
  <2> DEFINE removals == IF removed THEN run[p].report.removed \cup {x} ELSE run[p].report.removed
  <2>1. run'[p] = [run[p] EXCEPT !.pc = "clean", !.seen = Unseen, !.report.removed = removals]
    BY <1>3
  <2> HIDE DEF removals
  <2>2. run'[p].report.removed = removals
    BY <1>1, <2>1 DEF Run, Report
  <2>. QED BY <2>2 DEF removals
<1>5. extras'[e] = IF removed /\ e = x THEN "gone" ELSE extras[e]
  BY DEF Remove
<1>6. ASSUME removed, e = x
      PROVE  /\ extras[e] # "gone"
             /\ extras[e] \in {"file", "empty"} \/ (extras[e] = "symlink" /\ run[p].seen.kind = "file")
  BY <1>2, <1>6 DEF KindOf, Removes
<1>7. removed /\ e = x => e \in run'[p].report.removed
  BY <1>4
<1>8. e \in RemovedNow(p) => removed /\ e = x
  BY <1>4 DEF RemovedNow
<1>9. ASSUME removed, e = x PROVE MayRemove(p, e)
  BY <1>1, <1>6, <1>9 DEF MayRemove
<1>. QED BY <1>5, <1>6, <1>7, <1>8, <1>9

(* However runs and the user interleave between a look and the removal,    *)
(* and whatever fails or dies, a run takes away, in a --clean only, what   *)
(* it reports and nothing else, no directory that holds something, and a   *)
(* link only in place of a file it saw (`clean_extra`).                    *)
THEOREM CleaningIsBounded == Spec => ExtrasProtected
<1> DEFINE A == \A e \in Extras :
                  /\ extras'[e] # extras[e] /\ run' # run =>
                       /\ extras'[e] = "gone"
                       /\ \E p \in Procs : MayRemove(p, e) /\ e \in run'[p].report.removed
                  /\ \A p \in Procs : e \in RemovedNow(p) => extras'[e] = "gone" /\ extras[e] # "gone"
<1>1. ASSUME SkillsInv, Next PROVE A
  <2> SUFFICES ASSUME NEW e \in Extras
               PROVE  /\ extras'[e] # extras[e] /\ run' # run =>
                            /\ extras'[e] = "gone"
                            /\ \E p \in Procs : MayRemove(p, e) /\ e \in run'[p].report.removed
                      /\ \A p \in Procs : e \in RemovedNow(p) => extras'[e] = "gone" /\ extras[e] # "gone"
    OBVIOUS
  <2>1. CASE Edit
    BY <2>1 DEF Edit, RemovedNow
  <2>2. ASSUME NEW p \in Procs, Step(p) \/ Start(p) \/ Fault(p) \/ Crash(p)
        PROVE  /\ extras'[e] # extras[e] =>
                    /\ extras'[e] = "gone"
                    /\ MayRemove(p, e) /\ e \in run'[p].report.removed
               /\ \A q \in Procs : e \in RemovedNow(q) => extras'[e] = "gone" /\ extras[e] # "gone"
    <3>0. 1 \in Files
      BY AgentSkillsAssumption DEF Files
    <3>1. \A q \in Procs : q # p => RemovedNow(q) = {}
      BY <1>1, <2>2, <3>0, OthersTemps DEF RemovedNow
    <3>2. CASE Remove(p)
      BY <1>1, <3>1, <3>2, RemoveProtects
    <3>3. CASE ~Remove(p)
      BY <1>1, <2>2, <3>1, <3>3, OnlyRemoveReports DEF RemovedNow
    <3>. QED BY <3>2, <3>3
  <2>. QED BY <1>1, <2>1, <2>2 DEF Next
<1>2. SkillsInv /\ [Next]_vars => [A]_vars
  BY <1>1
<1>. QED BY <1>2, Invariance, PTL DEF Spec, ExtrasProtected
--------------------------------------------------------------------------------
(* A run that nothing disturbs: no other process, and a user who waits.    *)
Alone == QuietUser /\ \A p, q \in Procs : p = q

AccountedIn(report, f) ==
  LET listed == {o \in Outcomes : f \in report.outcome[o]}
      failed == f \in report.errors
  IN \/ \E o \in Outcomes : listed = {o} /\ (failed => o = "differ")
     \/ listed = {} /\ failed

(* The report of a run in this mode, of a version with the content `new`,  *)
(* that is through with the files 1..k: it has each of them once and none  *)
(* of the others, what it says of them is so, and `ok` is FALSE for a      *)
(* reason that it tells.                                                   *)
Book(report, mode, new, k, tgt) ==
  /\ \A f \in 1..k : AccountedIn(report, f)
  /\ \A f \in Files \ (1..k) : f \notin report.errors /\ \A o \in Outcomes : f \notin report.outcome[o]
  /\ \A f \in Files : \A o \in {"installed", "replaced", "unchanged"} :
       f \in report.outcome[o] => tgt[f] = Regular(new)
  /\ \A f \in Files : f \in report.outcome["differ"] => tgt[f] # Regular(new)
  /\ mode \in {"check", "overwrite"} => report.outcome["merged"] = {} /\ report.outcome["skipped"] = {}
  /\ report.ok => report.outcome["differ"] = {} /\ report.errors = {}
  /\ ~report.ok => \/ report.errors # {} \/ report.outcome["differ"] # {}
                   \/ report.outcome["skipped"] # {}

(* The files that the report covers.                                       *)
Covered(r) == IF r.pc \in {"scan", "clean", "remove", "done"} THEN r.file ELSE r.file - 1

AskedFor(r) == r.mode \in {"overwrite", "merge"} \/ r.answer \in {"merge", "replace"}

(* What a run that nothing disturbs knows of the disk, from step to step.  *)
Good(r, tgt) ==
  LET new == Bundled[r.version]
      here == tgt[r.file]
  IN /\ r.tty => r.mode \in {"install", "clean"}
     /\ \/ r.pc = "done" /\ BundleError \in r.report.errors /\ ~r.report.ok
        \/ Book(r.report, r.mode, new, Covered(r), tgt)
     /\ r.pc \in {"scan", "clean", "remove"} => r.file = NumFiles
     /\ r.pc = "done" /\ r.report.ok => r.file = NumFiles
     /\ r.pc \in {"differs", "prompt"} => here = Regular(r.existing.bytes) /\ here # Regular(new)
     /\ r.pc = "prompt" => r.tty
     /\ r.pc \in Installing =>
          /\ r.mode # "check"
          /\ \/ r.outcome \in {"installed", "replaced"} /\ r.bytes = Stored(new)
             \/ r.outcome = "merged" /\ r.mode # "overwrite"
     /\ r.pc \in {"write", "close", "rename"} => \/ here = Missing
                                                 \/ here.kind = "regular" /\ AskedFor(r)
     /\ r.pc = "ancestor" => here = Regular(r.bytes.bytes)

AloneInv == \A p \in Procs : Active(p) => Good(run[p], target)

(* A report gets on to one more file: what it says of the others stays.    *)
LEMMA BookGrows ==
  ASSUME NEW report \in Report, NEW next \in Report, NEW mode, NEW new, NEW k \in Nat, NEW tgt,
         NEW f \in Files, f = k + 1, Book(report, mode, new, k, tgt),
         \A g \in Files : g # f => /\ g \in next.errors <=> g \in report.errors
                                   /\ \A q \in Outcomes : g \in next.outcome[q] <=> g \in report.outcome[q],
         AccountedIn(next, f),
         \A q \in {"installed", "replaced", "unchanged"} : f \in next.outcome[q] => tgt[f] = Regular(new),
         f \in next.outcome["differ"] => tgt[f] # Regular(new),
         mode \in {"check", "overwrite"} => f \notin next.outcome["merged"] /\ f \notin next.outcome["skipped"],
         next.ok => report.ok /\ f \notin next.outcome["differ"] /\ next.errors \subseteq report.errors,
         ~next.ok => \/ ~report.ok
                     \/ f \in next.errors \/ f \in next.outcome["differ"] \/ f \in next.outcome["skipped"],
         report.errors \subseteq next.errors
  PROVE  Book(next, mode, new, k + 1, tgt)
<1>1. \A g \in 1..k : g \in Nat /\ g # f
  OBVIOUS
<1>2. f \in Files \ (1..k) /\ \A g \in 1..k : g \in Files
  BY AgentSkillsAssumption DEF Files
<1>3. \A q \in Outcomes : report.outcome[q] \subseteq Files /\ next.outcome[q] \subseteq Files
  BY DEF Report
<1>4. ASSUME NEW g \in 1..k PROVE AccountedIn(next, g)
  <2>1. AccountedIn(report, g) /\ g \in Files /\ g # f
    BY <1>1, <1>2 DEF Book
  <2>2. {q \in Outcomes : g \in next.outcome[q]} = {q \in Outcomes : g \in report.outcome[q]}
    BY <2>1
  <2>3. g \in next.errors <=> g \in report.errors
    BY <2>1
  <2>. QED BY <2>1, <2>2, <2>3 DEF AccountedIn
<1>5. \A g \in 1..(k + 1) : g \in 1..k \/ g = f
  OBVIOUS
<1>6. \A g \in 1..(k + 1) : AccountedIn(next, g)
  BY <1>4, <1>5
<1>7. \A g \in Files \ (1..(k + 1)) : g \in Files \ (1..k) /\ g # f
  OBVIOUS
<1>8. \A g \in Files \ (1..(k + 1)) : g \notin next.errors /\ \A q \in Outcomes : g \notin next.outcome[q]
  BY <1>7 DEF Book
<1>9. \A g \in Files : \A q \in {"installed", "replaced", "unchanged"} :
         g \in next.outcome[q] => tgt[g] = Regular(new)
  BY DEF Book, Outcomes
<1>10. \A g \in Files : g \in next.outcome["differ"] => tgt[g] # Regular(new)
  BY DEF Book, Outcomes
<1>11. mode \in {"check", "overwrite"} => next.outcome["merged"] = {} /\ next.outcome["skipped"] = {}
  BY <1>3 DEF Book, Outcomes
<1>12. next.ok => next.outcome["differ"] = {} /\ next.errors = {}
  BY <1>3 DEF Book, Outcomes
<1>13. report.outcome["differ"] \subseteq next.outcome["differ"] /\ report.outcome["skipped"] \subseteq next.outcome["skipped"]
  <2>1. f \notin report.outcome["differ"] /\ f \notin report.outcome["skipped"]
    BY <1>2 DEF Book, Outcomes
  <2>. QED BY <2>1, <1>3 DEF Outcomes
<1>14. ~next.ok => \/ next.errors # {} \/ next.outcome["differ"] # {} \/ next.outcome["skipped"] # {}
  BY <1>13 DEF Book
<1>. QED BY <1>6, <1>8, <1>9, <1>10, <1>11, <1>12, <1>14 DEF Book

LEMMA PushFields ==
  ASSUME NEW report \in Report, NEW o \in Outcomes, NEW f \in Files
  PROVE  /\ Push(report, o, f) \in Report
         /\ Push(report, o, f).errors = report.errors /\ Push(report, o, f).ok = report.ok
         /\ \A q \in Outcomes : Push(report, o, f).outcome[q]
                                  = IF q = o THEN report.outcome[o] \cup {f} ELSE report.outcome[q]
BY DEF Push, Report

LEMMA FailFields ==
  ASSUME NEW report \in Report
  PROVE  /\ Fail(report) \in Report /\ Fail(report).errors = report.errors
         /\ Fail(report).outcome = report.outcome /\ ~Fail(report).ok
         /\ \A f \in Files \cup {BundleError, ScanError} :
              /\ PushError(report, f) \in Report /\ ~PushError(report, f).ok
              /\ PushError(report, f).outcome = report.outcome
              /\ PushError(report, f).errors = report.errors \cup {f}
BY DEF Fail, PushError, Report

(* What a file that is new to a report is listed under.                    *)
LEMMA NewFile ==
  ASSUME NEW report \in Report, NEW mode, NEW new, NEW k \in Nat, NEW tgt,
         NEW f \in Files, f = k + 1, Book(report, mode, new, k, tgt), NEW o \in Outcomes
  PROVE  /\ f \notin report.errors
         /\ \A q \in Outcomes : f \notin report.outcome[q] /\ (f \in Push(report, o, f).outcome[q] <=> q = o)
         /\ {q \in Outcomes : f \in Push(report, o, f).outcome[q]} = {o}
         /\ \A g \in Files : g # f =>
              \A q \in Outcomes : g \in Push(report, o, f).outcome[q] <=> g \in report.outcome[q]
<1> DEFINE next == Push(report, o, f)
<1>1. f \in Files \ (1..k)
  OBVIOUS
<1>2. f \notin report.errors /\ \A q \in Outcomes : f \notin report.outcome[q]
  BY <1>1 DEF Book
<1>3. \A q \in Outcomes : next.outcome[q] = IF q = o THEN report.outcome[o] \cup {f} ELSE report.outcome[q]
  BY PushFields
<1> HIDE DEF next
<1>4. \A q \in Outcomes : f \in next.outcome[q] <=> q = o
  BY <1>2, <1>3
<1>5. \A g \in Files : g # f => \A q \in Outcomes : g \in next.outcome[q] <=> g \in report.outcome[q]
  BY <1>3
<1>6. {q \in Outcomes : f \in next.outcome[q]} = {o}
  BY <1>4
<1>. QED BY <1>2, <1>4, <1>5, <1>6 DEF next

(* A file may be listed under o as it is.                                  *)
Fits(o, mode, new, here) ==
  /\ o # "differ"
  /\ o \in {"installed", "replaced", "unchanged"} => here = Regular(new)
  /\ o \in {"merged", "skipped"} => mode \notin {"check", "overwrite"}

LEMMA PushBook ==
  ASSUME NEW report \in Report, NEW k \in Nat, NEW f \in Files, NEW o \in Outcomes, NEW mode, NEW new,
         NEW tgt, Fits(o, mode, new, tgt[f]), Book(report, mode, new, k, tgt), f = k + 1
  PROVE  /\ Book(Push(report, o, f), mode, new, k + 1, tgt)
         /\ o = "skipped" => Book(Fail(Push(report, o, f)), mode, new, k + 1, tgt)
<1>a. /\ Push(report, o, f) \in Report /\ Push(report, o, f).errors = report.errors
      /\ Push(report, o, f).ok = report.ok
  BY DEF Push, Report
<1> DEFINE next == Push(report, o, f)
<1>0. next \in Report /\ next.errors = report.errors /\ next.ok = report.ok
  BY <1>a
<1>1. /\ f \notin report.errors
      /\ \A q \in Outcomes : f \in next.outcome[q] <=> q = o
      /\ {q \in Outcomes : f \in next.outcome[q]} = {o}
      /\ \A g \in Files : g # f =>
              \A q \in Outcomes : g \in next.outcome[q] <=> g \in report.outcome[q]
  BY NewFile
<1>2. /\ Fail(next) \in Report /\ Fail(next).errors = next.errors /\ Fail(next).outcome = next.outcome
      /\ ~Fail(next).ok
  BY <1>0, FailFields
<1> HIDE DEF next
<1>3. AccountedIn(next, f) /\ AccountedIn(Fail(next), f)
  BY <1>0, <1>1, <1>2 DEF AccountedIn, Fits
<1>4. Book(next, mode, new, k + 1, tgt)
  BY <1>0, <1>1, <1>3, BookGrows DEF Outcomes, Fits
<1>5. ASSUME o = "skipped" PROVE Book(Fail(next), mode, new, k + 1, tgt)
  BY <1>0, <1>1, <1>2, <1>3, <1>5, BookGrows DEF Outcomes, Fits
<1>. QED BY <1>4, <1>5 DEF next

LEMMA DifferBook ==
  ASSUME NEW report \in Report, NEW mode, NEW new, NEW k \in Nat, NEW tgt, NEW f \in Files,
         f = k + 1, Book(report, mode, new, k, tgt), tgt[f] # Regular(new)
  PROVE  /\ Book(Fail(Push(report, "differ", f)), mode, new, k + 1, tgt)
         /\ Book(Conflicting(report, f), mode, new, k + 1, tgt)
<1> DEFINE next == Push(report, "differ", f)
<1>0. next \in Report /\ next.errors = report.errors /\ next.ok = report.ok
  BY PushFields DEF Outcomes
<1>1. /\ f \notin report.errors
      /\ \A q \in Outcomes : f \in next.outcome[q] <=> q = "differ"
      /\ {q \in Outcomes : f \in next.outcome[q]} = {"differ"}
      /\ \A g \in Files : g # f =>
              \A q \in Outcomes : g \in next.outcome[q] <=> g \in report.outcome[q]
  BY NewFile DEF Outcomes
<1>2. /\ Fail(next) \in Report /\ Fail(next).errors = next.errors /\ Fail(next).outcome = next.outcome
      /\ ~Fail(next).ok
      /\ PushError(next, f) \in Report /\ ~PushError(next, f).ok
      /\ PushError(next, f).outcome = next.outcome
      /\ PushError(next, f).errors = next.errors \cup {f}
  BY <1>0, FailFields
<1> HIDE DEF next
<1>3. AccountedIn(Fail(next), f) /\ AccountedIn(PushError(next, f), f)
  BY <1>0, <1>1, <1>2 DEF AccountedIn, Outcomes
<1>4. Book(Fail(next), mode, new, k + 1, tgt)
  BY <1>0, <1>1, <1>2, <1>3, BookGrows DEF Outcomes
<1>5. Book(PushError(next, f), mode, new, k + 1, tgt)
  BY <1>0, <1>1, <1>2, <1>3, BookGrows DEF Outcomes
<1>. QED BY <1>4, <1>5 DEF next, Conflicting

LEMMA ErrorBook ==
  ASSUME NEW report \in Report, NEW mode, NEW new, NEW k \in Nat, NEW tgt, NEW f \in Files,
         f = k + 1, Book(report, mode, new, k, tgt)
  PROVE  Book(PushError(report, f), mode, new, k + 1, tgt)
<1> DEFINE next == PushError(report, f)
<1>1. /\ next \in Report /\ ~next.ok /\ next.outcome = report.outcome
      /\ next.errors = report.errors \cup {f}
  BY FailFields
<1>2. \A q \in Outcomes : f \notin report.outcome[q]
  <2>1. f \in Files \ (1..k)
    OBVIOUS
  <2>. QED BY <2>1 DEF Book
<1> HIDE DEF next
<1>3. {q \in Outcomes : f \in next.outcome[q]} = {} /\ f \in next.errors
  BY <1>1, <1>2
<1>4. AccountedIn(next, f)
  BY <1>3 DEF AccountedIn
<1>5. Book(next, mode, new, k + 1, tgt)
  BY <1>1, <1>2, <1>4, BookGrows DEF Outcomes
<1>. QED BY <1>5 DEF next

(* The extras pass adds to a report: entries removed, or an error.         *)
LEMMA ScanErrorBook ==
  ASSUME NEW report \in Report, NEW mode, NEW new, NEW k \in Nat, NEW tgt, k <= NumFiles,
         Book(report, mode, new, k, tgt)
  PROVE  Book(PushError(report, ScanError), mode, new, k, tgt)
<1> DEFINE next == PushError(report, ScanError)
<1>1. /\ next \in Report /\ ~next.ok /\ next.outcome = report.outcome
      /\ next.errors = report.errors \cup {ScanError}
  BY FailFields
<1>2. \A f \in Files : f # ScanError
  BY AgentSkillsAssumption DEF Files, ScanError
<1>3. \A f \in 1..k : f \in Files
  BY AgentSkillsAssumption DEF Files
<1> HIDE DEF next
<1>4. \A f \in 1..k : AccountedIn(next, f)
  BY <1>1, <1>2, <1>3 DEF Book, AccountedIn
<1>5. Book(next, mode, new, k, tgt)
  BY <1>1, <1>2, <1>4 DEF Book
<1>. QED BY <1>5 DEF next

LEMMA SameBook ==
  ASSUME NEW report, NEW next, NEW mode, NEW new, NEW k, NEW tgt, Book(report, mode, new, k, tgt),
         next.outcome = report.outcome, next.errors = report.errors, next.ok = report.ok
  PROVE  Book(next, mode, new, k, tgt)
BY DEF Book, AccountedIn

(* What a report says does not depend on a file that it does not cover.    *)
LEMMA MovedBook ==
  ASSUME NEW report \in Report, NEW mode, NEW new, NEW k \in Nat, NEW tgt, NEW moved, NEW f \in Files,
         f = k + 1, Book(report, mode, new, k, tgt), \A g \in Files : g # f => moved[g] = tgt[g]
  PROVE  Book(report, mode, new, k, moved)
<1>1. \A q \in Outcomes : f \notin report.outcome[q]
  BY NewFile DEF Outcomes
<1>. QED BY <1>1 DEF Book, Outcomes

(* How Good a run is that goes on from a file that it has just reported.   *)
LEMMA AfterGood ==
  ASSUME NEW r \in Run, NEW report \in Report, NEW tgt, r.tty => r.mode \in {"install", "clean"},
         Book(report, r.mode, Bundled[r.version], r.file, tgt)
  PROVE  Good(AfterFile(r, report), tgt) /\ Good(AfterDiffering(r, report), tgt)
<1>1. r.file \in 1..NumFiles /\ NumFiles \in Nat
  BY AgentSkillsAssumption DEF Run, Files
<1>2. ASSUME r.file < NumFiles PROVE Good(AfterFile(r, report), tgt)
  <2> DEFINE next == [Forget(r) EXCEPT !.pc = "file", !.file = r.file + 1, !.report = report]
  <2>1. /\ next.pc = "file" /\ next.file = r.file + 1 /\ next.report = report
        /\ next.mode = r.mode /\ next.tty = r.tty /\ next.version = r.version
    BY ForgetFacts DEF Run
  <2>2. AfterFile(r, report) = next
    BY <1>2 DEF AfterFile
  <2> HIDE DEF next
  <2>3. Covered(next) = r.file
    BY <1>1, <2>1 DEF Covered
  <2>4. Book(next.report, next.mode, Bundled[next.version], Covered(next), tgt)
    BY <2>1, <2>3
  <2>5. Good(next, tgt)
    BY <2>4, <2>1, <2>3 DEF Good, Installing
  <2>. QED BY <2>2, <2>5
<1>3. ASSUME ~(r.file < NumFiles) PROVE Good(AfterFile(r, report), tgt)
  <2> DEFINE next == [Forget(r) EXCEPT !.pc = "scan", !.report = report]
  <2>1. /\ next.pc = "scan" /\ next.file = r.file /\ next.report = report
        /\ next.mode = r.mode /\ next.tty = r.tty /\ next.version = r.version
    BY ForgetFacts DEF Run
  <2>2. AfterFile(r, report) = next /\ r.file = NumFiles
    BY <1>1, <1>3 DEF AfterFile
  <2> HIDE DEF next
  <2>3. Covered(next) = r.file
    BY <2>1 DEF Covered
  <2>4. Book(next.report, next.mode, Bundled[next.version], Covered(next), tgt)
    BY <2>1, <2>3
  <2>5. Good(next, tgt)
    BY <2>4, <2>1, <2>2, <2>3 DEF Good, Installing
  <2>. QED BY <2>2, <2>5
<1>4. ASSUME r.file \in report.outcome["skipped"], ~report.ok
      PROVE  Good(AfterDiffering(r, report), tgt)
  <2> DEFINE next == [Forget(r) EXCEPT !.pc = "done", !.report = report]
  <2>1. /\ next.pc = "done" /\ next.file = r.file /\ next.report = report
        /\ next.mode = r.mode /\ next.tty = r.tty /\ next.version = r.version
    BY ForgetFacts DEF Run
  <2>2. AfterDiffering(r, report) = next
    BY <1>4 DEF AfterDiffering
  <2> HIDE DEF next
  <2>3. Covered(next) = r.file
    BY <2>1 DEF Covered
  <2>4. Book(next.report, next.mode, Bundled[next.version], Covered(next), tgt)
    BY <2>1, <2>3
  <2>5. Good(next, tgt)
    BY <2>4, <1>4, <2>1, <2>3 DEF Good, Installing
  <2>. QED BY <2>2, <2>5
<1>5. ~(r.file \in report.outcome["skipped"] /\ ~report.ok) => AfterDiffering(r, report) = AfterFile(r, report)
  BY DEF AfterDiffering
<1>. QED BY <1>2, <1>3, <1>4, <1>5

LEMMA AbortGood ==
  ASSUME NEW r \in Run, NEW tgt, r.tty => r.mode \in {"install", "clean"}
  PROVE  Good(Abort(r), tgt)
<1> DEFINE next == Abort(r)
<1>1. /\ next.pc = "done" /\ next.report = FailedReport /\ next.mode = r.mode /\ next.tty = r.tty
  BY ForgetFacts DEF Abort, Run
<1>2. BundleError \in FailedReport.errors /\ ~FailedReport.ok
  BY DEF FailedReport, EmptyReport
<1> HIDE DEF next
<1>3. Good(next, tgt)
  BY <1>1, <1>2 DEF Good, Installing
<1>. QED BY <1>3 DEF next

(* A run may put its file in place of what is there.                       *)
Replaceable(r, here) == here = Missing \/ (here.kind = "regular" /\ AskedFor(r))

LEMMA InstallGood ==
  ASSUME NEW r \in Run, NEW tgt, NEW c, NEW o, r.tty => r.mode \in {"install", "clean"},
         Book(r.report, r.mode, Bundled[r.version], r.file - 1, tgt), r.mode # "check",
         \/ o \in {"installed", "replaced"} /\ c = Bundled[r.version]
         \/ o = "merged" /\ r.mode # "overwrite",
         Replaceable(r, tgt[r.file])
  PROVE  Good(Install(r, c, o), tgt)
<1> DEFINE next == Install(r, c, o)
<1>1. /\ next.pc = "write" /\ next.report = r.report /\ next.mode = r.mode /\ next.tty = r.tty
      /\ next.file = r.file /\ next.outcome = o /\ next.bytes = Stored(c) /\ next.version = r.version
      /\ next.answer = r.answer
  BY DEF Install, Run
<1> HIDE DEF next
<1>2. AskedFor(next) <=> AskedFor(r)
  BY <1>1 DEF AskedFor
<1>3. Covered(next) = r.file - 1
  BY <1>1 DEF Covered
<1>4. Good(next, tgt)
  BY <1>1, <1>2, <1>3 DEF Good, Installing, Replaceable
<1>. QED BY <1>4 DEF next

LEMMA TryMergeGood ==
  ASSUME NEW r \in Run, NEW tgt, r.tty => r.mode \in {"install", "clean"},
         Book(r.report, r.mode, Bundled[r.version], r.file - 1, tgt),
         r.mode \notin {"check", "overwrite"}, AskedFor(r),
         tgt[r.file] = Regular(r.existing.bytes), tgt[r.file] # Regular(Bundled[r.version])
  PROVE  Good(TryMerge(r, Bundled[r.version]), tgt)
<1> DEFINE new == Bundled[r.version]
<1>0. r.file \in Files /\ r.report \in Report /\ r.file - 1 \in Nat /\ (r.file - 1) + 1 = r.file
  BY AgentSkillsAssumption DEF Run, Files
<1>1. r.existing.bytes # new
  OBVIOUS
<1>2. Book(Conflicting(r.report, r.file), r.mode, new, r.file, tgt)
  BY <1>0, DifferBook
<1>3. Conflicting(r.report, r.file) \in Report
  BY <1>0, PushFields, FailFields DEF Conflicting, Outcomes
<1>4. Good(AfterDiffering(r, Conflicting(r.report, r.file)), tgt)
  BY <1>2, <1>3, AfterGood
<1>5. tgt[r.file].kind = "regular"
  BY DEF Regular
<1>6. Good(Install(r, Merged(r.base.bytes, r.existing.bytes, new), "merged"), tgt)
  BY <1>5, InstallGood DEF Replaceable
<1>. QED BY <1>1, <1>4, <1>6 DEF TryMerge

(* What is known of a run that takes a step, of its memory and the disk.   *)
LEMMA ActiveFacts ==
  ASSUME SkillsInv, AloneInv, NEW p \in Procs, Active(p)
  PROVE  /\ run[p] \in Run /\ run[p].report \in Report /\ run[p].file \in Files
         /\ run[p].file - 1 \in Nat /\ (run[p].file - 1) + 1 = run[p].file
         /\ target[run[p].file] \in TargetState \ {TornFile}
         /\ run[p].tty => run[p].mode \in {"install", "clean"}
         /\ Book(run[p].report, run[p].mode, Incoming(p), Covered(run[p]), target)
         /\ Good(run[p], target)
         /\ run' \in [Procs -> Run] => run'[p] \in Run
<1>1. Good(run[p], target)
  BY DEF AloneInv
<1>2. run[p] \in Run /\ run[p].report \in Report /\ run[p].file \in Files
  BY DEF SkillsInv, MemoryInv, TypeOK, Run
<1>3. run[p].pc # "done"
  BY DEF Active
<1>4. run[p].file - 1 \in Nat /\ (run[p].file - 1) + 1 = run[p].file
  BY <1>2, AgentSkillsAssumption DEF Files
<1>5. target[run[p].file] \in TargetState \ {TornFile}
  BY <1>2 DEF SkillsInv, MemoryInv, TypeOK, NeverTorn
<1>. QED BY <1>1, <1>2, <1>3, <1>4, <1>5 DEF Good, Incoming

LEMMA Became ==
  ASSUME SkillsInv, NEW p \in Procs, NEW r, Become(p, r)
  PROVE  run'[p] = r
BY DEF SkillsInv, MemoryInv, TypeOK, Become

LEMMA StartGood ==
  ASSUME SkillsInv, NEW p \in Procs, Start(p) PROVE Good(run'[p], target')
<1>1. PICK m \in Modes, v \in Versions, tty \in BOOLEAN :
        /\ tty => m \in {"install", "clean"}
        /\ Become(p, [IdleRun EXCEPT !.pc = "file", !.mode = m, !.version = v, !.tty = tty])
  BY DEF Start
<1> DEFINE r == [IdleRun EXCEPT !.pc = "file", !.mode = m, !.version = v, !.tty = tty]
<1>2. run'[p] = r
  BY <1>1, Became
<1>3. /\ r.pc = "file" /\ r.mode = m /\ r.tty = tty /\ r.file = 1 /\ r.report = EmptyReport
      /\ r.version = v
  BY DEF IdleRun
<1> HIDE DEF r
<1>4. Covered(r) = 0
  BY <1>3 DEF Covered
<1>5. /\ EmptyReport.outcome = [o \in Outcomes |-> {}] /\ EmptyReport.errors = {} /\ EmptyReport.ok
      /\ 1..0 = {}
  BY DEF EmptyReport
<1>6. Book(EmptyReport, m, Bundled[v], 0, target')
  BY <1>5 DEF Book, Outcomes
<1>7. Good(r, target')
  BY <1>1, <1>3, <1>4, <1>6 DEF Good, Installing
<1>. QED BY <1>2, <1>7

LEMMA ReadTargetGood ==
  ASSUME SkillsInv, AloneInv, NEW p \in Procs, ReadTarget(p) PROVE Good(run'[p], target')
<1> DEFINE r == run[p]
           t == target[r.file]
           new == Bundled[r.version]
           book == Book(r.report, r.mode, new, r.file - 1, target)
<1>1. /\ r.pc = "file" /\ Active(p) /\ target' = target /\ Incoming(p) = new
  BY DEF ReadTarget, At, Active, disk, Incoming
<1>2. /\ r \in Run /\ r.report \in Report /\ r.file \in Files
      /\ r.file - 1 \in Nat /\ (r.file - 1) + 1 = r.file
      /\ t \in TargetState \ {TornFile}
      /\ r.tty => r.mode \in {"install", "clean"}
  BY <1>1, ActiveFacts
<1>3. Covered(r) = r.file - 1
  BY <1>1 DEF Covered
<1>4. book
  BY <1>1, <1>3, ActiveFacts
<1>5. ASSUME t = Missing, r.mode = "check"
      PROVE  Good(AfterFile(r, Fail(Push(r.report, "differ", r.file))), target)
  <2>1. t # Regular(new)
    BY <1>5 DEF Missing, Regular
  <2>2. Book(Fail(Push(r.report, "differ", r.file)), r.mode, new, r.file, target)
    BY <1>2, <1>4, <2>1, DifferBook
  <2>3. Fail(Push(r.report, "differ", r.file)) \in Report
    BY <1>2, PushFields, FailFields DEF Outcomes
  <2>. QED BY <1>2, <2>2, <2>3, AfterGood
<1>6. ASSUME t = Missing, r.mode # "check"
      PROVE  Good(Install(r, new, "installed"), target)
  <2>1. /\ r \in Run /\ target[r.file] = Missing /\ r.mode # "check"
        /\ r.tty => r.mode \in {"install", "clean"}
        /\ Book(r.report, r.mode, new, r.file - 1, target)
    BY <1>2, <1>4, <1>6
  <2>2. Replaceable(r, target[r.file])
    BY <2>1 DEF Replaceable
  <2>. QED BY <2>1, <2>2, InstallGood
<1>7. Good(AfterFile(r, PushError(r.report, r.file)), target)
  <2>1. PushError(r.report, r.file) \in Report
    BY <1>2, FailFields
  <2>2. Book(PushError(r.report, r.file), r.mode, new, r.file, target)
    BY <1>2, <1>4, ErrorBook
  <2>. QED BY <1>2, <2>1, <2>2, AfterGood
<1>8. ASSUME t = Regular(new)
      PROVE  Good(AfterFile(r, Push(r.report, "unchanged", r.file)), target)
  <2>1. Push(r.report, "unchanged", r.file) \in Report
    BY <1>2, PushFields DEF Outcomes
  <2>2. Fits("unchanged", r.mode, new, target[r.file]) /\ "unchanged" \in Outcomes
    BY <1>8 DEF Fits, Outcomes
  <2>3. Book(Push(r.report, "unchanged", r.file), r.mode, new, r.file, target)
    BY <1>2, <1>4, <2>2, PushBook
  <2>. QED BY <1>2, <2>1, <2>3, AfterGood
<1>9. ASSUME t \notin {Missing, Directory, NonRegular}, t # Regular(new)
      PROVE  Good([r EXCEPT !.pc = "differs", !.existing = Stored(t.bytes)], target)
  <2> DEFINE next == [r EXCEPT !.pc = "differs", !.existing = Stored(t.bytes)]
  <2>1. PICK c \in Content : t = Regular(c)
    BY <1>2, <1>9 DEF TargetState
  <2>2. /\ next.pc = "differs" /\ next.existing = Stored(t.bytes) /\ next.file = r.file
        /\ next.mode = r.mode /\ next.tty = r.tty /\ next.version = r.version /\ next.report = r.report
    BY <1>2 DEF Run
  <2>3. t = Regular(Stored(t.bytes).bytes)
    BY <2>1 DEF Regular, Stored
  <2> HIDE DEF next
  <2>4. Covered(next) = r.file - 1
    BY <2>2 DEF Covered
  <2>5. Good(next, target)
    BY <1>2, <1>4, <1>9, <2>2, <2>3, <2>4 DEF Good, Installing
  <2>. QED BY <2>5 DEF next
<1>10. \E next : Become(p, next) /\ Good(next, target)
  BY <1>1, <1>2, <1>5, <1>6, <1>7, <1>8, <1>9 DEF ReadTarget
<1>. QED BY <1>1, <1>10, Became

LEMMA HandleDifferingGood ==
  ASSUME SkillsInv, AloneInv, NEW p \in Procs, HandleDiffering(p) PROVE Good(run'[p], target')
<1> DEFINE r == run[p]
           new == Bundled[r.version]
           read == [r EXCEPT !.base = ancestor[r.file]]
<1>1. /\ r.pc = "differs" /\ Active(p) /\ target' = target /\ Incoming(p) = new
  BY DEF HandleDiffering, At, Active, disk, Incoming
<1>2. /\ r \in Run /\ r.report \in Report /\ r.file \in Files
      /\ r.file - 1 \in Nat /\ (r.file - 1) + 1 = r.file
      /\ r.tty => r.mode \in {"install", "clean"}
      /\ Good(r, target)
  BY <1>1, ActiveFacts
<1>3. Covered(r) = r.file - 1
  BY <1>1 DEF Covered
<1>4. /\ Book(r.report, r.mode, new, r.file - 1, target)
  BY <1>1, <1>3, ActiveFacts
<1>5. target[r.file] = Regular(r.existing.bytes) /\ target[r.file] # Regular(new)
  BY <1>1, <1>2 DEF Good
<1>6. target[r.file].kind = "regular"
  BY <1>5 DEF Regular
<1>7. ancestor[r.file] \in AncestorState
  BY <1>2 DEF SkillsInv, MemoryInv, TypeOK
<1>8. /\ read \in Run /\ read.report = r.report /\ read.mode = r.mode /\ read.file = r.file
      /\ read.tty = r.tty /\ read.version = r.version /\ read.existing = r.existing
      /\ read.answer = r.answer
  BY <1>2, <1>7 DEF Run
<1>9. ASSUME r.mode = "overwrite" PROVE Good(Install(r, new, "replaced"), target)
  <2>1. AskedFor(r) /\ r.mode # "check"
    BY <1>9 DEF AskedFor
  <2>. QED BY <1>2, <1>4, <1>6, <2>1, InstallGood DEF Replaceable
<1> HIDE DEF read
<1>10. ASSUME r.mode = "merge" PROVE Good(TryMerge(read, new), target)
  <2>1. AskedFor(read) /\ r.mode \notin {"check", "overwrite"}
    BY <1>8, <1>10 DEF AskedFor
  <2>. QED BY <1>2, <1>4, <1>5, <1>8, <2>1, TryMergeGood
<1>11. ASSUME r.tty PROVE Good([read EXCEPT !.pc = "prompt"], target)
  <2> DEFINE next == [read EXCEPT !.pc = "prompt"]
  <2>1. /\ next.pc = "prompt" /\ next.existing = r.existing /\ next.file = r.file
        /\ next.mode = r.mode /\ next.tty = r.tty /\ next.version = r.version /\ next.report = r.report
    BY <1>8 DEF Run
  <2> HIDE DEF next
  <2>2. Covered(next) = r.file - 1
    BY <2>1 DEF Covered
  <2>3. Good(next, target)
    BY <1>2, <1>4, <1>5, <1>11, <2>1, <2>2 DEF Good, Installing
  <2>. QED BY <2>3 DEF next
<1>12. Good(AfterDiffering(r, Fail(Push(r.report, "differ", r.file))), target)
  <2>1. Book(Fail(Push(r.report, "differ", r.file)), r.mode, new, r.file, target)
    BY <1>2, <1>4, <1>5, DifferBook
  <2>2. Fail(Push(r.report, "differ", r.file)) \in Report
    BY <1>2, PushFields, FailFields DEF Outcomes
  <2>. QED BY <1>2, <2>1, <2>2, AfterGood
<1>13. \E next : Become(p, next) /\ Good(next, target)
  BY <1>1, <1>9, <1>10, <1>11, <1>12 DEF HandleDiffering, read
<1>. QED BY <1>1, <1>13, Became

LEMMA AnswerGood ==
  ASSUME SkillsInv, AloneInv, NEW p \in Procs, Answer(p) PROVE Good(run'[p], target')
<1>1. PICK choice \in {"merge", "replace", "skip", "quit"} :
        LET r == [run[p] EXCEPT !.answer = choice]
            skipped == Push(r.report, "skipped", r.file)
        IN Become(p,
             IF choice = "merge"        THEN TryMerge(r, Incoming(p))
             ELSE IF choice = "replace" THEN Install(r, Incoming(p), "replaced")
             ELSE IF choice = "skip"    THEN AfterDiffering(r, skipped)
             ELSE AfterDiffering(r, Fail(skipped)))
  BY DEF Answer
<1> DEFINE r == [run[p] EXCEPT !.answer = choice]
           new == Bundled[r.version]
           skipped == Push(r.report, "skipped", r.file)
<1>2. /\ run[p].pc = "prompt" /\ Active(p) /\ target' = target
  BY DEF Answer, At, Active, disk
<1>3. /\ run[p] \in Run /\ run[p].report \in Report /\ run[p].file \in Files
      /\ run[p].file - 1 \in Nat /\ (run[p].file - 1) + 1 = run[p].file
      /\ run[p].tty => run[p].mode \in {"install", "clean"}
      /\ Good(run[p], target)
  BY <1>2, ActiveFacts
<1>4. /\ r \in Run /\ r.report = run[p].report /\ r.mode = run[p].mode /\ r.file = run[p].file
      /\ r.tty = run[p].tty /\ r.version = run[p].version /\ r.existing = run[p].existing
      /\ r.answer = choice
  BY <1>3 DEF Run
<1>5. Covered(run[p]) = run[p].file - 1
  BY <1>2 DEF Covered
<1>6. Incoming(p) = new
  BY <1>4 DEF Incoming
<1>7. Book(run[p].report, run[p].mode, Incoming(p), run[p].file - 1, target)
  BY <1>2, <1>5, ActiveFacts
<1>8. /\ target[run[p].file] = Regular(run[p].existing.bytes)
      /\ target[run[p].file] # Regular(Incoming(p)) /\ run[p].tty
  BY <1>2, <1>3 DEF Good, Incoming
<1> HIDE DEF r
<1>9. /\ r.report \in Report /\ r.file \in Files
      /\ r.file - 1 \in Nat /\ (r.file - 1) + 1 = r.file
      /\ r.tty => r.mode \in {"install", "clean"}
      /\ Book(r.report, r.mode, new, r.file - 1, target)
      /\ target[r.file] = Regular(r.existing.bytes) /\ target[r.file] # Regular(new)
      /\ r.mode \in {"install", "clean"}
  BY <1>3, <1>4, <1>6, <1>7, <1>8
<1>10. target[r.file].kind = "regular"
  BY <1>9 DEF Regular
<1>11. ASSUME choice = "merge" PROVE Good(TryMerge(r, new), target)
  <2>1. AskedFor(r) /\ r.mode \notin {"check", "overwrite"}
    BY <1>4, <1>9, <1>11 DEF AskedFor
  <2>. QED BY <1>4, <1>9, <2>1, TryMergeGood
<1>12. ASSUME choice = "replace" PROVE Good(Install(r, new, "replaced"), target)
  <2>1. AskedFor(r) /\ r.mode # "check"
    BY <1>4, <1>9, <1>12 DEF AskedFor
  <2>. QED BY <1>4, <1>9, <1>10, <2>1, InstallGood DEF Replaceable
<1>13. Good(AfterDiffering(r, skipped), target) /\ Good(AfterDiffering(r, Fail(skipped)), target)
  <2>1. Fits("skipped", r.mode, new, target[r.file]) /\ "skipped" \in Outcomes
    BY <1>9 DEF Fits, Outcomes
  <2>2. Book(skipped, r.mode, new, r.file, target) /\ Book(Fail(skipped), r.mode, new, r.file, target)
    BY <1>9, <2>1, PushBook
  <2>3. skipped \in Report /\ Fail(skipped) \in Report
    BY <1>9, <2>1, PushFields, FailFields
  <2>. QED BY <1>4, <1>9, <2>2, <2>3, AfterGood
<1>14. \E next : Become(p, next) /\ Good(next, target)
  BY <1>1, <1>6, <1>11, <1>12, <1>13 DEF r
<1>. QED BY <1>2, <1>14, Became

LEMMA WriteGood ==
  ASSUME SkillsInv, AloneInv, NEW p \in Procs, Write(p) \/ Close(p) PROVE Good(run'[p], target')
<1> DEFINE r == run[p]
<1>1. /\ r.pc \in {"write", "close"} /\ Active(p) /\ target' = target
      /\ \E pc \in {"close", "rename"} : run'[p] = [r EXCEPT !.pc = pc]
  BY Became DEF Write, Close, At, Active
<1>2. r \in Run /\ Good(r, target)
  BY <1>1, ActiveFacts
<1>3. PICK pc \in {"close", "rename"} : run'[p] = [r EXCEPT !.pc = pc]
  BY <1>1
<1> DEFINE next == [r EXCEPT !.pc = pc]
<1>4. /\ next.pc = pc /\ next.file = r.file /\ next.bytes = r.bytes /\ next.outcome = r.outcome
      /\ next.mode = r.mode /\ next.tty = r.tty /\ next.version = r.version /\ next.report = r.report
      /\ next.answer = r.answer
  BY <1>2 DEF Run
<1>5. run'[p] = next
  BY <1>3
<1> HIDE DEF next
<1>6. Covered(next) = Covered(r) /\ (AskedFor(next) <=> AskedFor(r))
  BY <1>1, <1>4 DEF Covered, AskedFor
<1>7. Good(next, target)
  BY <1>1, <1>2, <1>4, <1>6 DEF Good, Installing
<1>. QED BY <1>1, <1>5, <1>7

LEMMA RenameGood ==
  ASSUME SkillsInv, AloneInv, NEW p \in Procs, Rename(p) PROVE Good(run'[p], target')
<1> DEFINE r == run[p]
           new == Bundled[r.version]
<1>1. r.pc = "rename" /\ Active(p)
  BY DEF Rename, At, Active
<1>2. /\ r \in Run /\ r.report \in Report /\ r.file \in Files
      /\ r.file - 1 \in Nat /\ (r.file - 1) + 1 = r.file
      /\ r.tty => r.mode \in {"install", "clean"}
      /\ Good(r, target)
  BY <1>1, ActiveFacts
<1>3. Covered(r) = r.file - 1
  BY <1>1 DEF Covered
<1>4. Book(r.report, r.mode, new, r.file - 1, target)
  BY <1>1, <1>3, ActiveFacts DEF Incoming
<1>5. CASE ~Renamable(p)
  <2>1. run'[p] = Abort(r)
    BY <1>5, Became DEF Rename
  <2>. QED BY <1>2, <2>1, AbortGood
<1>6. CASE Renamable(p)
  <2> DEFINE next == [r EXCEPT !.pc = "ancestor", !.wrote = @ \cup {r.file}]
             moved == [target EXCEPT ![r.file] = Regular(r.bytes.bytes)]
  <2>1. run'[p] = next /\ target' = moved
    BY <1>6, Became, RenamesWhole DEF Rename
  <2>2. /\ next.pc = "ancestor" /\ next.file = r.file /\ next.bytes = r.bytes
        /\ next.outcome = r.outcome
        /\ next.mode = r.mode /\ next.tty = r.tty /\ next.version = r.version
        /\ next.report = r.report
    BY <1>2 DEF Run
  <2>3. /\ moved[r.file] = Regular(r.bytes.bytes)
        /\ \A g \in Files : g # r.file => moved[g] = target[g]
    BY <1>2 DEF SkillsInv, MemoryInv, TypeOK
  <2> HIDE DEF next, moved
  <2>4. Book(r.report, r.mode, new, r.file - 1, moved)
    BY <1>2, <1>4, <2>3, MovedBook
  <2>5. Covered(next) = r.file - 1
    BY <2>2 DEF Covered
  <2>6. /\ r.mode # "check"
        /\ \/ r.outcome \in {"installed", "replaced"} /\ r.bytes = Stored(new)
           \/ r.outcome = "merged" /\ r.mode # "overwrite"
    BY <1>1, <1>2 DEF Good, Installing
  <2>7. Good(next, moved)
    BY <1>2, <2>2, <2>3, <2>4, <2>5, <2>6 DEF Good, Installing
  <2>. QED BY <2>1, <2>7
<1>. QED BY <1>5, <1>6

LEMMA InstalledGood ==
  ASSUME SkillsInv, AloneInv, NEW p \in Procs, At(p, "ancestor") PROVE Good(Installed(run[p]), target)
<1> DEFINE r == run[p]
           new == Bundled[r.version]
<1>1. r.pc = "ancestor" /\ Active(p)
  BY DEF At, Active
<1>2. /\ r \in Run /\ r.report \in Report /\ r.file \in Files
      /\ r.file - 1 \in Nat /\ (r.file - 1) + 1 = r.file
      /\ r.tty => r.mode \in {"install", "clean"}
      /\ Good(r, target)
  BY <1>1, ActiveFacts
<1>3. Covered(r) = r.file - 1
  BY <1>1 DEF Covered
<1>4. Book(r.report, r.mode, new, r.file - 1, target)
  BY <1>1, <1>3, ActiveFacts DEF Incoming
<1>5. /\ r.mode # "check" /\ target[r.file] = Regular(r.bytes.bytes)
      /\ \/ r.outcome \in {"installed", "replaced"} /\ r.bytes = Stored(new)
         \/ r.outcome = "merged" /\ r.mode # "overwrite"
  BY <1>1, <1>2 DEF Good, Installing
<1>6. r.bytes = Stored(new) => target[r.file] = Regular(new)
  BY <1>5 DEF Stored
<1>7. Fits(r.outcome, r.mode, new, target[r.file]) /\ r.outcome \in Outcomes
  BY <1>5, <1>6 DEF Fits, Outcomes
<1>8. Book(Push(r.report, r.outcome, r.file), r.mode, new, r.file, target)
  BY <1>2, <1>4, <1>7, PushBook
<1>9. Push(r.report, r.outcome, r.file) \in Report
  BY <1>2, <1>7, PushFields
<1>. QED BY <1>2, <1>8, <1>9, AfterGood DEF Installed

LEMMA ScanGood ==
  ASSUME SkillsInv, AloneInv, NEW p \in Procs, Scan(p) \/ CleanEnd(p) PROVE Good(run'[p], target')
<1> DEFINE r == run[p]
<1>1. r.pc \in {"scan", "clean"} /\ Active(p) /\ target' = target
  BY DEF Scan, CleanEnd, At, Active, disk
<1>2. r \in Run /\ Good(r, target)
  BY <1>1, ActiveFacts
<1>3. /\ r.tty => r.mode \in {"install", "clean"}
      /\ Book(r.report, r.mode, Bundled[r.version], r.file, target) /\ r.file = NumFiles
  BY <1>1, <1>2 DEF Good, Covered
<1>4. \/ run'[p] = [r EXCEPT !.pc = "clean", !.scanned = Present]
      \/ run'[p] = [r EXCEPT !.pc = "done"]
  BY Became DEF Scan, CleanEnd
<1>5. /\ run'[p].pc \in {"clean", "done"} /\ run'[p].file = r.file /\ run'[p].mode = r.mode
      /\ run'[p].tty = r.tty /\ run'[p].version = r.version /\ run'[p].report = r.report
  BY <1>2, <1>4 DEF Run
<1>6. \A next : next.pc \in {"clean", "done"} /\ next.file = r.file /\ next.mode = r.mode
                /\ next.tty = r.tty /\ next.version = r.version /\ next.report = r.report
                => Good(next, target)
  BY <1>3 DEF Good, Covered, Installing
<1>. QED BY <1>1, <1>5, <1>6

LEMMA CleanGood ==
  ASSUME SkillsInv, AloneInv, NEW p \in Procs, At(p, "clean") \/ At(p, "remove"),
         NEW pc \in {"clean", "remove"}, NEW scanned, NEW seen, NEW removed, target' = target,
         Become(p, [run[p] EXCEPT !.pc = pc, !.scanned = scanned, !.seen = seen,
                                  !.report.removed = removed])
  PROVE  Good(run'[p], target')
<1> DEFINE r == run[p]
           next == [r EXCEPT !.pc = pc, !.scanned = scanned, !.seen = seen,
                             !.report.removed = removed]
<1>1. r.pc \in {"clean", "remove"} /\ Active(p)
  BY DEF At, Active
<1>2. r \in Run /\ Good(r, target)
  BY <1>1, ActiveFacts
<1>3. /\ next.pc = pc /\ next.file = r.file /\ next.mode = r.mode
      /\ next.tty = r.tty /\ next.version = r.version
      /\ next.report.outcome = r.report.outcome /\ next.report.errors = r.report.errors
      /\ next.report.ok = r.report.ok
  BY <1>1, <1>2 DEF Run, Report
<1>4. run'[p] = next
  BY Became
<1> HIDE DEF next
<1>5. /\ r.tty => r.mode \in {"install", "clean"}
      /\ Book(r.report, r.mode, Bundled[r.version], r.file, target) /\ r.file = NumFiles
  BY <1>1, <1>2 DEF Good, Covered
<1>6. Book(next.report, r.mode, Bundled[r.version], r.file, target)
  BY <1>3, <1>5, SameBook
<1>7. Good(next, target)
  BY <1>3, <1>5, <1>6 DEF Good, Covered, Installing
<1>. QED BY <1>4, <1>7

LEMMA LookGood ==
  ASSUME SkillsInv, AloneInv, NEW p \in Procs, Look(p) PROVE Good(run'[p], target')
<1> DEFINE r == run[p]
<1>1. r \in Run /\ r.pc = "clean" /\ target' = target
  BY DEF SkillsInv, MemoryInv, TypeOK, Look, At, disk
<1>2. PICK e : Become(p, IF KindOf(e) \in {"file", "empty"}
                   THEN [r EXCEPT !.pc = "remove", !.scanned = @ \ {e}, !.seen = Seen(e, KindOf(e))]
                   ELSE [r EXCEPT !.scanned = @ \ {e}])
  BY DEF Look
<1>3. [r EXCEPT !.scanned = @ \ {e}]
        = [r EXCEPT !.pc = "clean", !.scanned = r.scanned \ {e}, !.seen = r.seen,
                    !.report.removed = r.report.removed]
  BY <1>1 DEF Run, Report
<1> DEFINE seen == Seen(e, KindOf(e))
<1>4. [r EXCEPT !.pc = "remove", !.scanned = @ \ {e}, !.seen = seen]
        = [r EXCEPT !.pc = "remove", !.scanned = r.scanned \ {e}, !.seen = seen,
                    !.report.removed = r.report.removed]
  <2> HIDE DEF seen
  <2>. QED BY <1>1 DEF Run, Report
<1>5. \/ Become(p, [r EXCEPT !.pc = "clean", !.scanned = r.scanned \ {e}, !.seen = r.seen,
                    !.report.removed = r.report.removed])
      \/ Become(p, [r EXCEPT !.pc = "remove", !.scanned = r.scanned \ {e}, !.seen = seen,
                    !.report.removed = r.report.removed])
  BY <1>2, <1>3, <1>4
<1>. QED BY <1>1, <1>5, CleanGood DEF At

LEMMA RemoveGood ==
  ASSUME SkillsInv, AloneInv, NEW p \in Procs, Remove(p) PROVE Good(run'[p], target')
<1> DEFINE r == run[p]
<1>1. r \in Run /\ At(p, "remove") /\ target' = target
  BY DEF SkillsInv, MemoryInv, TypeOK, Remove
<1>2. \A removed : [r EXCEPT !.pc = "clean", !.seen = Unseen, !.report.removed = removed]
                    = [r EXCEPT !.pc = "clean", !.scanned = r.scanned, !.seen = Unseen,
                                !.report.removed = removed]
  BY <1>1 DEF Run, Report
<1>3. \E removed : Become(p, [r EXCEPT !.pc = "clean", !.seen = Unseen, !.report.removed = removed])
  BY DEF Remove
<1>. QED BY <1>1, <1>2, <1>3, CleanGood

LEMMA FaultGood ==
  ASSUME SkillsInv, AloneInv, NEW p \in Procs, Fault(p) PROVE Good(run'[p], target')
<1> DEFINE r == run[p]
<1>1. target' = target /\ Active(p)
  BY DEF Fault, Active
<1>2. /\ r \in Run /\ Good(r, target) /\ r.report \in Report /\ r.file \in Files
      /\ r.tty => r.mode \in {"install", "clean"}
  BY <1>1, ActiveFacts
<1>3. CASE Become(p, Abort(r))
  BY <1>1, <1>2, <1>3, AbortGood, Became
<1>4. CASE r.pc = "ancestor" /\ Become(p, Installed(r))
  BY <1>1, <1>4, InstalledGood, Became DEF At
<1>5. CASE r.pc = "scan" /\ Become(p, [r EXCEPT !.pc = "done", !.report = PushError(r.report, ScanError)])
  <2> DEFINE next == [r EXCEPT !.pc = "done", !.report = PushError(r.report, ScanError)]
  <2>1. /\ next.pc = "done" /\ next.file = r.file /\ next.mode = r.mode
        /\ next.tty = r.tty /\ next.version = r.version /\ next.report = PushError(r.report, ScanError)
    BY <1>2 DEF Run
  <2>2. run'[p] = next
    BY <1>5, Became
  <2> HIDE DEF next
  <2>3. Book(r.report, r.mode, Bundled[r.version], r.file, target) /\ r.file = NumFiles
    BY <1>2, <1>5 DEF Good, Covered
  <2>4. r.file \in Nat /\ r.file <= NumFiles
    BY <1>2, AgentSkillsAssumption DEF Files
  <2>5. Book(next.report, r.mode, Bundled[r.version], r.file, target)
    BY <1>2, <2>1, <2>3, <2>4, ScanErrorBook
  <2>6. Good(next, target)
    BY <1>2, <2>1, <2>3, <2>5 DEF Good, Covered, Installing
  <2>. QED BY <1>1, <2>2, <2>6
<1>6. CASE r.pc \in {"clean", "remove"} /\ \E scanned, seen :
             Become(p, [r EXCEPT !.pc = "clean", !.scanned = scanned, !.seen = seen,
                                 !.report.removed = r.report.removed])
  BY <1>1, <1>6, CleanGood DEF At
<1>7. ASSUME r.pc = "clean", NEW e PROVE [r EXCEPT !.scanned = @ \ {e}]
          = [r EXCEPT !.pc = "clean", !.scanned = r.scanned \ {e}, !.seen = r.seen,
                      !.report.removed = r.report.removed]
  BY <1>2, <1>7 DEF Run, Report
<1>8. [r EXCEPT !.pc = "clean", !.seen = Unseen]
          = [r EXCEPT !.pc = "clean", !.scanned = r.scanned, !.seen = Unseen,
                      !.report.removed = r.report.removed]
  BY <1>2 DEF Run, Report
<1>9. CASE r.pc = "clean" /\ \E e \in r.scanned : Become(p, [r EXCEPT !.scanned = @ \ {e}])
  BY <1>6, <1>7, <1>9
<1>10. CASE r.pc = "remove" /\ Become(p, [r EXCEPT !.pc = "clean", !.seen = Unseen])
  BY <1>6, <1>8, <1>10
<1>. QED BY <1>3, <1>4, <1>5, <1>9, <1>10 DEF Fault

(* A run that begins, goes on or ends is Good where its step leaves it.    *)
LEMMA StepGood ==
  ASSUME SkillsInv, AloneInv, NEW p \in Procs, Step(p) \/ Start(p) \/ Fault(p)
  PROVE  Good(run'[p], target')
<1>1. CASE ReadTarget(p)
  BY <1>1, ReadTargetGood
<1>2. CASE HandleDiffering(p)
  BY <1>2, HandleDifferingGood
<1>3. CASE Answer(p)
  BY <1>3, AnswerGood
<1>4. CASE Write(p) \/ Close(p)
  BY <1>4, WriteGood
<1>5. CASE Rename(p)
  BY <1>5, RenameGood
<1>6. CASE WriteAncestor(p)
  BY <1>6, InstalledGood, Became DEF WriteAncestor
<1>7. CASE Scan(p) \/ CleanEnd(p)
  BY <1>7, ScanGood
<1>8. CASE Look(p) \/ Remove(p)
  BY <1>8, LookGood, RemoveGood
<1>9. CASE Start(p)
  BY <1>9, StartGood
<1>10. CASE Fault(p)
  BY <1>10, FaultGood
<1>. QED BY <1>1, <1>2, <1>3, <1>4, <1>5, <1>6, <1>7, <1>8, <1>9, <1>10 DEF Step

(* Only a step of p touches its memory, and only one that is not a crash   *)
(* makes it active or done.                                                *)
LEMMA AloneStep ==
  ASSUME Alone, SkillsInv, AloneInv, [Next]_vars, NEW p \in Procs,
         run'[p].pc # "idle", run[p].pc = "done" => run'[p].pc # "done"
  PROVE  Good(run'[p], target')
<1>1. CASE UNCHANGED vars
  BY <1>1 DEF vars, AloneInv, Active, Done, At
<1>2. CASE Edit
  <2>1. run' = run /\ ~Active(p)
    BY <1>2 DEF Edit, Alone
  <2>. QED BY <2>1 DEF Active, Done, At
<1>3. ASSUME NEW q \in Procs, Step(q) \/ Start(q) \/ Fault(q) \/ Crash(q)
      PROVE  Good(run'[p], target')
  <2>1. q = p
    BY DEF Alone
  <2>2. CASE Crash(q)
    <3>1. run'[p] = IdleRun
      BY <2>1, <2>2, Became DEF Crash
    <3>. QED BY <3>1 DEF Active, Done, At, IdleRun
  <2>. QED BY <1>3, <2>1, <2>2, StepGood
<1>. QED BY <1>1, <1>2, <1>3 DEF Next

LEMMA AloneInvariance ==
  ASSUME Alone PROVE Spec => [](SkillsInv /\ AloneInv)
<1>1. Init => SkillsInv /\ AloneInv
  <2>1. Init => AloneInv
    BY DEF Init, AloneInv, Active, IdleRun
  <2>. QED BY <2>1, InitInv
<1>2. SkillsInv /\ AloneInv /\ [Next]_vars => (SkillsInv /\ AloneInv)'
  <2> SUFFICES ASSUME SkillsInv, AloneInv, [Next]_vars PROVE (SkillsInv /\ AloneInv)'
    OBVIOUS
  <2>1. \A p \in Procs : Active(p)' => Good(run'[p], target')
    BY AloneStep DEF Active, At
  <2>2. SkillsInv'
    BY NextInv
  <2>. QED BY <2>1, <2>2 DEF AloneInv
<1>. QED BY <1>1, <1>2, PTL DEF Spec

(* The report of a run ends exact: a file stands in it once, and `ok` says *)
(* what the mode of the run promises.                                      *)
THEOREM ReportsAreExact ==
  ASSUME Alone PROVE Spec => ReportIsExact
<1>1. ASSUME SkillsInv, AloneInv, [Next]_vars
      PROVE  \A p \in Procs : ~Done(p) /\ Done(p)' => (FilesAccounted(p) /\ OkIsExactFor(p))'
  <2> SUFFICES ASSUME NEW p \in Procs, ~Done(p), Done(p)'
               PROVE  (FilesAccounted(p) /\ OkIsExactFor(p))'
    OBVIOUS
  <2> DEFINE r == run'[p]
             new == Bundled[r.version]
  <2>1. Good(r, target') /\ r.pc = "done"
    BY <1>1, AloneStep DEF Done, At
  <2>2. r \in Run /\ r.report \in Report /\ r.file \in Files
    BY <1>1, NextInv DEF SkillsInv, MemoryInv, TypeOK, Run
  <2>3. CASE BundleError \in r.report.errors /\ ~r.report.ok
    BY <2>3 DEF FilesAccounted, Aborted, OkIsExactFor
  <2>4. CASE Book(r.report, r.mode, new, r.file, target')
    <3>1. ASSUME NEW f \in 1..r.file PROVE Accounted(p, f)'
      <4> DEFINE listed == {o \in Outcomes : f \in r.report.outcome[o]}
      <4>1. AccountedIn(r.report, f)
        BY <2>4 DEF Book
      <4>2. \A o : Cardinality({o}) = 1
        BY FS_Singleton
      <4>3. Listed(p, f)' = listed
        BY DEF Listed, Outcome
      <4>. QED BY <4>1, <4>2, <4>3 DEF Accounted, AccountedIn
    <3>2. FilesAccounted(p)'
      BY <3>1 DEF FilesAccounted
    <3>3. ASSUME r.report.ok PROVE \A f \in Files \ Kept(p)' : target'[f] = Regular(new)
      <4>1. r.file = NumFiles /\ r.report.errors = {} /\ r.report.outcome["differ"] = {}
        BY <2>1, <2>4, <3>3 DEF Good, Book
      <4> SUFFICES ASSUME NEW f \in Files \ Kept(p)' PROVE target'[f] = Regular(new)
        OBVIOUS
      <4>2. AccountedIn(r.report, f)
        BY <2>4, <4>1 DEF Book, Files
      <4>3. PICK o \in Outcomes : f \in r.report.outcome[o]
        BY <4>1, <4>2 DEF AccountedIn
      <4>4. o \in {"installed", "replaced", "unchanged"}
        BY <4>1, <4>3 DEF Outcomes, Kept, Outcome
      <4>. QED BY <2>4, <4>3, <4>4 DEF Book
    <3>4. ASSUME r.mode \in {"check", "overwrite"}
          PROVE  r.report.ok <=> UpToDate(p)' /\ r.report.errors = {}
      <4>1. Kept(p)' = {}
        BY <2>4, <3>4 DEF Book, Kept, Outcome
      <4>2. r.report.ok => UpToDate(p)' /\ r.report.errors = {}
        BY <2>4, <3>3, <4>1 DEF UpToDate, Incoming, Book
      <4>3. ASSUME ~r.report.ok, r.report.errors = {} PROVE ~UpToDate(p)'
        <5>1. PICK f \in r.report.outcome["differ"] : TRUE
          BY <2>4, <3>4, <4>3 DEF Book
        <5>2. f \in Files
          BY <2>2, <5>1 DEF Report, Outcomes
        <5>. QED BY <2>4, <5>1, <5>2 DEF Book, UpToDate, Incoming
      <4>. QED BY <4>2, <4>3
    <3>5. OkIsExactFor(p)'
      BY <3>3, <3>4 DEF OkIsExactFor, Incoming
    <3>. QED BY <3>2, <3>5
  <2>5. Covered(r) = r.file
    BY <2>1 DEF Covered
  <2>. QED BY <2>1, <2>3, <2>4, <2>5 DEF Good
<1>2. SkillsInv /\ AloneInv /\ [Next]_vars
        => [\A p \in Procs : ~Done(p) /\ Done(p)' => (FilesAccounted(p) /\ OkIsExactFor(p))']_vars
  BY <1>1
<1>. QED BY <1>2, AloneInvariance, PTL DEF Spec, ReportIsExact


(* Memory in which a run has put more files in place than in this one.     *)
Grown(r, next) == next.wrote # r.wrote /\ next.wrote # {}

LEMMA AfterKeeps ==
  ASSUME NEW r, NEW r1 \in Run, r1.wrote = r.wrote
  PROVE  /\ \A report : ~Grown(r, AfterFile(r1, report)) /\ ~Grown(r, AfterDiffering(r1, report))
         /\ \A c, o : ~Grown(r, Install(r1, c, o))
         /\ \A c : ~Grown(r, TryMerge(r1, c))
         /\ ~Grown(r, Abort(r1)) /\ ~Grown(r, Installed(r1))
<1>1. ASSUME NEW report PROVE ~Grown(r, AfterFile(r1, report)) /\ ~Grown(r, AfterDiffering(r1, report))
  <2>1. AfterFile(r1, report).wrote = r.wrote
    BY ForgetFacts DEF AfterFile, Run
  <2>. QED BY <2>1, ForgetFacts DEF AfterDiffering, Run, Grown
<1>2. \A c, o : ~Grown(r, Install(r1, c, o))
  BY DEF Install, Run, Grown
<1>3. \A c : ~Grown(r, TryMerge(r1, c))
  BY <1>1, <1>2 DEF TryMerge
<1>4. ~Grown(r, Abort(r1))
  BY ForgetFacts DEF Abort, Run, Grown
<1>. QED BY <1>1, <1>2, <1>3, <1>4 DEF Installed

(* A run puts files in place only in its rename.                           *)
LEMMA OnlyRenameWrites ==
  ASSUME SkillsInv, [Next]_vars, NEW p \in Procs, NEW f, f \in run'[p].wrote \ run[p].wrote
  PROVE  At(p, "rename") /\ run'[p].wrote = run[p].wrote \cup {run[p].file}
<1> DEFINE r == run[p]
<1>1. r \in Run /\ run \in [Procs -> Run]
  BY DEF SkillsInv, MemoryInv, TypeOK
<1>2. Grown(r, run'[p]) /\ run'[p] # r
  BY DEF Grown
<1>3. PICK q \in Procs : Step(q) \/ Start(q) \/ Fault(q) \/ Crash(q)
  BY <1>2 DEF Next, Edit, vars
<1>4. \A next : Become(p, next) => Grown(r, next)
  BY <1>2, Became
<1>5. q = p
  <2>1. \E next : Become(q, next)
    BY <1>3 DEF Step, Start, Fault, Crash, ReadTarget, HandleDiffering, Answer, Write, Close,
         Rename, WriteAncestor, Scan, Look, Remove, CleanEnd
  <2>. QED BY <1>1, <1>2, <2>1 DEF Become
<1>6. ~ReadTarget(p)
  <2> DEFINE differs == [r EXCEPT !.pc = "differs", !.existing = Stored(target[r.file].bytes)]
  <2>1. ~Grown(r, differs)
    BY <1>1 DEF Run, Grown
  <2>2. ReadTarget(p) => \/ \E report : Become(p, AfterFile(r, report))
                         \/ \E c, o : Become(p, Install(r, c, o))
                         \/ Become(p, differs)
    BY DEF ReadTarget
  <2>. QED BY <1>1, <1>4, <2>1, <2>2, AfterKeeps
<1>7. ~HandleDiffering(p)
  <2> DEFINE read == [r EXCEPT !.base = ancestor[r.file]]
             prompt == [read EXCEPT !.pc = "prompt"]
  <2>1. ancestor[r.file] \in AncestorState
    BY <1>1 DEF SkillsInv, MemoryInv, TypeOK, Run
  <2>2. read \in Run /\ read.wrote = r.wrote /\ ~Grown(r, prompt)
    BY <1>1, <2>1 DEF Run, Grown
  <2>3. HandleDiffering(p) => \/ \E report : Become(p, AfterDiffering(r, report))
                              \/ \E c, o : Become(p, Install(r, c, o))
                              \/ \E c : Become(p, TryMerge(read, c))
                              \/ Become(p, prompt)
    BY DEF HandleDiffering
  <2> HIDE DEF read, prompt
  <2>. QED BY <1>1, <1>4, <2>2, <2>3, AfterKeeps
<1>8. ~Answer(p)
  <2>1. Answer(p) =>
          \E choice \in {"merge", "replace", "skip", "quit"} :
            LET r1 == [r EXCEPT !.answer = choice]
            IN \/ \E report : Become(p, AfterDiffering(r1, report))
               \/ \E c, o : Become(p, Install(r1, c, o))
               \/ \E c : Become(p, TryMerge(r1, c))
    BY DEF Answer
  <2>2. ASSUME NEW choice \in {"merge", "replace", "skip", "quit"}
        PROVE  [r EXCEPT !.answer = choice] \in Run /\ [r EXCEPT !.answer = choice].wrote = r.wrote
    BY <1>1 DEF Run
  <2>. QED BY <1>4, <2>1, <2>2, AfterKeeps
<1>9. ~(Write(p) \/ Close(p) \/ CleanEnd(p))
  <2>1. \A pc : ~Grown(r, [r EXCEPT !.pc = pc])
    BY <1>1 DEF Run, Grown
  <2>. QED BY <1>4, <2>1 DEF Write, Close, CleanEnd
<1>10. ~WriteAncestor(p)
  BY <1>1, <1>4, AfterKeeps DEF WriteAncestor
<1>11. ~Scan(p)
  <2>1. ~Grown(r, [r EXCEPT !.pc = "done"]) /\ ~Grown(r, [r EXCEPT !.pc = "clean", !.scanned = Present])
    BY <1>1 DEF Run, Grown
  <2>. QED BY <1>4, <2>1 DEF Scan
<1>12. ~Look(p) /\ ~Remove(p)
  <2>1. /\ \A e : /\ ~Grown(r, [r EXCEPT !.scanned = @ \ {e}])
                   /\ ~Grown(r, [r EXCEPT !.pc = "remove", !.scanned = @ \ {e}, !.seen = Seen(e, KindOf(e))])
        /\ \A removed :
             ~Grown(r, [r EXCEPT !.pc = "clean", !.seen = Unseen, !.report.removed = removed])
    BY <1>1 DEF Run, Grown
  <2>2. Remove(p) => \E removed :
          Become(p, [r EXCEPT !.pc = "clean", !.seen = Unseen, !.report.removed = removed])
    BY DEF Remove
  <2>. QED BY <1>4, <2>1, <2>2 DEF Look
<1>13. ~Start(p)
  <2>1. \A m, v, tty :
          ~Grown(r, [IdleRun EXCEPT !.pc = "file", !.mode = m, !.version = v, !.tty = tty])
    BY DEF IdleRun, Grown
  <2>2. Start(p) => \E m, v, tty :
          Become(p, [IdleRun EXCEPT !.pc = "file", !.mode = m, !.version = v, !.tty = tty])
    BY DEF Start
  <2>. QED BY <1>4, <2>1, <2>2
<1>14. ~Crash(p)
  BY <1>4 DEF Crash, IdleRun, Grown
<1>15. ~Fault(p)
  <2> DEFINE failed == [r EXCEPT !.pc = "done", !.report = PushError(r.report, ScanError)]
  <2>1. /\ \A e : ~Grown(r, [r EXCEPT !.scanned = @ \ {e}])
        /\ ~Grown(r, failed) /\ ~Grown(r, [r EXCEPT !.pc = "clean", !.seen = Unseen])
    BY <1>1 DEF Run, Grown
  <2>2. Fault(p) => \/ Become(p, Abort(r)) \/ Become(p, Installed(r)) \/ Become(p, failed)
                    \/ \E e : Become(p, [r EXCEPT !.scanned = @ \ {e}])
                    \/ Become(p, [r EXCEPT !.pc = "clean", !.seen = Unseen])
    BY DEF Fault
  <2>. QED BY <1>1, <1>4, <2>1, <2>2, AfterKeeps
<1>16. Rename(p)
  BY <1>3, <1>5, <1>6, <1>7, <1>8, <1>9, <1>10, <1>11, <1>12, <1>13, <1>14, <1>15 DEF Step
<1>17. Renamable(p)
  BY <1>1, <1>4, <1>16, AfterKeeps DEF Rename
<1>18. run'[p] = [r EXCEPT !.pc = "ancestor", !.wrote = @ \cup {r.file}]
  BY <1>16, <1>17, Became DEF Rename
<1>. QED BY <1>1, <1>16, <1>18 DEF Rename, Run

(* A run that nothing disturbs replaces a user's content only if it was    *)
(* told to.                                                                *)
THEOREM ReplacesByConsent ==
  ASSUME Alone PROVE Spec => ReplacedByConsent
<1> DEFINE A == \A p \in Procs, f \in Files :
       run'[p].wrote \ run[p].wrote = {f} =>
         \/ target[f] = Missing
         \/ /\ target[f].kind = "regular"
            /\ target[f].bytes \notin installed[f] => Consented(p)
<1>1. ASSUME SkillsInv, AloneInv, [Next]_vars PROVE A
  <2> SUFFICES ASSUME NEW p \in Procs, NEW f \in Files, run'[p].wrote \ run[p].wrote = {f}
               PROVE  \/ target[f] = Missing
                      \/ (target[f].kind = "regular" /\ Consented(p))
    OBVIOUS
  <2>1. At(p, "rename") /\ run'[p].wrote = run[p].wrote \cup {run[p].file}
    BY <1>1, OnlyRenameWrites
  <2>2. Good(run[p], target) /\ f = run[p].file
    BY <1>1, <2>1 DEF AloneInv, Active, At
  <2>3. Consented(p) <=> AskedFor(run[p])
    BY DEF Consented, AskedFor
  <2>. QED BY <2>1, <2>2, <2>3 DEF Good, At
<1>2. SkillsInv /\ AloneInv /\ [Next]_vars => [A]_vars
  BY <1>1
<1>. QED BY <1>2, AloneInvariance, PTL DEF Spec, ReplacedByConsent
================================================================================
