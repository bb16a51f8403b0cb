-------------------------- MODULE PublicationProofs --------------------------
(***************************************************************************)
(* Proofs about Publication, for any files, bounds and number of crashes   *)
(* and failures.  The selected generation is always on disk because a      *)
(* course names only what it has found or put under generations/: that is  *)
(* OnDisk below, which with SelectedOnDisk is inductive.                   *)
(*                                                                         *)
(* That the workspace has the sources of the selected generation after a   *)
(* call, and keeps no refused and no half update, needs Sound: what each   *)
(* step of a commit, of a recovery and of a start knows of the files on    *)
(* disk, of the journal and of the sources that it has yet to mirror.      *)
(***************************************************************************)
EXTENDS Publication, TLAPS

\* The worker is at a step of some generation's course.
Working == job.at \notin Resting \cup {"build"} /\ ~(job.mode = "startup" /\ job.at = "record")

\* A course names its generation, an edit its source, and the steps that update
\* the journal find one.
JobNamed ==
  /\ Working => job.pub \in Publications
  /\ job.mode = "edit" /\ job.at \notin Resting => job.edit \in Parts
  /\ job.at \in {"generation", "journal generation", "pointer", "journal pointer"} => Pending

Steps == CommitSteps \cup MirrorSteps \cup {"repoint", "clear", "prune", "record", "build"}

DiskTyped ==
  /\ ws \in [Files -> Versions]
  /\ glb \in Publications \cup {NoPublication} /\ json \in Publications \cup {NoPublication}
  /\ gens \subseteq Publications /\ pointer \in Publications \cup {NoPublication}
  /\ journal \in Journals
StagingTyped ==
  /\ content \in [Publications -> [Files -> Versions]]
  /\ deletions \in [Publications -> SUBSET Files]
  /\ count \in 0 .. MaxPublications
ObservedTyped ==
  /\ recorded \in [Files -> Versions] /\ latest \in [Files -> Versions]
  /\ reported \subseteq Versions /\ refused \subseteq Versions
BudgetTyped ==
  /\ clock \in Versions /\ crashes \in 0 .. MaxCrashes /\ failures \in 0 .. MaxFailures
JobTyped == job \in Jobs \cup {Rest(s) : s \in Resting}
Typed == DiskTyped /\ StagingTyped /\ ObservedTyped /\ BudgetTyped /\ JobTyped

\* The parts are the type invariant.
LEMMA TypedIsTypeOK == Typed <=> TypeOK
BY DEF Typed, TypeOK, DiskTyped, StagingTyped, ObservedTyped, BudgetTyped, JobTyped

-----------------------------------------------------------------------------
(* How job changes *)

\* A worker that is not resting has a full job.
LEMMA BusyJob == ASSUME JobTyped, job.at \notin Resting PROVE job \in Jobs
BY DEF JobTyped, Rest

\* Goto changes the step and nothing else.
LEMMA GotoTyped ==
  ASSUME job \in Jobs, NEW step \in Steps, Goto(step)
  PROVE  job' \in Jobs /\ job'.at = step /\ job'.mode = job.mode /\ job'.pub = job.pub
         /\ job'.edit = job.edit
BY DEF Goto, Jobs, Steps

\* Stage makes a job at the first step of a commit, for the next generation.
LEMMA StageTyped ==
  ASSUME StagingTyped, PublicationAssumption,
         NEW tree \in [Files -> Versions], NEW mode \in Modes, NEW edit \in Parts \cup {NoFile},
         Stage(tree, mode, edit)
  PROVE  /\ StagingTyped'
         /\ job' \in Jobs /\ job'.at = "intent" /\ job'.mode = mode /\ job'.edit = edit
         /\ job'.pub \in Publications
<1>1. count' \in Publications
  BY DEF Stage, StagingTyped, PublicationAssumption, Publications
<1>2. SelectedInputs \ Inputs(tree) \subseteq Files
  BY DEF SelectedInputs, Inputs
<1>3. StagingTyped'
  BY <1>1, <1>2 DEF Stage, StagingTyped, Publications
<1>4. job' = [mode |-> mode, at |-> "intent", pub |-> count', todo |-> {}, edit |-> edit]
  BY DEF Stage
<1> QED BY <1>1, <1>3, <1>4 DEF Jobs, CommitSteps

\* Recovery makes a job at the first mirror of a generation.
LEMMA RecoveryTyped ==
  ASSUME StagingTyped, NEW mode \in Modes, NEW p \in Publications, Recovery(mode, p)
  PROVE  job' \in Jobs /\ job'.at = "files" /\ job'.mode = mode /\ job'.pub = p
<1>1. Inputs(content[p]) \cup deletions[p] \subseteq Files
  BY DEF StagingTyped, Inputs
<1> QED BY <1>1 DEF Recovery, Jobs, MirrorSteps

\* ToBuild makes a startup job.
LEMMA ToBuildTyped ==
  ASSUME ToBuild PROVE job' \in Jobs /\ job'.at = "build" /\ job'.mode = "startup"
BY DEF ToBuild, Rest, Jobs, Modes

\* A recovery that falls back has found its generation, or goes on to the build.
LEMMA FallBackTyped ==
  ASSUME DiskTyped, StagingTyped, FallBack
  PROVE  /\ job' \in Jobs /\ job'.mode # "edit"
         /\ \/ job'.at = "files" /\ job'.pub \in gens /\ job'.mode \in FallsBack
            \/ job'.at = "build" /\ job'.mode = "startup"
<1>1. CASE journal.prior \in gens
  <2>1. journal.prior \in Publications
    BY <1>1 DEF DiskTyped
  <2>2. PICK mode \in FallsBack : Recovery(mode, journal.prior)
    BY <1>1 DEF FallBack, FallsBack
  <2> QED BY <1>1, <2>1, <2>2, RecoveryTyped DEF FallsBack, Modes
<1>2. CASE journal.prior \notin gens
  BY <1>2, ToBuildTyped DEF FallBack
<1> QED BY <1>1, <1>2

-----------------------------------------------------------------------------
(* Types *)

\* Calls of the session, and what WriteDirect does while none is served.
LEMMA CallsTyped ==
  ASSUME Typed, JobNamed, PublicationAssumption,
         \/ \E f \in Parts : Edit(f) \/ Remove(f)
         \/ \E f \in Direct : WriteDirect(f)
  PROVE  Typed' /\ JobNamed'
<1> USE DEF Typed
<1>1. ASSUME NEW f \in Parts, Edit(f) PROVE Typed' /\ JobNamed'
  <2>1. clock' \in Versions
    BY <1>1 DEF Edit, BudgetTyped, Versions, PublicationAssumption
  <2>2. [ws EXCEPT ![f] = clock'] \in [Files -> Versions]
    BY <2>1 DEF DiskTyped, Files
  <2>3. StagingTyped' /\ JobTyped' /\ JobNamed'
    BY <1>1, <2>2, StageTyped DEF Edit, Modes, JobTyped, JobNamed, Working
  <2> QED BY <1>1, <2>1, <2>3 DEF Edit, disk, observed, DiskTyped, ObservedTyped, BudgetTyped
<1>2. ASSUME NEW f \in Parts, Remove(f) PROVE Typed' /\ JobNamed'
  <2>1. [ws EXCEPT ![f] = Absent] \in [Files -> Versions]
    BY DEF DiskTyped, Files, Absent, Versions, PublicationAssumption
  <2>2. StagingTyped' /\ JobTyped' /\ JobNamed'
    BY <1>2, <2>1, StageTyped DEF Remove, Modes, JobTyped, JobNamed, Working
  <2> QED
    BY <1>2, <2>2 DEF Remove, disk, observed, budget, DiskTyped, ObservedTyped, BudgetTyped
<1>3. ASSUME NEW f \in Direct, WriteDirect(f) PROVE Typed' /\ JobNamed'
  <2>1. clock' \in Versions
    BY <1>3 DEF WriteDirect, BudgetTyped, Versions, PublicationAssumption
  <2>2. DiskTyped' /\ ObservedTyped'
    BY <1>3, <2>1 DEF WriteDirect, DiskTyped, ObservedTyped, Files
  <2>3. StagingTyped' /\ BudgetTyped' /\ JobTyped' /\ JobNamed'
    BY <1>3, <2>1 DEF WriteDirect, staging, StagingTyped, BudgetTyped, JobTyped, JobNamed,
       Working, Pending
  <2> QED BY <2>2, <2>3
<1> QED BY <1>1, <1>2, <1>3

\* The steps of a commit, which the recoveries share.
LEMMA CommitTyped ==
  ASSUME Typed, JobNamed,
         \/ JournalIntent \/ InstallGeneration \/ JournalGeneration
         \/ SelectGeneration \/ JournalPointer
  PROVE  Typed' /\ JobNamed'
<1> USE DEF Typed
<1>1. job.at \in CommitSteps /\ job \in Jobs /\ job.pub \in Publications
  BY BusyJob DEF JobNamed, Working, Resting, CommitSteps, JournalIntent, InstallGeneration,
     JournalGeneration, SelectGeneration, JournalPointer
<1>2. JobTyped' /\ job'.pub = job.pub /\ job'.edit = job.edit /\ job'.mode = job.mode
      /\ job'.at \in CommitSteps \cup MirrorSteps
  <2>1. ASSUME NEW step \in CommitSteps, Goto(step)
        PROVE  JobTyped' /\ job'.pub = job.pub /\ job'.edit = job.edit /\ job'.mode = job.mode
               /\ job'.at \in CommitSteps \cup MirrorSteps
    BY <1>1, <2>1, GotoTyped DEF Steps, JobTyped
  <2>2. Inputs(content[job.pub]) \cup deletions[job.pub] \subseteq Files
    BY <1>1 DEF StagingTyped, Inputs
  <2>3. ASSUME job' = [job EXCEPT !.at = "files", !.todo = Inputs(content[job.pub]) \cup deletions[job.pub]]
        PROVE  JobTyped' /\ job'.pub = job.pub /\ job'.edit = job.edit /\ job'.mode = job.mode
               /\ job'.at \in CommitSteps \cup MirrorSteps
    BY <1>1, <2>2, <2>3 DEF Jobs, JobTyped, MirrorSteps
  <2> QED BY <2>1, <2>3 DEF JournalIntent, InstallGeneration, JournalGeneration,
             SelectGeneration, JournalPointer, CommitSteps
<1>3. StagingTyped' /\ BudgetTyped'
  BY DEF JournalIntent, InstallGeneration, JournalGeneration, SelectGeneration, JournalPointer,
     staging, budget, StagingTyped, BudgetTyped
<1>4. DiskTyped' /\ (job'.at \in {"generation", "journal generation", "pointer", "journal pointer"} => Pending')
  <2>1. CASE JournalIntent
    <3>1. journal' \in Journals /\ journal' # NoJournal
      BY <1>1, <2>1 DEF JournalIntent, Journals, NoJournal, Publications, NoPublication, DiskTyped
    <3> QED BY <2>1, <3>1 DEF JournalIntent, DiskTyped, Pending
  <2>2. CASE InstallGeneration
    BY <1>1, <2>2 DEF InstallGeneration, DiskTyped, Pending, JobNamed
  <2>3. CASE JournalGeneration
    <3>1. journal \in Journals /\ journal # NoJournal
      BY <2>3 DEF JournalGeneration, DiskTyped, JobNamed, Pending
    <3>2. journal' \in Journals /\ journal' # NoJournal
      BY <2>3, <3>1 DEF JournalGeneration, Journals, NoJournal
    <3> QED BY <2>3, <3>2 DEF JournalGeneration, DiskTyped, Pending
  <2>4. CASE SelectGeneration
    BY <1>1, <2>4 DEF SelectGeneration, DiskTyped, Pending, JobNamed
  <2>5. CASE JournalPointer
    <3>1. journal \in Journals /\ journal # NoJournal
      BY <2>5 DEF JournalPointer, DiskTyped, JobNamed, Pending
    <3>2. journal' \in Journals /\ journal' # NoJournal
      BY <2>5, <3>1 DEF JournalPointer, Journals, NoJournal
    <3> QED BY <2>5, <3>2 DEF JournalPointer, DiskTyped, Pending
  <2> QED BY <2>1, <2>2, <2>3, <2>4, <2>5
<1>5. ObservedTyped'
  <2>1. CASE SelectGeneration
    <3>1. latest' \in [Files -> Versions]
      BY <1>1, <2>1 DEF SelectGeneration, ObservedTyped, StagingTyped
    <3> QED BY <2>1, <3>1 DEF SelectGeneration, ObservedTyped
  <2>2. CASE UNCHANGED observed
    BY <2>2 DEF observed, ObservedTyped
  <2> QED BY <2>1, <2>2 DEF JournalIntent, InstallGeneration, JournalGeneration, JournalPointer
<1>6. job.mode = "edit" => job.edit \in Parts
  BY <1>1 DEF JobNamed, Resting, CommitSteps
<1>7. JobNamed'
  BY <1>1, <1>2, <1>4, <1>6 DEF JobNamed
<1> QED BY <1>2, <1>3, <1>4, <1>5, <1>7

\* The mirrors, and what follows them.
LEMMA MirrorsTyped ==
  ASSUME Typed, JobNamed,
         \/ \E f \in Files : CopyFile(f)
         \/ CopyGlb \/ CopyJson \/ ClearJournal \/ Prune \/ Repoint
  PROVE  Typed' /\ JobNamed'
<1> USE DEF Typed
<1>1. job.at \in MirrorSteps \cup {"clear", "prune", "repoint"}
      /\ job \in Jobs /\ job.pub \in Publications
  BY BusyJob DEF JobNamed, Working, Resting, MirrorSteps, CopyFile, CopyGlb, CopyJson,
     ClearJournal, Prune, Repoint
<1>2. job' \in Jobs /\ job'.pub = job.pub /\ job'.edit = job.edit /\ job'.mode = job.mode
      /\ job'.at \in MirrorSteps \cup {"clear", "prune", "repoint", "record", "build"}
  <2>1. ASSUME NEW step \in MirrorSteps \cup {"clear", "prune", "repoint", "record", "build"},
               Goto(step)
        PROVE  job' \in Jobs /\ job'.pub = job.pub /\ job'.edit = job.edit /\ job'.mode = job.mode
               /\ job'.at \in MirrorSteps \cup {"clear", "prune", "repoint", "record", "build"}
    BY <1>1, <2>1, GotoTyped DEF Steps
  <2>2. ASSUME NEW f \in Files, CopyFile(f)
        PROVE  job' \in Jobs /\ job'.pub = job.pub /\ job'.edit = job.edit /\ job'.mode = job.mode
               /\ job'.at \in MirrorSteps \cup {"clear", "prune", "repoint", "record", "build"}
    BY <1>1, <2>2 DEF CopyFile, Jobs
  <2> QED BY <2>1, <2>2 DEF CopyGlb, CopyJson, ClearJournal, AfterClear, Prune, Repoint, MirrorSteps
<1>3. StagingTyped' /\ BudgetTyped' /\ ObservedTyped'
  BY DEF CopyFile, CopyGlb, CopyJson, ClearJournal, Prune, Repoint, staging, budget, observed,
     StagingTyped, BudgetTyped, ObservedTyped
<1>4. DiskTyped'
  <2>1. ASSUME NEW f \in Files, CopyFile(f) PROVE DiskTyped'
    <3>1. content[job.pub][f] \in Versions
      BY <1>1 DEF StagingTyped
    <3> QED BY <2>1, <3>1 DEF CopyFile, DiskTyped
  <2>2. CASE CopyGlb \/ CopyJson \/ Repoint
    BY <1>1, <2>2 DEF CopyGlb, CopyJson, Repoint, DiskTyped
  <2>3. CASE ClearJournal
    BY <2>3 DEF ClearJournal, DiskTyped, Journals
  <2>4. CASE Prune
    BY <2>4 DEF Prune, DiskTyped
  <2> QED BY <2>1, <2>2, <2>3, <2>4
<1>5. job.mode = "edit" => job.edit \in Parts
  BY <1>1 DEF JobNamed, Resting, MirrorSteps
<1>6. JobNamed'
  BY <1>1, <1>2, <1>5 DEF JobNamed, MirrorSteps
<1> QED BY <1>2, <1>3, <1>4, <1>6 DEF JobTyped

\* A call's end, the build at startup and a worker's start.
LEMMA ServeTyped ==
  ASSUME Typed, JobNamed, PublicationAssumption,
         Record \/ BuildAtStartup \/ NoBuildAtStartup \/ Restart
  PROVE  Typed' /\ JobNamed'
<1> USE DEF Typed
<1>1. CASE Record
  <2>1. job \in Jobs
    BY <1>1, BusyJob DEF Record, Resting
  <2>2. job.mode = "edit" => content[job.pub][job.edit] \in Versions
    BY <1>1, <2>1 DEF Record, JobNamed, Working, Resting, StagingTyped, Files
  <2>3. ObservedTyped'
    BY <1>1, <2>2 DEF Record, ObservedTyped, DiskTyped
  <2>4. DiskTyped' /\ StagingTyped' /\ BudgetTyped'
    BY <1>1 DEF Record, disk, staging, budget, DiskTyped, StagingTyped, BudgetTyped
  <2>5. JobTyped' /\ JobNamed'
    <3>1. CASE ToBuild
      BY <3>1, ToBuildTyped DEF JobTyped, JobNamed, Working
    <3>2. CASE job' = Rest("idle")
      BY <3>2 DEF Rest, JobTyped, JobNamed, Working, Resting
    <3> QED BY <1>1, <3>1, <3>2 DEF Record
  <2> QED BY <2>3, <2>4, <2>5
<1>2. CASE BuildAtStartup
  <2>1. StagingTyped' /\ JobTyped' /\ JobNamed'
    BY <1>2, StageTyped DEF BuildAtStartup, Modes, DiskTyped, JobTyped, JobNamed, Working
  <2> QED BY <1>2, <2>1 DEF BuildAtStartup, disk, observed, budget, DiskTyped, ObservedTyped,
                            BudgetTyped
<1>3. CASE NoBuildAtStartup
  <2>1. job' \in Jobs /\ job'.mode = "startup" /\ job'.at = "record"
    BY <1>3 DEF NoBuildAtStartup, Rest, Jobs, Modes
  <2>2. JobTyped' /\ JobNamed'
    BY <2>1 DEF JobTyped, JobNamed, Working
  <2> QED BY <1>3, <2>2 DEF NoBuildAtStartup, disk, staging, observed, budget, DiskTyped,
                            StagingTyped, ObservedTyped, BudgetTyped
<1>4. CASE Restart
  <2>1. JobTyped' /\ JobNamed'
    <3>1. CASE FallBack
      <4>1. job' \in Jobs /\ job'.mode # "edit"
            /\ \/ job'.at = "files" /\ job'.pub \in Publications
               \/ job'.at = "build"
        BY <3>1, FallBackTyped DEF DiskTyped
      <4> QED BY <4>1 DEF JobTyped, JobNamed, Working
    <3>2. CASE ToBuild
      BY <3>2, ToBuildTyped DEF JobTyped, JobNamed, Working
    <3>3. CASE pointer \in gens /\ Recovery("current", pointer)
      <4>1. pointer \in Publications
        BY <3>3 DEF DiskTyped
      <4>2. job' \in Jobs /\ job'.at = "files" /\ job'.mode = "current" /\ job'.pub = pointer
        BY <3>3, <4>1, RecoveryTyped DEF Modes
      <4> QED BY <4>1, <4>2 DEF JobTyped, JobNamed
    <3>4. CASE Pending /\ job' = [mode |-> "finish", pub |-> journal.pub, todo |-> {}, edit |-> NoFile,
                  at |-> IF journal.pub \in gens THEN "pointer" ELSE "generation"]
      <4>1. journal.pub \in Publications
        BY <3>4 DEF DiskTyped, Journals, Pending
      <4>2. job' \in Jobs /\ job'.mode = "finish" /\ job'.pub = journal.pub
        BY <3>4, <4>1 DEF Jobs, Modes, CommitSteps
      <4>3. Pending'
        BY <1>4, <3>4 DEF Restart, disk, Pending
      <4> QED BY <4>1, <4>2, <4>3 DEF JobTyped, JobNamed
    <3> QED BY <1>4, <3>1, <3>2, <3>3, <3>4 DEF Restart
  <2> QED BY <1>4, <2>1 DEF Restart, disk, staging, observed, budget, DiskTyped,
                            StagingTyped, ObservedTyped, BudgetTyped
<1> QED BY <1>1, <1>2, <1>3, <1>4

\* A file operation that raises, and the worker's death.
LEMMA FailuresTyped ==
  ASSUME Typed, JobNamed, PublicationAssumption,
         CommitRaises \/ MirrorFails \/ RecoveryFails \/ FallBackFails \/ FinishFails \/ Crash
  PROVE  Typed' /\ JobNamed'
<1> USE DEF Typed
<1>1. BudgetTyped'
  BY DEF CommitRaises, MirrorFails, RecoveryFails, FallBackFails, FinishFails, Crash, Fails,
     BudgetTyped, PublicationAssumption
<1>2. StagingTyped'
  BY DEF CommitRaises, MirrorFails, RecoveryFails, FallBackFails, FinishFails, Crash, staging,
     StagingTyped
<1>3. DiskTyped'
  <2>1. CASE FinishFails
    BY <2>1 DEF FinishFails, DiskTyped, Journals
  <2>2. CASE UNCHANGED disk
    BY <2>2 DEF disk, DiskTyped
  <2> QED BY <2>1, <2>2 DEF CommitRaises, MirrorFails, RecoveryFails, FallBackFails, Crash
<1>4. ObservedTyped'
  <2>1. CASE CommitRaises
    <3>1. job \in Jobs /\ job.pub \in Publications
      BY <2>1, BusyJob DEF CommitRaises, JobNamed, Working, Resting, CommitSteps
    <3>2. job.edit # NoFile => content[job.pub][job.edit] \in Versions
      BY <3>1 DEF Jobs, StagingTyped, Files
    <3> QED BY <2>1, <3>2 DEF CommitRaises, ObservedTyped
  <2>2. CASE UNCHANGED observed
    BY <2>2 DEF observed, ObservedTyped
  <2> QED BY <2>1, <2>2 DEF MirrorFails, RecoveryFails, FallBackFails, FinishFails, Crash
<1>5. JobTyped' /\ JobNamed'
  <2>1. CASE FallBack
    <3>1. job' \in Jobs /\ job'.mode # "edit"
          /\ \/ job'.at = "files" /\ job'.pub \in Publications
             \/ job'.at = "build"
      BY <2>1, FallBackTyped DEF DiskTyped
    <3> QED BY <3>1 DEF JobTyped, JobNamed, Working
  <2>2. CASE ToBuild
    BY <2>2, ToBuildTyped DEF JobTyped, JobNamed, Working
  <2>3. CASE job' \in {Rest(state) : state \in Resting}
    <3>1. PICK state \in Resting : job' = Rest(state)
      BY <2>3
    <3>2. job'.at = state /\ job'.mode = "edit"
      BY <3>1 DEF Rest
    <3> QED BY <3>1, <3>2 DEF JobTyped, JobNamed, Working, Resting
  <2>4. CASE job.mode \in {"edit", "startup"} /\ Goto("record")
             /\ job.at \in CommitSteps \cup MirrorSteps \cup {"clear", "prune"}
    <3>1. job \in Jobs /\ job.pub \in Publications /\ (job.mode = "edit" => job.edit \in Parts)
      BY <2>4, BusyJob DEF JobNamed, Working, Resting, CommitSteps, MirrorSteps
    <3>2. job' \in Jobs /\ job'.at = "record" /\ job'.mode = job.mode /\ job'.pub = job.pub
          /\ job'.edit = job.edit
      BY <2>4, <3>1, GotoTyped DEF Steps
    <3> QED BY <3>1, <3>2 DEF JobTyped, JobNamed
  <2> QED BY <2>1, <2>2, <2>3, <2>4 DEF CommitRaises, MirrorFails, RecoveryFails, FallBackFails,
             FinishFails, Crash, Resting
<1> QED BY <1>1, <1>2, <1>3, <1>4, <1>5

\* Every reachable state is well typed, and every course knows its generation
\* and source.
THEOREM TypeCorrect == Spec => [](TypeOK /\ JobNamed)
<1> USE PublicationAssumption
<1>1. Init => Typed /\ JobNamed
  <2> SUFFICES ASSUME Init PROVE Typed /\ JobNamed
    OBVIOUS
  <2>1. DiskTyped /\ StagingTyped /\ ObservedTyped /\ BudgetTyped
    BY DEF Init, Empty, Absent, Versions, Journals, NoPublication, DiskTyped, StagingTyped,
       ObservedTyped, BudgetTyped, PublicationAssumption
  <2>2. JobTyped /\ JobNamed
    BY DEF Init, Rest, Resting, JobTyped, JobNamed, Working
  <2> QED BY <2>1, <2>2 DEF Typed
<1>2. Typed /\ JobNamed /\ [Next]_vars => (Typed /\ JobNamed)'
  <2> SUFFICES ASSUME Typed, JobNamed, [Next]_vars PROVE Typed' /\ JobNamed'
    OBVIOUS
  <2>1. CASE \/ \E f \in Parts : Edit(f) \/ Remove(f)
             \/ \E f \in Direct : WriteDirect(f)
    BY <2>1, CallsTyped
  <2>2. CASE \/ JournalIntent \/ InstallGeneration \/ JournalGeneration
             \/ SelectGeneration \/ JournalPointer
    BY <2>2, CommitTyped
  <2>3. CASE \/ \E f \in Files : CopyFile(f)
             \/ CopyGlb \/ CopyJson \/ ClearJournal \/ Prune \/ Repoint
    BY <2>3, MirrorsTyped
  <2>4. CASE Record \/ BuildAtStartup \/ NoBuildAtStartup \/ Restart
    BY <2>4, ServeTyped
  <2>5. CASE CommitRaises \/ MirrorFails \/ RecoveryFails \/ FallBackFails \/ FinishFails \/ Crash
    BY <2>5, FailuresTyped
  <2>6. CASE UNCHANGED vars
    BY <2>6 DEF vars, disk, staging, observed, budget, Typed, DiskTyped, StagingTyped,
       ObservedTyped, BudgetTyped, JobTyped, JobNamed, Working, Pending
  <2> QED BY <2>1, <2>2, <2>3, <2>4, <2>5, <2>6 DEF Next, WorkerStep
<1>3. Typed => TypeOK
  BY TypedIsTypeOK
<1> QED BY <1>1, <1>2, <1>3, PTL DEF Spec

-----------------------------------------------------------------------------
(* The selected generation is on disk *)

NamingSteps ==
  {"journal generation", "pointer", "journal pointer", "files", "json", "repoint", "clear"}

\* From the rename of the staged directory until the journal is cleared, the
\* generation of the course is on disk.
OnDisk == job.at \in NamingSteps => job.pub \in gens

\* What the two invariants say of a step that selects, journals and prunes
\* nothing and leaves the course, or stays in it.
LEMMA Undisturbed ==
  ASSUME OnDisk, SelectedOnDisk, gens' = gens, pointer' = pointer,
         journal'.prior \in {journal.prior, NoPublication},
         \/ job'.at \notin NamingSteps
         \/ job.at \in NamingSteps /\ job'.pub = job.pub
         \/ job'.pub \in gens
  PROVE  OnDisk' /\ SelectedOnDisk'
BY DEF OnDisk, SelectedOnDisk

\* A commit puts its generation on disk before it selects it, and journals as the
\* predecessor what was selected, which is on disk.
LEMMA CommitOnDisk ==
  ASSUME Typed, JobNamed, OnDisk, SelectedOnDisk,
         \/ JournalIntent \/ InstallGeneration \/ JournalGeneration
         \/ SelectGeneration \/ JournalPointer
  PROVE  OnDisk' /\ SelectedOnDisk'
<1>1. job \in Jobs /\ journal \in Journals
  BY BusyJob DEF Typed, DiskTyped, Resting, JournalIntent, InstallGeneration, JournalGeneration,
     SelectGeneration, JournalPointer
<1>2. CASE JournalIntent
  <2>1. job'.at = "generation"
    BY <1>1, <1>2, GotoTyped DEF JournalIntent, Steps, CommitSteps
  <2>2. gens' = gens /\ pointer' = pointer /\ journal'.prior = pointer
    BY <1>2 DEF JournalIntent
  <2> QED BY <2>1, <2>2 DEF OnDisk, SelectedOnDisk, NamingSteps
<1>3. CASE InstallGeneration
  <2>1. job'.pub = job.pub
    BY <1>1, <1>3, GotoTyped DEF InstallGeneration, Steps, CommitSteps
  <2> QED BY <1>3, <2>1 DEF InstallGeneration, OnDisk, SelectedOnDisk
<1>4. CASE JournalGeneration
  <2>1. job'.pub = job.pub
    BY <1>1, <1>4, GotoTyped DEF JournalGeneration, Steps, CommitSteps
  <2>2. journal'.prior = journal.prior
    BY <1>1, <1>4 DEF JournalGeneration, Journals, NoJournal
  <2> QED BY <1>4, <2>1, <2>2, Undisturbed DEF JournalGeneration, NamingSteps
<1>5. CASE SelectGeneration
  <2>1. job'.pub = job.pub
    BY <1>1, <1>5, GotoTyped DEF SelectGeneration, Steps, CommitSteps, Jobs
  <2>2. job.pub \in gens
    BY <1>5 DEF SelectGeneration, OnDisk, NamingSteps
  <2> QED BY <1>5, <2>1, <2>2 DEF SelectGeneration, OnDisk, SelectedOnDisk
<1>6. CASE JournalPointer
  <2>1. job'.pub = job.pub
    BY <1>1, <1>6 DEF JournalPointer, Jobs
  <2>2. journal'.prior = journal.prior
    BY <1>1, <1>6 DEF JournalPointer, Journals, NoJournal
  <2> QED BY <1>6, <2>1, <2>2, Undisturbed DEF JournalPointer, NamingSteps
<1> QED BY <1>2, <1>3, <1>4, <1>5, <1>6

\* Mirrors only read a generation, and a prune keeps the two that are named.
LEMMA MirrorsOnDisk ==
  ASSUME Typed, OnDisk, SelectedOnDisk,
         \/ \E f \in Files : CopyFile(f)
         \/ CopyGlb \/ CopyJson \/ ClearJournal \/ Prune \/ Repoint
  PROVE  OnDisk' /\ SelectedOnDisk'
<1>1. job \in Jobs
  BY BusyJob DEF Typed, Resting, CopyFile, CopyGlb, CopyJson, ClearJournal, Prune, Repoint
<1>2. ASSUME NEW f \in Files, CopyFile(f) PROVE OnDisk' /\ SelectedOnDisk'
  <2>1. job'.pub = job.pub
    BY <1>1, <1>2 DEF CopyFile, Jobs
  <2> QED BY <1>2, <2>1, Undisturbed DEF CopyFile, NamingSteps
<1>3. CASE CopyGlb \/ CopyJson
  <2>1. job'.pub = job.pub
    BY <1>1, <1>3, GotoTyped DEF CopyGlb, CopyJson, Steps, MirrorSteps
  <2> QED BY <1>3, <2>1, Undisturbed DEF CopyGlb, CopyJson, NamingSteps
<1>4. CASE ClearJournal
  <2>1. job'.pub = job.pub
    BY <1>1, <1>4, GotoTyped DEF ClearJournal, AfterClear, Steps
  <2> QED BY <1>4, <2>1, Undisturbed DEF ClearJournal, NoJournal, NamingSteps
<1>5. CASE Prune
  <2>1. job'.at \in {"build", "record"}
    BY <1>1, <1>5, GotoTyped DEF Prune, Steps
  <2> QED BY <1>5, <2>1 DEF Prune, OnDisk, SelectedOnDisk, NamingSteps
<1>6. CASE Repoint
  <2>1. job'.pub = job.pub /\ job.pub \in gens
    BY <1>1, <1>6, GotoTyped DEF Repoint, Steps, OnDisk, NamingSteps
  <2> QED BY <1>6, <2>1 DEF Repoint, OnDisk, SelectedOnDisk
<1> QED BY <1>2, <1>3, <1>4, <1>5, <1>6

\* Everything else that a worker does, or that happens to it.
LEMMA OthersOnDisk ==
  ASSUME Typed, OnDisk, SelectedOnDisk,
         \/ \E f \in Parts : Edit(f) \/ Remove(f)
         \/ \E f \in Direct : WriteDirect(f)
         \/ Record \/ BuildAtStartup \/ NoBuildAtStartup \/ Restart
         \/ CommitRaises \/ MirrorFails \/ RecoveryFails \/ FallBackFails \/ FinishFails
         \/ Crash
  PROVE  OnDisk' /\ SelectedOnDisk'
<1>1. gens' = gens /\ pointer' = pointer /\ journal'.prior \in {journal.prior, NoPublication}
  <2>1. CASE UNCHANGED disk
    BY <2>1 DEF disk
  <2>2. CASE FinishFails
    BY <2>2 DEF FinishFails, NoJournal
  <2>3. CASE \E f \in Direct : WriteDirect(f)
    BY <2>3 DEF WriteDirect
  <2> QED
    BY <2>1, <2>2, <2>3 DEF Edit, Remove, Record, BuildAtStartup, NoBuildAtStartup, Restart,
       CommitRaises, MirrorFails, RecoveryFails, FallBackFails, Crash
<1>2. ASSUME NEW tree, NEW mode, NEW edit, Stage(tree, mode, edit) PROVE job'.at \notin NamingSteps
  BY <1>2 DEF Stage, NamingSteps
<1>3. ASSUME NEW state \in Resting \cup {"record"},
             job' = Rest(state) \/ job' = [Rest(state) EXCEPT !.mode = "startup"]
      PROVE  job'.at \notin NamingSteps
  <2>1. job'.at = state
    BY <1>3 DEF Rest
  <2> QED BY <2>1 DEF Resting, NamingSteps
<1>4. ASSUME ToBuild PROVE job'.at \notin NamingSteps
  BY <1>4, ToBuildTyped DEF NamingSteps
<1>5. ASSUME FallBack PROVE job'.at \notin NamingSteps \/ job'.pub \in gens
  BY <1>5, FallBackTyped DEF NamingSteps, Typed
<1>6. ASSUME Goto("record"), job.at \notin Resting PROVE job'.at \notin NamingSteps
  <2>1. job \in Jobs
    BY <1>6, BusyJob DEF Typed
  <2>2. job'.at = "record"
    BY <1>6, <2>1, GotoTyped DEF Steps
  <2> QED BY <2>2 DEF NamingSteps
<1>7. CASE \/ \E f \in Parts : Edit(f) \/ Remove(f)
           \/ BuildAtStartup
  BY <1>1, <1>2, <1>7, Undisturbed DEF Edit, Remove, BuildAtStartup
<1>8. CASE \E f \in Direct : WriteDirect(f)
  BY <1>1, <1>8 DEF WriteDirect, OnDisk, SelectedOnDisk
<1>9. CASE Record \/ NoBuildAtStartup \/ FallBackFails \/ Crash
  BY <1>1, <1>3, <1>4, <1>9, Undisturbed DEF Record, NoBuildAtStartup, FallBackFails, Crash, Resting
<1>10. CASE CommitRaises \/ MirrorFails \/ RecoveryFails \/ FinishFails
  BY <1>1, <1>3, <1>4, <1>5, <1>6, <1>10, Undisturbed
     DEF CommitRaises, MirrorFails, RecoveryFails, FinishFails, Resting, CommitSteps, MirrorSteps
<1>11. CASE Restart
  <2>1. CASE FallBack \/ ToBuild
    BY <1>1, <1>4, <1>5, <2>1, Undisturbed
  <2>2. CASE pointer \in gens /\ Recovery("current", pointer)
    BY <1>1, <2>2, Undisturbed DEF Recovery
  <2>3. CASE job' = [mode |-> "finish", pub |-> journal.pub, todo |-> {}, edit |-> NoFile,
                  at |-> IF journal.pub \in gens THEN "pointer" ELSE "generation"]
    BY <1>1, <2>3, Undisturbed DEF NamingSteps
  <2> QED BY <1>11, <2>1, <2>2, <2>3 DEF Restart
<1> QED BY <1>7, <1>8, <1>9, <1>10, <1>11

\* The generation of a course and the named ones are on disk.
LEMMA AlwaysOnDisk == Spec => [](OnDisk /\ SelectedOnDisk)
<1>1. Init => OnDisk /\ SelectedOnDisk
  BY DEF Init, Rest, NoJournal, OnDisk, NamingSteps, SelectedOnDisk
<1>2. /\ TypeOK /\ JobNamed /\ OnDisk /\ SelectedOnDisk
      /\ [Next]_vars
      => (OnDisk /\ SelectedOnDisk)'
  <2> SUFFICES ASSUME TypeOK, JobNamed, OnDisk, SelectedOnDisk, [Next]_vars
               PROVE  OnDisk' /\ SelectedOnDisk'
    OBVIOUS
  <2>1. Typed
    BY TypedIsTypeOK
  <2>2. CASE Next
    BY <2>1, <2>2, CommitOnDisk, MirrorsOnDisk, OthersOnDisk DEF Next, WorkerStep
  <2>3. CASE UNCHANGED vars
    BY <2>3 DEF vars, disk, OnDisk, SelectedOnDisk
  <2> QED BY <2>2, <2>3
<1> QED BY <1>1, <1>2, TypeCorrect, PTL DEF Spec

\* No order of the commit's steps, no prune, no failure and no crash leaves
\* current.json or the journal's predecessor naming a generation that is gone.
THEOREM SelectedAlwaysOnDisk == Spec => []SelectedOnDisk
BY AlwaysOnDisk, PTL

-----------------------------------------------------------------------------
(* What the generations hold *)

\* What materializing a generation touches, and what it has touched so far.
Sources(p) == Inputs(content[p]) \cup deletions[p]
Copied(todo) == \A f \in Sources(job.pub) \ todo : ws[f] = content[job.pub][f]

\* The workspace and both root artifacts show the selected generation.
InStep == HasSelected(ws) /\ glb = pointer /\ json = pointer

\* Materializing p leaves no source behind that p lacks.
Covers(p) == \A f \in Parts \ Sources(p) : ws[f] = Absent

\* No refused write is in a tree.
Clean(tree) == \A f \in Parts : tree[f] \notin refused

\* Generations are numbered as they are staged.
Numbered == pointer <= count /\ journal.pub <= count /\ journal.prior <= count

\* Before the first generation is selected there is nothing to revert to.
Unpublished ==
  pointer = NoPublication =>
    /\ \A f \in Parts : ws[f] = Absent
    /\ glb = NoPublication /\ json = NoPublication /\ refused = {}
    /\ journal.prior = NoPublication /\ journal.phase # "pointer"

\* A workspace without a journal is in step.
NoJournalInStep == ~Pending => InStep

UpdatesSelected ==
  failures = 0 => NoLostUpdate /\ (pointer # NoPublication => Covers(pointer))

DirectKept == crashes = 0 => \A f \in Direct : ws[f] = latest[f]

\* Every write has its own number.
Clocked ==
  /\ \A f \in Files : ws[f] <= clock
  /\ \A p \in Publications, f \in Files : content[p][f] <= clock
  /\ \A v \in refused : v <= clock /\ v # Absent

RefusedOut ==
  /\ Clean(ws) /\ Clean(Selected)
  /\ journal.prior # NoPublication => Clean(content[journal.prior])

DiskSound ==
  /\ Numbered /\ Unpublished /\ NoJournalInStep /\ UpdatesSelected
  /\ DirectKept /\ Clocked /\ RefusedOut

At(steps) == job.at \in steps

\* Which course is where, and what it works on.
Courses ==
  /\ job.pub <= count
  /\ At(CommitSteps \cup {"prune"}) => job.mode \in {"edit", "startup", "finish"}
  /\ At(CommitSteps) /\ job.mode = "finish" => pointer = NoPublication
  /\ At({"intent", "journal generation", "journal pointer"}) => job.mode # "finish"
  /\ At({"journal pointer"} \cup MirrorSteps) /\ job.mode \notin FallsBack => job.pub = pointer
  /\ At({"journal pointer", "repoint"} \cup MirrorSteps) => pointer # NoPublication
  /\ At({"repoint"}) => job.mode \in FallsBack
  /\ At({"repoint"} \cup MirrorSteps) /\ job.mode \in FallsBack => Pending
  /\ At({"record"}) /\ job.mode \in {"current", "again"} => ~Pending
  /\ job.mode = "startup" => job.edit = NoFile

\* How far the mirrors of a course are.
Mirroring ==
  /\ At({"files"}) => Copied(job.todo)
  /\ At({"json", "repoint"}) => Copied({}) /\ glb = job.pub
  /\ At({"repoint"}) => json = job.pub
  /\ At({"clear"}) => InStep

\* While nothing has failed: no course falls back, one that ends leaves no journal,
\* and a staged generation differs from the selected one in the edit alone.
Unfailed ==
  failures = 0 =>
    /\ job.mode \notin FallsBack
    /\ At({"idle", "build", "prune", "record", "intent"}) => ~Pending
    /\ At(CommitSteps) => Covers(job.pub)
    /\ At(CommitSteps) /\ job.mode # "finish" =>
         \A f \in Parts \ {job.edit} : content[job.pub][f] = Selected[f]

\* While no worker has died, every generation has the live direct files.
DirectStaged ==
  crashes = 0 =>
    /\ job.mode = "edit" /\ ~At({"down", "build"})
    /\ ~At(Resting) => \A f \in Direct : content[job.pub][f] = ws[f]

\* The write of an edit that is not selected is nowhere else.
EditFresh ==
  job.mode = "edit" /\ ~At(Resting) /\ job.pub # pointer /\ content[job.pub][job.edit] # Absent =>
    /\ \A f \in Parts : content[job.pub][job.edit] \notin {ws[f], Selected[f]}
    /\ journal.prior # NoPublication => \A f \in Parts : content[job.pub][job.edit] # content[journal.prior][f]

CourseClean == job.pub # NoPublication => Clean(content[job.pub])

JobSound ==
  Courses /\ Mirroring /\ Unfailed /\ DirectStaged /\ EditFresh /\ CourseClean

Sound == DiskSound /\ JobSound
Based == Typed /\ JobNamed /\ OnDisk /\ SelectedOnDisk

\* A course goes on at another step.
Moves(step) ==
  job'.at = step /\ job'.mode = job.mode /\ job'.pub = job.pub /\ job'.edit = job.edit

\* The trees and what is observed of them do not change.
Steady ==
  /\ UNCHANGED <<ws, staging, pointer, latest, refused, clock>>
  /\ failures' = 0 => failures = 0
  /\ crashes' = 0 => crashes = 0

LEMMA SteadyKeeps ==
  ASSUME Steady
  PROVE  /\ Selected' = Selected
         /\ \A p : Sources(p)' = Sources(p)
         /\ HasSelected(ws) => HasSelected(ws)'
         /\ UpdatesSelected => UpdatesSelected'
         /\ DirectKept => DirectKept'
         /\ Clocked => Clocked'
         /\ \A p : Covers(p)' <=> Covers(p)
BY DEF Steady, staging, Selected, Sources, Inputs, HasSelected, UpdatesSelected, NoLostUpdate, Covers,
   DirectKept, Clocked

\* A step that changes nothing on disk but the directories of the generations.
LEMMA DiskKept ==
  ASSUME DiskSound, Steady, UNCHANGED <<glb, json, journal>>
  PROVE  DiskSound'
<1> USE DEF DiskSound
<1>1. UpdatesSelected' /\ DirectKept' /\ Clocked'
  BY SteadyKeeps
<1>2. Numbered' /\ Unpublished'
  BY DEF Steady, staging, Numbered, Unpublished
<1>3. NoJournalInStep'
  BY SteadyKeeps DEF NoJournalInStep, InStep, Pending, Steady
<1>4. RefusedOut'
  BY SteadyKeeps DEF RefusedOut, Clean, Steady, staging
<1> QED BY <1>1, <1>2, <1>3, <1>4

\* A worker that rests or is about to build or to end has nothing to account for.
LEMMA RestSound ==
  ASSUME Typed', job'.at \in Resting \cup {"build", "record"}, job'.pub = NoPublication,
         \/ job'.mode = "startup"
         \/ job'.mode = "edit" /\ job'.at \in Resting,
         job'.edit = NoFile,
         failures' = 0 /\ job'.at # "down" => ~Pending',
         crashes' = 0 => job'.at = "idle" /\ job'.mode = "edit"
  PROVE  JobSound'
<1>1. Courses'
  <2>1. job'.pub <= count'
    BY DEF Typed, StagingTyped, NoPublication
  <2> QED BY <2>1 DEF Courses, At, Resting, CommitSteps, MirrorSteps
<1>2. Mirroring' /\ Unfailed'
  BY DEF Mirroring, Unfailed, At, Resting, CommitSteps, FallsBack
<1>3. DirectStaged' /\ EditFresh' /\ CourseClean'
  BY DEF DirectStaged, EditFresh, CourseClean, At, Resting
<1> QED BY <1>1, <1>2, <1>3 DEF JobSound

-----------------------------------------------------------------------------
(* The steps of a commit *)

LEMMA JournalIntentSound ==
  ASSUME Based, Typed', Sound, JournalIntent PROVE Sound'
<1> USE DEF Based, Sound, DiskSound, JobSound
<1>1. job \in Jobs /\ job.pub \in Publications /\ job.at = "intent"
  BY BusyJob DEF Typed, JournalIntent, Resting, JobNamed, Working
<1>2. Moves("generation") /\ job' \in Jobs
  BY <1>1, GotoTyped DEF JournalIntent, Steps, CommitSteps, Moves
<1>3. /\ journal'.pub = job.pub /\ journal'.prior = pointer /\ journal'.phase = "intent" /\ Pending'
  BY <1>1 DEF JournalIntent, Pending, NoJournal
<1>4. Steady /\ UNCHANGED <<glb, json>>
  BY DEF JournalIntent, Steady, staging, observed, budget
<1>5. DiskSound'
  <2>1. Numbered' /\ Unpublished'
    BY <1>3, <1>4 DEF Numbered, Courses, Unpublished, Steady, staging
  <2>2. RefusedOut'
    BY <1>3, <1>4, SteadyKeeps DEF RefusedOut, Clean, Steady, staging, Selected
  <2> QED BY <1>3, <1>4, <2>1, <2>2, SteadyKeeps DEF NoJournalInStep
<1>6. Courses' /\ Mirroring'
  BY <1>1, <1>2, <1>4 DEF Courses, Mirroring, Moves, At, CommitSteps, MirrorSteps, Steady, staging
<1>7. Unfailed'
  BY <1>1, <1>2, <1>4, SteadyKeeps DEF Unfailed, Moves, At, CommitSteps, Steady, staging
<1>8. DirectStaged' /\ CourseClean'
  BY <1>1, <1>2, <1>4 DEF DirectStaged, CourseClean, Moves, At, Resting, Clean, Steady, staging
<1>9. EditFresh'
  BY <1>1, <1>2, <1>3, <1>4, SteadyKeeps DEF EditFresh, Moves, At, Resting, Steady, staging, Selected
<1> QED BY <1>5, <1>6, <1>7, <1>8, <1>9

\* The steps of the journal and of the directory.
LEMMA JournalStepsSound ==
  ASSUME Based, Typed', Sound, InstallGeneration \/ JournalGeneration \/ JournalPointer
  PROVE  Sound'
<1> USE DEF Based, Sound, DiskSound, JobSound
<1>1. /\ job \in Jobs /\ job.pub \in Publications
      /\ job.at \in {"generation", "journal generation", "journal pointer"} /\ Pending
  BY BusyJob DEF Typed, InstallGeneration, JournalGeneration, JournalPointer, Resting, JobNamed, Working
<1>2. PICK step \in {"journal generation", "pointer", "files"} : Moves(step)
      /\ (step = "files" => job.at = "journal pointer" /\ job'.todo = Sources(job.pub))
      /\ (step = "journal generation" => job.mode # "finish")
  <2>1. CASE InstallGeneration \/ JournalGeneration
    BY <1>1, <2>1, GotoTyped DEF InstallGeneration, JournalGeneration, Steps, CommitSteps, Moves
  <2>2. CASE JournalPointer
    BY <1>1, <2>2 DEF JournalPointer, Moves, Jobs, Sources
  <2> QED BY <2>1, <2>2
<1>3. /\ journal'.pub = journal.pub /\ journal'.prior = journal.prior /\ Pending'
      /\ journal'.phase = journal.phase \/ job.at = "journal pointer" \/ journal'.phase = "generation"
  <2>1. journal \in Journals /\ journal # NoJournal
    BY <1>1 DEF Typed, DiskTyped, Pending
  <2>2. CASE InstallGeneration
    BY <1>1, <2>2 DEF InstallGeneration, Pending
  <2>3. CASE JournalGeneration
    BY <2>1, <2>3 DEF JournalGeneration, Pending, NoJournal, Journals
  <2>4. CASE JournalPointer
    BY <2>1, <2>4 DEF JournalPointer, Pending, NoJournal, Journals
  <2> QED BY <2>2, <2>3, <2>4
<1>4. Steady /\ UNCHANGED <<glb, json>>
  BY DEF InstallGeneration, JournalGeneration, JournalPointer, Steady, staging, observed, budget
<1>5. DiskSound'
  <2>1. Numbered' /\ Unpublished'
    BY <1>1, <1>3, <1>4 DEF Numbered, Courses, Unpublished, Steady, staging, At
  <2>2. RefusedOut'
    BY <1>3, <1>4, SteadyKeeps DEF RefusedOut, Clean, Steady, staging, Selected
  <2> QED BY <1>3, <1>4, <2>1, <2>2, SteadyKeeps DEF NoJournalInStep
<1>6. Courses'
  BY <1>1, <1>2, <1>3, <1>4 DEF Courses, Moves, At, CommitSteps, MirrorSteps, FallsBack, Steady, staging
<1>7. Mirroring'
  BY <1>1, <1>2, <1>4, SteadyKeeps DEF Mirroring, Copied, Moves, At, Steady, staging
<1>8. Unfailed'
  BY <1>1, <1>2, <1>4, SteadyKeeps DEF Unfailed, Moves, At, CommitSteps, Steady, staging
<1>9. DirectStaged' /\ CourseClean'
  BY <1>1, <1>2, <1>4 DEF DirectStaged, CourseClean, Moves, At, Resting, Clean, Steady, staging
<1>10. EditFresh'
  BY <1>1, <1>2, <1>3, <1>4, SteadyKeeps DEF EditFresh, Moves, At, Resting, Steady, staging, Selected
<1> QED BY <1>5, <1>6, <1>7, <1>8, <1>9, <1>10

\* The commit point: the selected generation is now the staged one, whose sources
\* other than the edited one are those that were selected before.
LEMMA SelectSound ==
  ASSUME Based, Typed', Sound, PublicationAssumption, SelectGeneration PROVE Sound'
<1> USE DEF Based, Sound, DiskSound, JobSound
<1>1. job \in Jobs /\ job.pub \in Publications /\ job.at = "pointer" /\ Pending /\ pointer' = job.pub
  BY BusyJob DEF Typed, SelectGeneration, Resting, JobNamed, Working
<1>0. job.pub # NoPublication
  BY <1>1 DEF Publications, NoPublication
<1>2. PICK step \in {"journal pointer", "files"} : Moves(step)
      /\ (step = "files" => job.mode = "finish" /\ job'.todo = Sources(job.pub))
      /\ (step = "journal pointer" => job.mode # "finish")
  <2>1. CASE job.mode = "finish"
    BY <1>0, <1>1, <2>1 DEF SelectGeneration, Moves, Jobs, Sources
  <2>2. CASE job.mode # "finish"
    BY <1>0, <1>1, <2>2, GotoTyped DEF SelectGeneration, Moves, Steps, CommitSteps
  <2> QED BY <2>1, <2>2
<1>3. UNCHANGED <<ws, glb, json, journal, staging, refused, clock, crashes, failures>> /\ Pending'
  BY <1>1 DEF SelectGeneration, budget, Pending
<1>4. Selected' = content[job.pub]
  BY <1>0, <1>1, <1>3 DEF Selected, staging
<1>5. Numbered' /\ Unpublished' /\ NoJournalInStep' /\ Clocked'
  BY <1>0, <1>1, <1>3 DEF Numbered, Unpublished, NoJournalInStep, Clocked, Courses, staging
<1>6. UpdatesSelected'
  <2> SUFFICES ASSUME failures = 0
               PROVE  /\ \A f \in Parts : content[job.pub][f] = latest'[f]
                      /\ Covers(job.pub)
    BY <1>0, <1>1, <1>3, <1>4 DEF UpdatesSelected, NoLostUpdate, Covers, Sources, staging, Inputs
  <2>1. Covers(job.pub)
    BY <1>1 DEF Unfailed, At, CommitSteps
  <2>2. ASSUME NEW f \in Parts PROVE content[job.pub][f] = latest'[f]
    <3>1. latest'[f] = IF f = job.edit \/ job.mode = "finish" THEN content[job.pub][f] ELSE latest[f]
      BY DEF SelectGeneration, Files
    <3>2. job.mode # "finish" /\ f # job.edit => content[job.pub][f] = Selected[f]
      BY <1>1 DEF Unfailed, At, CommitSteps
    <3> QED BY <3>1, <3>2 DEF UpdatesSelected, NoLostUpdate
  <2> QED BY <2>1, <2>2
<1>7. DirectKept' /\ DirectStaged'
  <2> SUFFICES ASSUME crashes = 0 PROVE DirectKept' /\ DirectStaged'
    BY <1>3 DEF DirectKept, DirectStaged
  <2>1. job.mode = "edit" /\ job.edit \in Parts /\ \A f \in Direct : content[job.pub][f] = ws[f]
    BY <1>1 DEF DirectStaged, At, Resting, JobNamed
  <2>2. \A f \in Direct : f # job.edit /\ latest'[f] = latest[f]
    BY <2>1 DEF SelectGeneration, Files, PublicationAssumption
  <2>3. DirectKept'
    BY <1>3, <2>2 DEF DirectKept
  <2> QED BY <1>2, <1>3, <2>1, <2>3 DEF DirectStaged, Moves, At, staging
<1>8. RefusedOut' /\ CourseClean'
  BY <1>0, <1>1, <1>2, <1>3, <1>4 DEF RefusedOut, CourseClean, Clean, Moves, staging
<1>9. Courses'
  BY <1>0, <1>1, <1>2, <1>3 DEF Courses, Moves, At, CommitSteps, MirrorSteps, FallsBack, staging
<1>10. Mirroring'
  BY <1>0, <1>1, <1>2, <1>3 DEF Mirroring, Copied, Moves, At, staging, Sources
<1>11. Unfailed'
  BY <1>0, <1>1, <1>2, <1>3, <1>4 DEF Unfailed, Covers, Sources, Inputs, Moves, At, CommitSteps, staging
<1>12. EditFresh'
  BY <1>0, <1>1, <1>2 DEF EditFresh, Moves
<1> QED BY <1>5, <1>6, <1>7, <1>8, <1>9, <1>10, <1>11, <1>12

-----------------------------------------------------------------------------
(* The mirrors *)

\* A copied file is as in the generation of the course, which is the selected one
\* unless recovery falls back.
LEMMA CopyFileSound ==
  ASSUME Based, Typed', Sound, NEW f \in Files, CopyFile(f) PROVE Sound'
<1> USE DEF Based, Sound, DiskSound, JobSound
<1>1. job \in Jobs /\ job.pub \in Publications /\ job.at = "files" /\ pointer # NoPublication
  BY BusyJob DEF Typed, CopyFile, Resting, JobNamed, Working, Courses, At, MirrorSteps
<1>2. Moves("files") /\ job'.todo = job.todo \ {f}
  BY <1>1 DEF CopyFile, Moves, Jobs
<1>3. UNCHANGED <<glb, json, gens, pointer, journal, staging, latest, refused, clock, crashes, failures>>
  BY DEF CopyFile, observed, budget
<1>4. ws' = [ws EXCEPT ![f] = content[job.pub][f]] /\ ws'[f] = content[job.pub][f]
      /\ \A g \in Files \ {f} : ws'[g] = ws[g]
  BY DEF CopyFile, Typed, DiskTyped
<1>5. Selected' = Selected /\ (job.pub = pointer => Selected = content[job.pub])
  BY <1>1, <1>3 DEF Selected, staging
<1>6. job.mode \notin FallsBack => job.pub = pointer
  BY <1>1 DEF Courses, At, MirrorSteps
<1>7. Parts \subseteq Files /\ Direct \subseteq Files
  BY DEF Files
<1>8. Numbered' /\ Unpublished'
  BY <1>1, <1>3 DEF Numbered, Unpublished, staging
<1>9. NoJournalInStep'
  <2> SUFFICES ASSUME ~Pending, InStep PROVE InStep'
    BY <1>3 DEF NoJournalInStep, Pending
  <2>1. job.pub = pointer
    BY <1>1, <1>6 DEF Courses, At, MirrorSteps
  <2>2. HasSelected(ws)'
    BY <1>3, <1>4, <1>5, <1>7, <2>1 DEF InStep, HasSelected, Inputs
  <2> QED BY <1>3, <2>2 DEF InStep
<1>10. UpdatesSelected'
  <2> SUFFICES ASSUME failures = 0 PROVE NoLostUpdate' /\ Covers(pointer)'
    BY <1>3 DEF UpdatesSelected
  <2>1. job.pub = pointer /\ Covers(pointer) /\ NoLostUpdate
    BY <1>1, <1>6 DEF Unfailed, UpdatesSelected
  <2>2. NoLostUpdate'
    BY <1>3, <1>5, <2>1 DEF NoLostUpdate
  <2>3. f \notin Sources(pointer) => content[pointer][f] = Absent
    BY DEF Sources, Inputs
  <2>4. Covers(pointer)'
    BY <1>3, <1>4, <1>7, <2>1, <2>3 DEF Covers, Sources, Inputs, staging
  <2> QED BY <2>2, <2>4
<1>11. DirectKept' /\ DirectStaged'
  <2> SUFFICES ASSUME crashes = 0 PROVE DirectKept' /\ DirectStaged'
    BY <1>3 DEF DirectKept, DirectStaged
  <2>1. \A g \in Direct : content[job.pub][g] = ws[g] /\ ws[g] = latest[g]
    BY <1>1 DEF DirectStaged, DirectKept, At, Resting
  <2>2. \A g \in Direct : ws'[g] = ws[g]
    BY <1>4, <1>7, <2>1
  <2> QED BY <1>1, <1>2, <1>3, <2>1, <2>2 DEF DirectKept, DirectStaged, Moves, At, staging
<1>12. Clocked'
  BY <1>1, <1>3, <1>4 DEF Clocked, staging
<1>13. RefusedOut' /\ CourseClean'
  <2>1. job.pub # NoPublication
    BY <1>1 DEF Publications, NoPublication
  <2>2. Clean(content[job.pub]) /\ Clean(ws)
    BY <2>1 DEF CourseClean, RefusedOut
  <2>3. Clean(ws)'
    BY <1>3, <1>4, <1>7, <2>2 DEF Clean
  <2> QED BY <1>2, <1>3, <1>5, <2>3 DEF RefusedOut, CourseClean, Clean, Moves, staging
<1>14. Courses'
  BY <1>1, <1>2, <1>3 DEF Courses, Moves, At, CommitSteps, MirrorSteps, FallsBack, staging, Pending
<1>15. Mirroring'
  BY <1>1, <1>2, <1>3, <1>4 DEF Mirroring, Copied, Sources, Inputs, Moves, At, staging, Typed, StagingTyped
<1>16. Unfailed'
  BY <1>1, <1>2, <1>3 DEF Unfailed, Moves, At, CommitSteps
<1>17. EditFresh'
  BY <1>1, <1>2, <1>3, <1>6 DEF EditFresh, Moves, FallsBack
<1> QED BY <1>8, <1>9, <1>10, <1>11, <1>12, <1>13, <1>14, <1>15, <1>16, <1>17

\* The steps that change no file of the workspace and leave the journal.
LEMMA ArtifactsSound ==
  ASSUME Based, Typed', Sound, CopyGlb \/ CopyJson \/ Prune PROVE Sound'
<1> USE DEF Based, Sound, DiskSound, JobSound
<1>1. job \in Jobs /\ job.pub \in Publications /\ job.at \in {"files", "json", "prune"}
  BY BusyJob DEF Typed, CopyGlb, CopyJson, Prune, Resting, JobNamed, Working
<1>2. PICK step \in {"json", "repoint", "clear", "build", "record"} :
        /\ Moves(step)
        /\ step = "json" => CopyGlb
        /\ step = "repoint" => CopyJson /\ job.mode \in FallsBack
        /\ step = "clear" => CopyJson /\ job.mode \notin FallsBack
        /\ step \in {"build", "record"} => Prune
        /\ step = "build" => job.mode = "finish"
        /\ step = "record" => job.mode # "finish"
  <2>1. CASE CopyGlb
    BY <1>1, <2>1, GotoTyped DEF CopyGlb, Steps, MirrorSteps, Moves
  <2>2. CASE CopyJson
    BY <1>1, <2>2, GotoTyped DEF CopyJson, Steps, MirrorSteps, Moves
  <2>3. CASE Prune
    BY <1>1, <2>3, GotoTyped DEF Prune, Steps, MirrorSteps, Moves
  <2> QED BY <2>1, <2>2, <2>3
<1>3. Steady /\ UNCHANGED <<journal, crashes, failures>> /\ Pending' = Pending
  BY DEF CopyGlb, CopyJson, Prune, Steady, staging, observed, budget, Pending
<1>4. /\ CopyGlb => job.at = "files" /\ job.todo = {} /\ glb' = job.pub /\ json' = json
      /\ CopyJson => job.at = "json" /\ glb' = glb /\ json' = job.pub
      /\ Prune => job.at = "prune" /\ glb' = glb /\ json' = json
  BY DEF CopyGlb, CopyJson, Prune
<1>5. job.at \in MirrorSteps => pointer # NoPublication
  BY DEF Courses, At
<1>6. job.at \in MirrorSteps /\ job.mode \notin FallsBack => job.pub = pointer
  BY DEF Courses, At
<1>7. Numbered' /\ Unpublished'
  BY <1>1, <1>3, <1>4, <1>5 DEF Numbered, Unpublished, Steady, staging, MirrorSteps
<1>8. NoJournalInStep'
  <2> SUFFICES ASSUME ~Pending, InStep PROVE InStep'
    BY <1>3 DEF NoJournalInStep
  <2>1. job.at \in MirrorSteps => job.pub = pointer
    BY <1>6 DEF Courses, At, MirrorSteps
  <2> QED BY <1>2, <1>3, <1>4, <2>1, SteadyKeeps DEF InStep, MirrorSteps, Steady
<1>9. RefusedOut'
  BY <1>3, SteadyKeeps DEF RefusedOut, Clean, Steady, staging
<1>10. Courses'
  BY <1>1, <1>2, <1>3, <1>4, <1>5, <1>6 DEF Courses, Moves, At, CommitSteps, MirrorSteps, FallsBack, Steady, staging
<1>11. Mirroring'
  <2>1. CASE Moves("clear") /\ CopyJson
    <3>1. job.pub = pointer /\ Copied({}) /\ glb = job.pub
      BY <1>2, <1>4, <1>6, <2>1 DEF Mirroring, At, MirrorSteps, Moves
    <3>2. HasSelected(ws)
      <4> SUFFICES ASSUME NEW f \in Parts, f \in Inputs(Selected) \/ failures = 0
                   PROVE  ws[f] = Selected[f]
        BY DEF HasSelected
      <4>1. pointer # NoPublication /\ Selected = content[pointer] /\ Parts \subseteq Files
        BY <1>4, <1>5, <2>1 DEF Selected, MirrorSteps, Files
      <4>2. CASE f \in Sources(pointer)
        BY <3>1, <4>1, <4>2 DEF Copied
      <4>3. CASE f \notin Sources(pointer)
        <5>1. failures = 0 /\ content[pointer][f] = Absent
          BY <4>1, <4>3 DEF Sources, Inputs
        <5>2. ws[f] = Absent
          BY <4>1, <4>3, <5>1 DEF UpdatesSelected, Covers
        <5> QED BY <4>1, <5>1, <5>2
      <4> QED BY <4>2, <4>3
    <3>3. InStep'
      BY <1>3, <1>4, <2>1, <3>1, <3>2, SteadyKeeps DEF InStep, Steady
    <3> QED BY <2>1, <3>3 DEF Mirroring, Moves, At
  <2>2. CASE ~(Moves("clear") /\ CopyJson)
    BY <1>2, <1>3, <1>4, <2>2, SteadyKeeps DEF Mirroring, Copied, Moves, At, Steady, staging
  <2> QED BY <2>1, <2>2
<1>12. Unfailed'
  BY <1>1, <1>2, <1>3, <1>4 DEF Unfailed, Moves, At, CommitSteps
<1>13. DirectStaged' /\ CourseClean'
  BY <1>1, <1>2, <1>3 DEF DirectStaged, CourseClean, Moves, At, Resting, Clean, Steady, staging
<1>14. EditFresh'
  BY <1>1, <1>2, <1>3, SteadyKeeps DEF EditFresh, Moves, At, Resting, Steady, staging, Selected
<1> QED BY <1>3, <1>7, <1>8, <1>9, <1>10, <1>11, <1>12, <1>13, <1>14, SteadyKeeps

\* The journal is cleared when the workspace is in step.
LEMMA ClearJournalSound ==
  ASSUME Based, Typed', Sound, ClearJournal PROVE Sound'
<1> USE DEF Based, Sound, DiskSound, JobSound
<1>1. job \in Jobs /\ job.pub \in Publications /\ job.at = "clear"
  BY BusyJob DEF Typed, ClearJournal, Resting, JobNamed, Working
<1>2. PICK step \in {"prune", "record", "build"} :
        /\ Moves(step)
        /\ step = "prune" <=> job.mode \in {"edit", "startup", "finish"}
  BY <1>1, GotoTyped DEF ClearJournal, AfterClear, Steps, Moves
<1>3. Steady /\ UNCHANGED <<glb, json, crashes, failures>> /\ ~Pending'
  BY DEF ClearJournal, Steady, staging, observed, budget, Pending
<1>4. journal'.pub = NoPublication /\ journal'.prior = NoPublication /\ journal'.phase = "none"
  BY DEF ClearJournal, NoJournal
<1>5. Numbered' /\ Unpublished'
  <2>1. count \in Nat
    BY DEF Typed, StagingTyped
  <2> QED BY <1>3, <1>4, <2>1 DEF Numbered, Unpublished, Steady, staging, NoPublication
<1>6. NoJournalInStep'
  BY <1>1, <1>3, SteadyKeeps DEF NoJournalInStep, Mirroring, At, InStep, Steady
<1>7. RefusedOut'
  BY <1>3, <1>4, SteadyKeeps DEF RefusedOut, Clean, Steady, staging
<1>8. Courses' /\ Mirroring'
  BY <1>1, <1>2, <1>3 DEF Courses, Mirroring, Moves, At, CommitSteps, MirrorSteps, Steady, staging
<1>9. Unfailed'
  BY <1>1, <1>2, <1>3 DEF Unfailed, Moves, At, CommitSteps
<1>10. DirectStaged' /\ CourseClean'
  BY <1>1, <1>2, <1>3 DEF DirectStaged, CourseClean, Moves, At, Resting, Clean, Steady, staging
<1>11. EditFresh'
  BY <1>1, <1>2, <1>3, <1>4, SteadyKeeps DEF EditFresh, Moves, At, Resting, Steady, staging, Selected
<1> QED BY <1>3, <1>5, <1>6, <1>7, <1>8, <1>9, <1>10, <1>11, SteadyKeeps

\* The pointer moves back to what has been materialized.
LEMMA RepointSound ==
  ASSUME Based, Typed', Sound, Repoint PROVE Sound'
<1> USE DEF Based, Sound, DiskSound, JobSound
<1>1. /\ job \in Jobs /\ job.pub \in Publications /\ job.pub # NoPublication /\ job.at = "repoint"
      /\ job.mode \in FallsBack
  BY BusyJob DEF Typed, Repoint, Resting, JobNamed, Working, Publications, NoPublication, Courses, At
<1>2. Moves("clear")
  BY <1>1, GotoTyped DEF Repoint, Steps, Moves
<1>3. /\ pointer' = job.pub
      /\ UNCHANGED <<ws, glb, json, gens, journal, staging, latest, refused, clock, crashes, failures>>
  BY DEF Repoint, observed, budget
<1>4. failures # 0
  BY <1>1 DEF Unfailed
<1>5. Selected' = content[job.pub]
  BY <1>1, <1>3 DEF Selected, staging
<1>6. Copied({}) /\ glb = job.pub /\ json = job.pub /\ Pending
  BY <1>1 DEF Mirroring, Courses, At
<1>7. InStep'
  <2> SUFFICES HasSelected(ws)'
    BY <1>3, <1>6 DEF InStep
  <2> SUFFICES ASSUME NEW f \in Parts, f \in Inputs(content[job.pub]) PROVE ws[f] = content[job.pub][f]
    BY <1>3, <1>4, <1>5 DEF HasSelected, Inputs
  <2> QED BY <1>6 DEF Copied, Sources
<1>8. Numbered' /\ Unpublished' /\ NoJournalInStep' /\ UpdatesSelected' /\ DirectKept' /\ Clocked'
  BY <1>1, <1>3, <1>4, <1>7 DEF Numbered, Unpublished, NoJournalInStep, UpdatesSelected, DirectKept, Clocked,
     Courses, staging
<1>9. RefusedOut' /\ CourseClean'
  BY <1>1, <1>2, <1>3, <1>5 DEF RefusedOut, CourseClean, Clean, Moves, staging
<1>10. Courses' /\ Mirroring'
  BY <1>1, <1>2, <1>3, <1>7 DEF Courses, Mirroring, Moves, At, CommitSteps, MirrorSteps, staging
<1>11. Unfailed' /\ DirectStaged' /\ EditFresh'
  BY <1>1, <1>2, <1>3, <1>4 DEF Unfailed, DirectStaged, EditFresh, Moves, FallsBack
<1> QED BY <1>8, <1>9, <1>10, <1>11

-----------------------------------------------------------------------------
(* Calls, the build at startup and what is written directly *)

\* A staged tree is the live workspace but for the edited source, and a write in it
\* has a number that nothing else has.
LEMMA StageSound ==
  ASSUME Based, Typed', Sound, PublicationAssumption,
         NEW tree \in [Files -> Versions], NEW mode \in {"edit", "startup"}, NEW edit,
         Stage(tree, mode, edit), UNCHANGED <<disk, observed, crashes, failures>>, clock <= clock',
         job.at \in {"idle", "build"}, crashes = 0 => mode = "edit",
         \A f \in Files : tree[f] <= clock' /\ (f # edit => tree[f] = ws[f]),
         mode = "startup" => edit = NoFile /\ tree = ws,
         mode = "edit" => edit \in Parts /\ (tree[edit] = Absent \/ clock < tree[edit])
  PROVE  Sound'
<1> USE DEF Based, Sound, DiskSound, JobSound
<1>0. count' \in Publications
  BY DEF Stage, Typed, StagingTyped, Publications, PublicationAssumption
<1> PICK p \in Publications : p = count'
  BY <1>0
<1>1. /\ count \in Nat /\ count' = p /\ p = count + 1 /\ p > count /\ p # NoPublication
      /\ clock \in Nat /\ clock' \in Nat
      /\ pointer \in Nat /\ journal.pub \in Nat /\ journal.prior \in Nat
  <2>1. count \in Nat /\ count' = p /\ p = count + 1 /\ clock \in Nat /\ clock' \in Nat /\ pointer \in Nat
    BY DEF Stage, Typed, DiskTyped, StagingTyped, BudgetTyped, Publications, Versions, NoPublication
  <2>2. journal.pub \in Nat /\ journal.prior \in Nat
    BY DEF Typed, DiskTyped, Journals, NoJournal, Publications, NoPublication
  <2> QED BY <2>1, <2>2 DEF NoPublication
<1>2. /\ content' = [content EXCEPT ![p] = tree] /\ content'[p] = tree
      /\ deletions'[p] = SelectedInputs \ Inputs(tree)
      /\ \A q \in Publications : q <= count => content'[q] = content[q] /\ deletions'[q] = deletions[q]
  BY <1>1 DEF Stage, Typed, StagingTyped
<1>3. /\ job'.at = "intent" /\ job'.mode = mode /\ job'.pub = p /\ job'.edit = edit
  BY <1>1 DEF Stage
<1>4. /\ UNCHANGED <<ws, glb, json, pointer, journal, recorded, latest, refused>>
      /\ Pending' = Pending
  BY DEF disk, observed, Pending
<1>5. pointer # NoPublication => /\ pointer \in Publications /\ content'[pointer] = content[pointer]
                                 /\ deletions'[pointer] = deletions[pointer]
  BY <1>2 DEF Typed, DiskTyped, Numbered
<1>6. journal.prior # NoPublication => content'[journal.prior] = content[journal.prior]
  <2>1. journal.prior # NoPublication => journal.prior \in gens
    BY DEF SelectedOnDisk
  <2> QED BY <1>2, <2>1 DEF Typed, DiskTyped, Numbered
<1>7. Selected' = Selected
  BY <1>4, <1>5 DEF Selected
<1>8. Parts \subseteq Files /\ Direct \subseteq Files /\ Parts \cap Direct = {}
  BY DEF Files, PublicationAssumption
<1>9. Numbered' /\ Unpublished'
  BY <1>1, <1>4 DEF Numbered, Unpublished
<1>10. NoJournalInStep' /\ DirectKept'
  BY <1>4, <1>7 DEF NoJournalInStep, InStep, HasSelected, Inputs, DirectKept
<1>11. UpdatesSelected'
  BY <1>4, <1>5, <1>7 DEF UpdatesSelected, NoLostUpdate, Covers, Sources, Inputs
<1>12. Clocked'
  <2>1. \A f \in Files : ws[f] \in Nat /\ \A q \in Publications : content[q][f] \in Nat
    BY DEF Typed, DiskTyped, StagingTyped, Versions
  <2>2. \A v \in refused : v \in Nat
    BY DEF Typed, ObservedTyped, Versions
  <2>3. \A q \in Publications, f \in Files : content'[q][f] <= clock'
    BY <1>1, <1>2, <2>1 DEF Clocked, Typed, StagingTyped
  <2> QED BY <1>1, <1>4, <2>1, <2>2, <2>3 DEF Clocked
<1>13. RefusedOut'
  BY <1>4, <1>6, <1>7 DEF RefusedOut, Clean
<1>14. Courses' /\ Mirroring'
  <2>1. job'.pub <= count'
    BY <1>1, <1>3
  <2> QED BY <1>3, <2>1 DEF Courses, Mirroring, At, CommitSteps, MirrorSteps, FallsBack
<1>15. Unfailed'
  <2> SUFFICES ASSUME failures = 0 PROVE Unfailed'
    BY DEF Unfailed
  <2>1. ~Pending /\ HasSelected(ws)
    BY DEF Unfailed, At, NoJournalInStep, InStep
  <2>2. \A f \in Parts : ws[f] = Selected[f]
    BY <2>1 DEF HasSelected
  <2>3. \A f \in Parts \ {edit} : tree[f] = Selected[f]
    BY <1>8, <2>2
  <2>4. ASSUME NEW f \in Parts, f \notin Inputs(tree), f \notin SelectedInputs PROVE ws[f] = Absent
    <3>1. CASE pointer = NoPublication
      BY <3>1 DEF Unpublished
    <3>2. CASE pointer # NoPublication
      BY <1>8, <2>2, <2>4, <3>2 DEF SelectedInputs, Inputs, Selected
    <3> QED BY <3>1, <3>2
  <2>5. Covers(p)'
    BY <1>2, <1>4, <1>8, <2>4 DEF Covers, Sources, Inputs
  <2> QED BY <1>2, <1>3, <1>4, <1>7, <2>1, <2>3, <2>5 DEF Unfailed, FallsBack, Covers, Sources, Inputs
<1>16. DirectStaged'
  BY <1>2, <1>3, <1>4, <1>8 DEF DirectStaged, At
<1>17. EditFresh'
  <2> SUFFICES ASSUME mode = "edit", tree[edit] # Absent
               PROVE  /\ \A f \in Parts : tree[edit] \notin {ws[f], Selected[f]}
                      /\ journal.prior # NoPublication => \A f \in Parts : tree[edit] # content[journal.prior][f]
    BY <1>2, <1>3, <1>4, <1>6, <1>7 DEF EditFresh
  <2>1. clock < tree[edit] /\ tree[edit] \in Nat
    BY <1>8 DEF Versions
  <2>2. \A f \in Parts : ws[f] \in Nat /\ ws[f] <= clock
    BY <1>8 DEF Clocked, Typed, DiskTyped, Versions
  <2>3. \A q \in Publications, f \in Parts : content[q][f] \in Nat /\ content[q][f] <= clock
    BY <1>8 DEF Clocked, Typed, StagingTyped, Versions
  <2>4. \A f \in Parts : Selected[f] \in Nat /\ Selected[f] <= clock
    BY <1>1, <1>5, <1>8, <2>3 DEF Selected, Empty, Absent
  <2>5. journal.prior # NoPublication => journal.prior \in Publications
    BY DEF SelectedOnDisk, Typed, DiskTyped
  <2> QED BY <1>1, <2>1, <2>2, <2>3, <2>4, <2>5
<1>18. CourseClean'
  <2>1. clock < tree[edit] => tree[edit] \notin refused \/ edit \notin Parts
    <3>1. \A v \in refused : v \in Nat /\ v <= clock
      BY DEF Clocked, Typed, ObservedTyped, Versions
    <3>2. edit \in Parts => tree[edit] \in Nat
      BY <1>8 DEF Versions
    <3> QED BY <1>1, <3>1, <3>2
  <2>2. \A f \in Parts : tree[f] \notin refused
    BY <1>8, <2>1 DEF RefusedOut, Clean, Clocked
  <2> QED BY <1>2, <1>3, <1>4, <2>2 DEF CourseClean, Clean
<1> QED BY <1>9, <1>10, <1>11, <1>12, <1>13, <1>14, <1>15, <1>16, <1>17, <1>18

LEMMA CallsSound ==
  ASSUME Based, Typed', Sound, PublicationAssumption,
         \/ \E f \in Parts : Edit(f) \/ Remove(f)
         \/ BuildAtStartup
  PROVE  Sound'
<1> USE DEF Based
<1>1. /\ ws \in [Files -> Versions] /\ clock \in Nat /\ Parts \subseteq Files
      /\ \A f \in Files : ws[f] \in Nat /\ ws[f] <= clock
  BY DEF Typed, DiskTyped, BudgetTyped, Versions, Files, Sound, DiskSound, Clocked
<1>2. ASSUME NEW f \in Parts, Edit(f) PROVE Sound'
  <2> DEFINE tree == [ws EXCEPT ![f] = clock']
  <2>1. clock' = clock + 1 /\ clock' \in Versions /\ job.at = "idle"
    BY <1>1, <1>2 DEF Edit, Versions, PublicationAssumption
  <2>2. /\ tree \in [Files -> Versions] /\ tree[f] = clock'
        /\ \A g \in Files : tree[g] <= clock' /\ (g # f => tree[g] = ws[g])
    BY <1>1, <2>1
  <2>3. Stage(tree, "edit", f) /\ UNCHANGED <<disk, observed, crashes, failures>>
    BY <1>2 DEF Edit
  <2>4. clock < tree[f] /\ clock <= clock'
    BY <1>1, <2>1, <2>2
  <2> QED BY <2>1, <2>2, <2>3, <2>4, StageSound
<1>3. ASSUME NEW f \in Parts, Remove(f) PROVE Sound'
  <2> DEFINE tree == [ws EXCEPT ![f] = Absent]
  <2>1. clock' = clock /\ job.at = "idle"
    BY <1>3 DEF Remove, budget
  <2>2. /\ tree \in [Files -> Versions] /\ tree[f] = Absent
        /\ \A g \in Files : tree[g] <= clock' /\ (g # f => tree[g] = ws[g])
    BY <1>1, <2>1 DEF Absent, Versions, PublicationAssumption
  <2>3. Stage(tree, "edit", f) /\ UNCHANGED <<disk, observed, crashes, failures>>
    BY <1>3 DEF Remove, budget
  <2>4. tree[f] = Absent \/ clock < tree[f]
    BY <2>2
  <2>5. clock <= clock'
    BY <1>1, <2>1
  <2> HIDE DEF tree
  <2> QED BY <1>1, <2>1, <2>2, <2>3, <2>4, <2>5, StageSound
<1>4. CASE BuildAtStartup
  <2>1. /\ Stage(ws, "startup", NoFile) /\ UNCHANGED <<disk, observed, crashes, failures>>
        /\ clock' = clock /\ job.at = "build"
    BY <1>4 DEF BuildAtStartup, budget
  <2>2. crashes # 0
    BY <2>1 DEF Sound, JobSound, DirectStaged, At
  <2> QED BY <1>1, <2>1, <2>2, StageSound
<1> QED BY <1>2, <1>3, <1>4

\* A direct write touches no source, and happens while no course is under way.
LEMMA WriteDirectSound ==
  ASSUME Based, Typed', Sound, PublicationAssumption, NEW f \in Direct, WriteDirect(f)
  PROVE  Sound'
<1> USE DEF Based, Sound, DiskSound, JobSound
<1>1. /\ job.at \in Resting /\ clock' = clock + 1 /\ job' = job
      /\ UNCHANGED <<glb, json, gens, pointer, journal, staging, refused, crashes, failures>>
      /\ f \in Files /\ f \notin Parts /\ Parts \subseteq Files
  BY DEF WriteDirect, Files, PublicationAssumption
<1>2. /\ ws' = [ws EXCEPT ![f] = clock'] /\ latest' = [latest EXCEPT ![f] = clock']
      /\ ws'[f] = clock' /\ latest'[f] = clock'
      /\ \A g \in Files \ {f} : ws'[g] = ws[g] /\ latest'[g] = latest[g]
  BY <1>1 DEF WriteDirect, Typed, DiskTyped, ObservedTyped
<1>3. \A g \in Parts : ws'[g] = ws[g] /\ latest'[g] = latest[g]
  BY <1>1, <1>2
<1>4. Selected' = Selected /\ Pending' = Pending
  BY <1>1 DEF Selected, Pending, staging
<1>5. Numbered' /\ Unpublished'
  BY <1>1, <1>3 DEF Numbered, Unpublished, staging
<1>6. NoJournalInStep' /\ UpdatesSelected' /\ RefusedOut'
  BY <1>1, <1>3, <1>4 DEF NoJournalInStep, InStep, HasSelected, Inputs, UpdatesSelected, NoLostUpdate, Covers,
     Sources, RefusedOut, Clean, staging
<1>7. DirectKept'
  BY <1>1, <1>2 DEF DirectKept, Files
<1>8. Clocked'
  <2>1. clock \in Nat /\ \A g \in Files : ws[g] \in Nat /\ \A q \in Publications : content[q][g] \in Nat
    BY DEF Typed, DiskTyped, StagingTyped, BudgetTyped, Versions
  <2>2. \A v \in refused : v \in Nat
    BY DEF Typed, ObservedTyped, Versions
  <2>3. \A g \in Files : ws'[g] <= clock'
    BY <1>1, <1>2, <2>1 DEF Clocked
  <2> QED BY <1>1, <2>1, <2>2, <2>3 DEF Clocked, staging
<1>9. JobSound'
  BY <1>1, <1>4 DEF Courses, Mirroring, Unfailed, DirectStaged, EditFresh, CourseClean, Clean, At, Resting,
     CommitSteps, MirrorSteps, staging
<1> QED BY <1>5, <1>6, <1>7, <1>8, <1>9

-----------------------------------------------------------------------------
(* The end of a call, the start of a worker, and failures *)

\* A worker that recovers has died before.
LEMMA OnlyEditsBeforeCrash ==
  ASSUME JobSound, job.mode # "edit" \/ job.at \in {"down", "build"}
  PROVE  crashes # 0
BY DEF JobSound, DirectStaged, At

\* A recovery materializes the selected generation, or after a failure the one it
\* falls back to.
LEMMA RecoverySound ==
  ASSUME Based, Typed', DiskSound, Steady, UNCHANGED disk, crashes' # 0,
         NEW mode \in {"current", "prior", "again"}, NEW p \in Publications, Recovery(mode, p),
         p <= count, pointer # NoPublication, Clean(content[p]),
         mode = "current" => p = pointer,
         mode # "current" => Pending /\ failures' # 0
  PROVE  Sound'
<1>1. DiskSound'
  BY DiskKept DEF disk
<1>2. /\ job'.at = "files" /\ job'.mode = mode /\ job'.pub = p /\ job'.todo = Sources(p) /\ job'.edit = NoFile
  BY DEF Recovery, Sources
<1>3. UNCHANGED <<ws, content, deletions, count, pointer, journal, refused>> /\ Pending' = Pending
  BY DEF Steady, staging, disk, Pending
<1>4. Courses'
  BY <1>2, <1>3 DEF Courses, At, CommitSteps, MirrorSteps, FallsBack
<1>5. Mirroring'
  BY <1>2, <1>3 DEF Mirroring, Copied, Sources, Inputs, At
<1>6. Unfailed' /\ DirectStaged' /\ EditFresh'
  BY <1>2 DEF Unfailed, DirectStaged, EditFresh, At, CommitSteps, FallsBack
<1>7. CourseClean'
  BY <1>2, <1>3 DEF CourseClean, Clean
<1> QED BY <1>1, <1>4, <1>5, <1>6, <1>7 DEF Sound, JobSound

\* A worker that gives up recovering builds.
LEMMA ToBuildSound ==
  ASSUME Typed', DiskSound', ToBuild, crashes' # 0, failures' = 0 => ~Pending'
  PROVE  Sound'
<1>1. job'.at = "build" /\ job'.mode = "startup" /\ job'.pub = NoPublication /\ job'.edit = NoFile
  BY DEF ToBuild, Rest
<1> QED BY <1>1, RestSound DEF Sound, Resting

LEMMA FallBackSound ==
  ASSUME Based, Typed', DiskSound, Steady, UNCHANGED disk, crashes' # 0, FallBack, failures' # 0
  PROVE  Sound'
<1>1. DiskSound'
  BY DiskKept DEF disk
<1>2. CASE journal.prior \in gens
  <2>1. journal.prior \in Publications /\ journal.prior # NoPublication
    <3>1. journal.prior \in Publications
      BY <1>2 DEF Based, Typed, DiskTyped
    <3> QED BY <3>1 DEF Publications, NoPublication
  <2>2. Pending /\ pointer # NoPublication /\ journal.prior <= count /\ Clean(content[journal.prior])
    BY <2>1 DEF DiskSound, Unpublished, Numbered, RefusedOut, Pending, NoJournal
  <2>3. PICK mode \in {"prior", "again"} : Recovery(mode, journal.prior)
    BY <1>2 DEF FallBack
  <2> QED BY <2>1, <2>2, <2>3, RecoverySound
<1>3. CASE journal.prior \notin gens
  BY <1>1, <1>3, ToBuildSound DEF FallBack
<1> QED BY <1>2, <1>3

LEMMA RecordSound ==
  ASSUME Based, Typed', Sound, Record \/ NoBuildAtStartup PROVE Sound'
<1>1. Steady /\ UNCHANGED disk /\ UNCHANGED <<crashes, failures>>
  BY DEF Record, NoBuildAtStartup, Steady, disk, observed, budget
<1>2. DiskSound'
  BY <1>1, DiskKept DEF disk, Sound
<1>3. Pending' = Pending
  BY <1>1 DEF disk, Pending
<1>4. failures = 0 => ~Pending
  BY DEF Record, NoBuildAtStartup, Sound, JobSound, Unfailed, At
<1>5. CASE ToBuild /\ Record /\ job.mode \in {"current", "again"}
  <2>1. crashes # 0
    BY <1>5, OnlyEditsBeforeCrash DEF Sound
  <2> QED BY <1>1, <1>2, <1>3, <1>4, <1>5, <2>1, ToBuildSound
<1>6. CASE job' = Rest("idle")
  <2>1. job'.at = "idle" /\ job'.mode = "edit" /\ job'.pub = NoPublication /\ job'.edit = NoFile
    BY <1>6 DEF Rest
  <2> QED BY <1>1, <1>2, <1>3, <1>4, <2>1, RestSound DEF Sound, Resting
<1>7. CASE NoBuildAtStartup
  <2>1. job'.at = "record" /\ job'.mode = "startup" /\ job'.pub = NoPublication /\ job'.edit = NoFile
    BY <1>7 DEF NoBuildAtStartup, Rest
  <2>2. crashes # 0
    BY <1>7, OnlyEditsBeforeCrash DEF Sound, NoBuildAtStartup
  <2> QED BY <1>1, <1>2, <1>3, <1>4, <2>1, <2>2, RestSound DEF Sound
<1> QED BY <1>5, <1>6, <1>7 DEF Record

\* A worker that starts finds the selected generation; with none, it goes on with the
\* journal's, which nothing was published before.
LEMMA RestartSound ==
  ASSUME Based, Typed', Sound, Restart PROVE Sound'
<1> USE DEF Sound, DiskSound
<1>1. Steady /\ UNCHANGED disk /\ UNCHANGED <<crashes, failures>>
  BY DEF Restart, Steady, disk, observed, budget
<1>2. DiskSound'
  BY <1>1, DiskKept DEF disk
<1>3. UNCHANGED <<ws, content, deletions, count, pointer, journal, refused>> /\ Pending' = Pending
  BY <1>1 DEF Steady, staging, disk, Pending
<1>4. crashes # 0
  BY OnlyEditsBeforeCrash DEF Restart
<1>5. CASE pointer # NoPublication
  <2>1. pointer \in gens /\ pointer \in Publications
    BY <1>5 DEF Based, SelectedOnDisk, Typed, DiskTyped
  <2>2. Recovery("current", pointer)
    BY <1>5, <2>1 DEF Restart
  <2>3. Clean(content[pointer]) /\ pointer <= count
    BY <1>5 DEF RefusedOut, Selected, Numbered
  <2> QED BY <1>1, <1>4, <1>5, <2>1, <2>2, <2>3, RecoverySound
<1>6. CASE pointer = NoPublication /\ ~Pending
  <2>1. ToBuild
    BY <1>6 DEF Restart
  <2> QED BY <1>1, <1>2, <1>3, <1>4, <1>6, <2>1, ToBuildSound
<1>7. CASE pointer = NoPublication /\ Pending
  <2>1. /\ job'.mode = "finish" /\ job'.pub = journal.pub /\ job'.edit = NoFile
        /\ job'.at \in {"pointer", "generation"}
    BY <1>7 DEF Restart, Unpublished
  <2>2. \A f \in Parts : ws[f] = Absent /\ refused = {}
    BY <1>7 DEF Unpublished
  <2>3. Courses' /\ Mirroring'
    BY <1>3, <1>7, <2>1 DEF Courses, Mirroring, At, CommitSteps, MirrorSteps, FallsBack, Numbered
  <2>4. Unfailed'
    BY <1>3, <2>1, <2>2 DEF Unfailed, At, CommitSteps, FallsBack, Covers
  <2>5. DirectStaged' /\ EditFresh'
    BY <1>1, <1>4, <2>1 DEF DirectStaged, EditFresh
  <2>6. refused = {}
    BY <1>7 DEF Unpublished
  <2>7. CourseClean'
    BY <1>3, <2>6 DEF CourseClean, Clean
  <2> QED BY <1>2, <2>3, <2>4, <2>5, <2>7 DEF JobSound
<1> QED BY <1>5, <1>6, <1>7

\* The write of a commit that raises before the pointer has moved is nowhere else.
LEMMA CommitRaisesSound ==
  ASSUME Based, Typed', Sound, CommitRaises PROVE Sound'
<1> USE DEF Based, Sound, DiskSound, JobSound
<1>1. /\ job.at \notin Resting /\ job.at \notin {"record", "build"} /\ job \in Jobs /\ job.pub \in Publications
      /\ job.mode \in {"edit", "startup"}
  BY BusyJob DEF CommitRaises, Typed, JobNamed, Working, CommitSteps, Resting
<1>2. /\ UNCHANGED <<disk, staging, latest, clock, crashes>> /\ failures' # 0
  BY DEF CommitRaises, Fails, Typed, BudgetTyped
<1>3. UNCHANGED <<ws, glb, json, pointer, journal, content, deletions, count>>
      /\ Selected' = Selected /\ Pending' = Pending
  BY <1>2 DEF disk, staging, Selected, Pending
<1>4. \/ refused' = refused
      \/ /\ job.mode = "edit" /\ pointer # NoPublication /\ pointer # job.pub
         /\ content[job.pub][job.edit] # Absent
         /\ refused' = refused \cup {content[job.pub][job.edit]}
  BY <1>1 DEF CommitRaises, Courses
<1>5. job.mode = "edit" => job.edit \in Files
  BY <1>1 DEF JobNamed, Files
<1>6. Numbered' /\ Unpublished' /\ DirectKept'
  BY <1>2, <1>3, <1>4 DEF Numbered, Unpublished, DirectKept
<1>7. NoJournalInStep' /\ UpdatesSelected'
  BY <1>2, <1>3 DEF NoJournalInStep, InStep, HasSelected, Inputs, UpdatesSelected, Typed, BudgetTyped
<1>8. Clocked'
  BY <1>1, <1>2, <1>3, <1>4, <1>5 DEF Clocked
<1>9. RefusedOut'
  <2>1. CASE refused' = refused
    BY <1>3, <2>1 DEF RefusedOut, Clean
  <2>2. CASE refused' # refused
    <3>1. /\ \A f \in Parts : content[job.pub][job.edit] \notin {ws[f], Selected[f]}
          /\ journal.prior # NoPublication =>
               \A f \in Parts : content[job.pub][job.edit] # content[journal.prior][f]
      BY <1>1, <1>4, <2>2 DEF EditFresh, At
    <3> QED BY <1>3, <1>4, <2>2, <3>1 DEF RefusedOut, Clean
  <2> QED BY <2>1, <2>2
<1>10. DiskSound'
  BY <1>6, <1>7, <1>8, <1>9
<1>11. CASE job.mode = "edit"
  <2>1. job'.at = "idle" /\ job'.mode = "edit" /\ job'.pub = NoPublication /\ job'.edit = NoFile
    BY <1>11 DEF CommitRaises, Rest
  <2> QED BY <1>2, <1>10, <2>1, RestSound DEF Resting
<1>12. CASE job.mode = "startup"
  <2>1. Moves("record")
    BY <1>1, <1>12, GotoTyped DEF CommitRaises, Steps, Moves
  <2>2. refused' = refused
    BY <1>4, <1>12
  <2>3. crashes # 0
    BY <1>12, OnlyEditsBeforeCrash
  <2>4. Courses' /\ Mirroring' /\ Unfailed' /\ DirectStaged' /\ EditFresh'
    BY <1>2, <1>3, <1>12, <2>1, <2>3 DEF Courses, Mirroring, Unfailed, DirectStaged, EditFresh, Moves, At,
       CommitSteps, MirrorSteps
  <2>5. CourseClean'
    BY <1>3, <2>1, <2>2 DEF CourseClean, Clean, Moves
  <2> QED BY <1>10, <2>4, <2>5
<1> QED BY <1>1, <1>11, <1>12

LEMMA MirrorFailsSound ==
  ASSUME Based, Typed', Sound, MirrorFails PROVE Sound'
<1> USE DEF Based, Sound, JobSound
<1>1. /\ job.at \in MirrorSteps /\ job \in Jobs /\ job.mode \in {"edit", "startup"}
  BY BusyJob DEF MirrorFails, Typed, MirrorSteps, Resting
<1>2. Moves("record")
  BY <1>1, GotoTyped DEF MirrorFails, Steps, Moves
<1>3. Steady /\ UNCHANGED disk /\ crashes' = crashes /\ failures' # 0
  BY DEF MirrorFails, Fails, Steady, observed, disk, Typed, BudgetTyped
<1>4. DiskSound'
  BY <1>3, DiskKept DEF disk
<1>5. UNCHANGED <<ws, content, deletions, count, pointer, journal, refused>>
  BY <1>3 DEF Steady, staging, disk
<1>6. Courses' /\ Mirroring' /\ Unfailed'
  BY <1>1, <1>2, <1>3, <1>5 DEF Courses, Mirroring, Unfailed, Moves, At, CommitSteps, MirrorSteps
<1>7. DirectStaged' /\ CourseClean'
  BY <1>1, <1>2, <1>3, <1>5 DEF DirectStaged, CourseClean, Clean, Moves, At, MirrorSteps, Resting
<1>8. EditFresh'
  <2>1. job.mode = "edit" => job.pub = pointer
    BY <1>1 DEF Courses, At, FallsBack
  <2> QED BY <1>2, <1>5, <2>1 DEF EditFresh, Moves
<1> QED BY <1>4, <1>6, <1>7, <1>8

LEMMA RecoveriesFailSound ==
  ASSUME Based, Typed', Sound, RecoveryFails \/ FallBackFails \/ FinishFails PROVE Sound'
<1> USE DEF Sound, DiskSound
<1>1. Steady /\ UNCHANGED <<glb, json>> /\ crashes' = crashes /\ failures' # 0
  BY DEF RecoveryFails, FallBackFails, FinishFails, Fails, Steady, disk, observed, Based, Typed, BudgetTyped
<1>2. crashes # 0
  BY OnlyEditsBeforeCrash DEF RecoveryFails, FallBackFails, FinishFails, FallsBack
<1>3. CASE RecoveryFails
  BY <1>1, <1>2, <1>3, FallBackSound DEF RecoveryFails
<1>4. CASE FallBackFails
  BY <1>1, <1>2, <1>4, DiskKept, ToBuildSound DEF FallBackFails, disk
<1>5. CASE FinishFails
  <2>1. CASE journal' = journal
    BY <1>1, <1>2, <1>5, <2>1, DiskKept, ToBuildSound DEF FinishFails
  <2>2. CASE journal' = NoJournal /\ job.at \in {"generation", "pointer"}
    <3>1. pointer = NoPublication
      BY <1>5, <2>2 DEF FinishFails, JobSound, Courses, At, CommitSteps
    <3>2. ~Pending' /\ journal'.pub = NoPublication /\ journal'.prior = NoPublication /\ journal'.phase = "none"
      BY <2>2 DEF Pending, NoJournal
    <3>3. InStep'
      <4>1. HasSelected(ws)
        BY <3>1 DEF HasSelected, Selected, Empty, Unpublished, Files
      <4> QED BY <1>1, <3>1, <4>1, SteadyKeeps DEF InStep, Unpublished, Steady
    <3>4. count \in Nat
      BY DEF Based, Typed, StagingTyped
    <3>5. Numbered' /\ Unpublished'
      BY <1>1, <3>2, <3>4 DEF Numbered, Unpublished, Steady, staging, NoPublication
    <3>6. RefusedOut'
      BY <1>1, <3>2, SteadyKeeps DEF RefusedOut, Clean, Steady, staging
    <3>7. DiskSound'
      BY <1>1, <3>3, <3>5, <3>6, SteadyKeeps DEF NoJournalInStep
    <3> QED BY <1>1, <1>2, <1>5, <3>7, ToBuildSound DEF FinishFails
  <2> QED BY <1>5, <2>1, <2>2 DEF FinishFails
<1> QED BY <1>3, <1>4, <1>5

LEMMA CrashSound ==
  ASSUME Based, Typed', Sound, Crash PROVE Sound'
<1>1. Steady /\ UNCHANGED disk /\ crashes' # 0
  BY DEF Crash, Steady, disk, observed, Based, Typed, BudgetTyped
<1>2. DiskSound'
  BY <1>1, DiskKept DEF disk, Sound
<1>3. job'.at = "down" /\ job'.mode = "edit" /\ job'.pub = NoPublication /\ job'.edit = NoFile
  BY DEF Crash, Rest
<1> QED BY <1>1, <1>2, <1>3, RestSound DEF Sound, Resting

LEMMA InitSound == Init /\ PublicationAssumption => Sound
<1> SUFFICES ASSUME Init, PublicationAssumption PROVE Sound
  OBVIOUS
<1>1. DiskSound
  BY DEF Init, DiskSound, Numbered, Unpublished, NoJournalInStep, InStep, HasSelected, Selected, Empty,
     UpdatesSelected, NoLostUpdate, DirectKept, Clocked, RefusedOut, Clean, NoJournal, NoPublication, Absent,
     Files, Pending
<1>2. JobSound
  BY DEF Init, JobSound, Courses, Mirroring, Unfailed, DirectStaged, EditFresh, CourseClean, At, Rest,
     Resting, CommitSteps, MirrorSteps, FallsBack, NoPublication, Pending
<1> QED BY <1>1, <1>2 DEF Sound

LEMMA NextSound ==
  ASSUME PublicationAssumption, Based, Typed', Sound, [Next]_vars PROVE Sound'
<1>1. CASE \E f \in Parts : Edit(f) \/ Remove(f)
  BY <1>1, CallsSound
<1>2. CASE \E f \in Direct : WriteDirect(f)
  BY <1>2, WriteDirectSound
<1>3. CASE WorkerStep
  BY <1>3, JournalIntentSound, JournalStepsSound, SelectSound, CopyFileSound, ArtifactsSound,
     ClearJournalSound, RepointSound, RecordSound, CallsSound, RestartSound DEF WorkerStep
<1>4. CASE CommitRaises \/ MirrorFails \/ RecoveryFails \/ FallBackFails \/ FinishFails \/ Crash
  BY <1>4, CommitRaisesSound, MirrorFailsSound, RecoveriesFailSound, CrashSound
<1>5. CASE UNCHANGED vars
  <2>1. Steady /\ UNCHANGED <<glb, json, journal, job, crashes, failures>>
    BY <1>5 DEF vars, disk, staging, observed, budget, Steady
  <2>2. DiskSound'
    BY <2>1, DiskKept DEF Sound
  <2>3. Courses' /\ Unfailed' /\ DirectStaged'
    BY <2>1, SteadyKeeps DEF Sound, JobSound, Courses, Unfailed, DirectStaged, At, Steady, staging, Pending
  <2>4. Mirroring'
    BY <2>1, SteadyKeeps DEF Sound, JobSound, Mirroring, Copied, InStep, At, Steady, staging
  <2>5. EditFresh' /\ CourseClean'
    BY <2>1, SteadyKeeps DEF Sound, JobSound, EditFresh, CourseClean, Clean, At, Steady, staging
  <2> QED BY <2>2, <2>3, <2>4, <2>5 DEF Sound, JobSound
<1> QED BY <1>1, <1>2, <1>3, <1>4, <1>5 DEF Next

\* Whatever is interrupted, fails and is recovered, in any number and order: every
\* reachable state is sound.
LEMMA AlwaysSound == Spec => [](Based /\ Sound)
<1> USE PublicationAssumption
<1>1. Init => Sound
  BY InitSound
<1>2. TypeOK => Typed
  BY TypedIsTypeOK
<1>3. Based /\ Typed' /\ Sound /\ [Next]_vars => Sound'
  BY NextSound
<1>4. TypeOK /\ JobNamed /\ OnDisk /\ SelectedOnDisk => Based
  BY TypedIsTypeOK DEF Based
<1>5. Based => Typed
  BY DEF Based
<1> QED BY <1>1, <1>3, <1>4, <1>5, TypeCorrect, AlwaysOnDisk, PTL DEF Spec

-----------------------------------------------------------------------------
(* What a reader may rely on *)

\* A worker at rest without a journal shows exactly the selected generation, and no
\* publication on its own reverts a file the engine writes directly
\* (commit_publication, materialize_publication and recover_publication, paths.py).
THEOREM WorkspaceStaysInStep == Spec => []WorkspaceInStep
<1>1. Based /\ Sound => WorkspaceInStep
  BY DEF Sound, DiskSound, NoJournalInStep, InStep, DirectKept, WorkspaceInStep, MirrorsCurrent, Settled,
     OnlyRestartReverts
<1> QED BY <1>1, AlwaysSound, PTL

\* While no file operation fails the selected generation has the last published write
\* of every source, and a write whose commit was refused never comes back
\* (stage_publication and recover_publication, paths.py).
THEOREM UpdatesAreKept == Spec => []UpdatesKept
<1>1. Based /\ Sound => UpdatesKept
  BY DEF Sound, DiskSound, UpdatesSelected, RefusedOut, Clean, UpdatesKept, NoLostUpdate, RefusedStaysOut
<1> QED BY <1>1, AlwaysSound, PTL

\* History snapshots only sources that built together: what a mutation or a recovery
\* records has every source of the selected generation (_staged_mutation and
\* _record_recovered_publication, session.py; publication_matches_workspace, paths.py).
THEOREM HistorySnapshotsSelected == Spec => HistoryMatchesSelected
<1>1. Based /\ Sound /\ [Next]_vars => [recorded' # recorded => HasSelected(recorded') \/ job.mode = "startup"]_vars
  <2> SUFFICES ASSUME Based, Sound, Next, recorded' # recorded, job.mode # "startup"
               PROVE  HasSelected(recorded')
    OBVIOUS
  <2>1. Record /\ Commits /\ recorded' = ws
    <3>1. CASE UNCHANGED observed
      BY <3>1 DEF observed
    <3>2. CASE Record
      BY <3>2 DEF Record
    <3>3. CASE UNCHANGED recorded
      BY <3>3
    <3> QED
      BY <3>1, <3>2, <3>3 DEF Next, WorkerStep, Edit, Remove, WriteDirect, JournalIntent, InstallGeneration,
         JournalGeneration, SelectGeneration, JournalPointer, CopyFile, CopyGlb, CopyJson, ClearJournal, Prune,
         BuildAtStartup, NoBuildAtStartup, Restart, Repoint, CommitRaises, MirrorFails, RecoveryFails,
         FallBackFails, FinishFails, Crash
  <2>2. ~Pending
    BY <2>1 DEF Commits, Record, Sound, JobSound, Courses, At
  <2> QED BY <2>1, <2>2 DEF Sound, DiskSound, NoJournalInStep, InStep
<1> QED BY <1>1, AlwaysSound, PTL DEF Spec, HistoryMatchesSelected
=============================================================================
