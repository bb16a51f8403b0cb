---------------------------- MODULE Publication ----------------------------
(***************************************************************************)
(* How the engine makes a successful build durable (paths.py): a mutation  *)
(* works on a clone of the workspace, its whole file set is staged as an   *)
(* immutable generation, a journaled commit moves the pointer current.json *)
(* to that generation, and the files of the generation are then copied     *)
(* over the live workspace (the "mirrors").  The worker may die between    *)
(* any two file operations, any file operation may raise OSError, and the  *)
(* next worker recovers before it serves a call.                           *)
(*                                                                         *)
(* Files are abstract; what a file holds is the number of the write that   *)
(* produced it, and Absent is a file that is not there.                    *)
(***************************************************************************)
EXTENDS Integers, FiniteSets

CONSTANTS
  Parts,            \* sources edited through publications (model.py, parts/...)
  Direct,           \* files written straight to the workspace (build_brief.json ...)
  Keep,             \* prune_publications' keep
  MaxWrites,        \* bound: writes of any kind
  MaxPublications,  \* bound: generations ever staged
  MaxCrashes,       \* bound: deaths of the worker
  MaxFailures       \* bound: file operations that raise OSError

ASSUMPTION PublicationAssumption ==
  /\ Parts \cap Direct = {}
  /\ Keep \in Nat \ {0}
  /\ {MaxWrites, MaxPublications, MaxCrashes, MaxFailures} \subseteq Nat

Files == Parts \cup Direct
Absent == 0
Versions == 0 .. MaxWrites
Publications == 1 .. MaxPublications
NoPublication == 0
NoFile == "no file"

VARIABLES
  ws,        \* ws[f]: the live workspace
  glb, json, \* the generation the root model.glb and model.json were copied from
  content,   \* content[p][f]: the inputs of generation p
  deletions, \* deletions[p]: the manifest's deletions
  gens,      \* the directories under generations/
  pointer,   \* current.json
  journal,   \* .publication-journal.json
  job,       \* what the worker is doing: [mode, at, pub, todo, edit]
  recorded,  \* what the last history commit snapshots
  latest,    \* latest[f]: the last write of f that was published, or written directly
  reported,  \* writes whose call answered ok
  refused,   \* writes whose commit raised while an earlier generation was selected
  count, clock, crashes, failures

disk == <<ws, glb, json, gens, pointer, journal>>
staging == <<content, deletions, count>>
observed == <<recorded, latest, reported, refused>>
budget == <<clock, crashes, failures>>
vars == <<disk, staging, observed, budget, job>>

NoJournal == [pub |-> NoPublication, prior |-> NoPublication, phase |-> "none"]
Journals ==
  [pub : Publications, prior : Publications \cup {NoPublication},
   phase : {"intent", "generation", "pointer"}] \cup {NoJournal}

\* A commit for a mutation or for the build at startup, or one of the courses
\* recovery takes: the selected generation, the journal's predecessor when it
\* is another or the same one again, or the journal's generation.
Modes == {"edit", "startup", "current", "prior", "again", "finish"}
FallsBack == {"prior", "again"}
CommitSteps == {"intent", "generation", "journal generation", "pointer", "journal pointer"}
MirrorSteps == {"files", "json"}
Jobs ==
  [mode : Modes,
   at : CommitSteps \cup MirrorSteps \cup {"repoint", "clear", "prune", "record", "build"},
   pub : Publications \cup {NoPublication}, todo : SUBSET Files, edit : Parts \cup {NoFile}]
Resting == {"idle", "down"}
Rest(state) == [mode |-> "edit", at |-> state, pub |-> NoPublication, todo |-> {}, edit |-> NoFile]

TypeOK ==
  /\ ws \in [Files -> Versions]
  /\ glb \in Publications \cup {NoPublication}
  /\ json \in Publications \cup {NoPublication}
  /\ content \in [Publications -> [Files -> Versions]]
  /\ deletions \in [Publications -> SUBSET Files]
  /\ gens \subseteq Publications
  /\ pointer \in Publications \cup {NoPublication}
  /\ journal \in Journals
  /\ job \in Jobs \cup {Rest(s) : s \in Resting}
  /\ recorded \in [Files -> Versions]
  /\ latest \in [Files -> Versions]
  /\ reported \subseteq Versions
  /\ refused \subseteq Versions
  /\ count \in 0 .. MaxPublications
  /\ clock \in Versions
  /\ crashes \in 0 .. MaxCrashes
  /\ failures \in 0 .. MaxFailures

Empty == [f \in Files |-> Absent]

Init ==
  /\ ws = Empty /\ glb = NoPublication /\ json = NoPublication
  /\ content = [p \in Publications |-> Empty]
  /\ deletions = [p \in Publications |-> {}]
  /\ gens = {} /\ pointer = NoPublication /\ journal = NoJournal
  /\ job = Rest("idle")
  /\ recorded = Empty /\ latest = Empty /\ reported = {} /\ refused = {}
  /\ count = 0 /\ clock = 0 /\ crashes = 0 /\ failures = 0

Inputs(tree) == {f \in Files : tree[f] # Absent}
Pending == journal # NoJournal                \* publication_pending
SelectedInputs == IF pointer = NoPublication THEN {} ELSE Inputs(content[pointer])

-----------------------------------------------------------------------------
(* Staging *)

\* Mutant: the manifest lists no deletions.
M_Stage(tree, mode, edit) ==
  /\ count < MaxPublications
  /\ count' = count + 1
  /\ content' = [content EXCEPT ![count'] = tree]
  /\ deletions' = deletions
  /\ job' = [mode |-> mode, at |-> "intent", pub |-> count', todo |-> {}, edit |-> edit]

\* stage_publication: the manifest compares with the selected generation, not
\* with the live workspace.
Stage(tree, mode, edit) ==
  /\ count < MaxPublications
  /\ count' = count + 1
  /\ content' = [content EXCEPT ![count'] = tree]
  /\ deletions' = [deletions EXCEPT ![count'] = SelectedInputs \ Inputs(tree)]
  /\ job' = [mode |-> mode, at |-> "intent", pub |-> count', todo |-> {}, edit |-> edit]

\* A call that edits one source and whose build succeeds: workspace_write_set
\* of the clone is the live workspace with that file rewritten.
Edit(f) ==
  /\ job.at = "idle" /\ clock < MaxWrites
  /\ clock' = clock + 1
  /\ Stage([ws EXCEPT ![f] = clock'], "edit", f)
  /\ UNCHANGED <<disk, observed, crashes, failures>>

\* A call that removes a source (remove_part).
Remove(f) ==
  /\ job.at = "idle" /\ ws[f] # Absent
  /\ Stage([ws EXCEPT ![f] = Absent], "edit", f)
  /\ UNCHANGED <<disk, observed, budget>>

\* propose_build, update_build_brief, set_requirements, or a hand edit while
\* no engine runs: the live file is replaced, and no generation is made.
WriteDirect(f) ==
  /\ job.at \in Resting /\ clock < MaxWrites
  /\ clock' = clock + 1
  /\ ws' = [ws EXCEPT ![f] = clock']
  /\ latest' = [latest EXCEPT ![f] = clock']
  /\ UNCHANGED <<glb, json, gens, pointer, journal, staging, recorded, reported, refused,
                 crashes, failures, job>>

-----------------------------------------------------------------------------
(* commit_publication: one file operation per step *)

Goto(step) == job' = [job EXCEPT !.at = step]

JournalIntent ==
  /\ job.at = "intent"
  /\ journal' = [pub |-> job.pub, prior |-> pointer, phase |-> "intent"]
  /\ Goto("generation")
  /\ UNCHANGED <<ws, glb, json, gens, pointer, staging, observed, budget>>

\* Mutant: the pointer is moved before the staged directory is renamed.
M_InstallGeneration ==
  /\ job.at = "generation"
  /\ pointer' = job.pub
  /\ Goto("journal generation")
  /\ UNCHANGED <<ws, glb, json, gens, journal, staging, observed, budget>>

\* The staged directory becomes the generation's.
InstallGeneration ==
  /\ job.at = "generation"
  /\ gens' = gens \cup {job.pub}
  /\ Goto(IF job.mode = "finish" THEN "pointer" ELSE "journal generation")
  /\ UNCHANGED <<ws, glb, json, pointer, journal, staging, observed, budget>>

JournalGeneration ==
  /\ job.at = "journal generation"
  /\ journal' = [journal EXCEPT !.phase = "generation"]
  /\ Goto("pointer")
  /\ UNCHANGED <<ws, glb, json, gens, pointer, staging, observed, budget>>

\* The commit point.
SelectGeneration ==
  /\ job.at = "pointer"
  /\ pointer' = job.pub
  /\ latest' = [f \in Files |->
                  IF f = job.edit \/ (job.mode = "finish" /\ f \in Parts)
                  THEN content[job.pub][f] ELSE latest[f]]
  /\ IF job.mode = "finish"
     THEN job' = [job EXCEPT !.at = "files", !.todo = Inputs(content[job.pub]) \cup deletions[job.pub]]
     ELSE Goto("journal pointer")
  /\ UNCHANGED <<ws, glb, json, gens, journal, staging, recorded, reported, refused, budget>>

JournalPointer ==
  /\ job.at = "journal pointer"
  /\ journal' = [journal EXCEPT !.phase = "pointer"]
  /\ job' = [job EXCEPT !.at = "files", !.todo = Inputs(content[job.pub]) \cup deletions[job.pub]]
  /\ UNCHANGED <<ws, glb, json, gens, pointer, staging, observed, budget>>

\* materialize_publication: every input is copied, then every deletion is made.
CopyFile(f) ==
  /\ job.at = "files" /\ f \in job.todo
  /\ f \in deletions[job.pub] => job.todo \subseteq deletions[job.pub]
  /\ ws' = [ws EXCEPT ![f] = content[job.pub][f]]
  /\ job' = [job EXCEPT !.todo = @ \ {f}]
  /\ UNCHANGED <<glb, json, gens, pointer, journal, staging, observed, budget>>

\* _write_mirrors: the GLB first, then model.json.
CopyGlb ==
  /\ job.at = "files" /\ job.todo = {}
  /\ glb' = job.pub
  /\ Goto("json")
  /\ UNCHANGED <<ws, json, gens, pointer, journal, staging, observed, budget>>

\* Mutant: recovery leaves the journal behind.
M_CopyJson ==
  /\ job.at = "json"
  /\ json' = job.pub
  /\ Goto(CASE job.mode \in FallsBack -> "repoint" [] job.mode = "current" -> "record" [] OTHER -> "clear")
  /\ UNCHANGED <<ws, glb, gens, pointer, journal, staging, observed, budget>>

CopyJson ==
  /\ job.at = "json"
  /\ json' = job.pub
  /\ Goto(IF job.mode \in FallsBack THEN "repoint" ELSE "clear")
  /\ UNCHANGED <<ws, glb, gens, pointer, journal, staging, observed, budget>>

\* What follows a cleared journal in each mode.
AfterClear ==
  CASE job.mode \in {"edit", "startup", "finish"} -> "prune"
    [] job.mode \in {"current", "again"} /\ Pending -> "record"
    [] OTHER -> "build"

ClearJournal ==
  /\ job.at = "clear"
  /\ journal' = NoJournal
  /\ Goto(AfterClear)
  /\ UNCHANGED <<ws, glb, json, gens, pointer, staging, observed, budget>>

\* prune_publications: the pointer's generation, the journal's predecessor and
\* the Keep newest directories stay.
Newest(keep) == {p \in gens : Cardinality({q \in gens : q > p}) < keep}
Prune ==
  /\ job.at = "prune"
  /\ gens' = gens \cap ({pointer, journal.prior} \cup Newest(Keep))
  /\ Goto(IF job.mode = "finish" THEN "build" ELSE "record")
  /\ UNCHANGED <<ws, glb, json, pointer, journal, staging, observed, budget>>

-----------------------------------------------------------------------------
(* What follows a mutation or startup: history.  Then recovery. *)

\* publication_matches_workspace, against the generation just materialized.
MatchesWorkspace ==
  /\ \A f \in Inputs(content[job.pub]) : ws[f] = content[job.pub][f]
  /\ \A f \in deletions[job.pub] : ws[f] = Absent

HasModel == \E f \in Parts : ws[f] # Absent

\* Mutant: the deferred history action ignores a pending publication.
M_Commits ==
  \/ job.mode = "edit"
  \/ job.mode \in {"current", "again"} /\ MatchesWorkspace
  \/ job.mode = "startup" /\ recorded = Empty /\ HasModel

\* When a history commit is made: by a mutation that left no pending mirrors,
\* for a recovered generation, and as the first commit of a repository.
Commits ==
  \/ job.mode = "edit" /\ ~Pending
  \/ job.mode \in {"current", "again"} /\ MatchesWorkspace
  \/ job.mode = "startup" /\ recorded = Empty /\ HasModel

ToBuild == job' = [Rest("build") EXCEPT !.mode = "startup"]

Record ==
  /\ job.at = "record"
  /\ recorded' = IF Commits THEN ws ELSE recorded
  /\ reported' = IF job.mode = "edit" THEN reported \cup {content[job.pub][job.edit]} ELSE reported
  /\ IF job.mode \in {"current", "again"} THEN ToBuild ELSE job' = Rest("idle")
  /\ UNCHANGED <<disk, staging, latest, refused, budget>>

\* startup builds and publishes the workspace it finds ...
BuildAtStartup ==
  /\ job.at = "build" /\ HasModel
  /\ Stage(ws, "startup", NoFile)
  /\ UNCHANGED <<disk, observed, budget>>

\* ... unless it finds none or the build fails.
NoBuildAtStartup ==
  /\ job.at = "build"
  /\ job' = [Rest("record") EXCEPT !.mode = "startup"]
  /\ UNCHANGED <<disk, staging, observed, budget>>

Recovery(mode, p) ==
  job' = [mode |-> mode, at |-> "files", pub |-> p, edit |-> NoFile,
          todo |-> Inputs(content[p]) \cup deletions[p]]

\* recover_prior, when the journal names a predecessor that can be loaded.
FallBack ==
  IF journal.prior \in gens
  THEN Recovery(IF journal.prior = pointer THEN "again" ELSE "prior", journal.prior)
  ELSE ToBuild

\* Mutant: recovery starts from the journal's predecessor.
M_Restart ==
  /\ job.at = "down"
  /\ IF pointer # NoPublication
     THEN IF journal.prior \in gens THEN FallBack ELSE Recovery("current", pointer)
     ELSE IF ~Pending THEN ToBuild
     ELSE job' = [mode |-> "finish", pub |-> journal.pub, todo |-> {}, edit |-> NoFile,
                  at |-> IF journal.pub \in gens THEN "pointer" ELSE "generation"]
  /\ UNCHANGED <<disk, staging, observed, budget>>

\* recover_publication: a selected generation is materialized again whether or
\* not anything was interrupted; with none, the journal's is finished.
Restart ==
  /\ job.at = "down"
  /\ IF pointer # NoPublication
     THEN IF pointer \in gens THEN Recovery("current", pointer) ELSE FallBack
     ELSE IF ~Pending THEN ToBuild
     ELSE IF journal.phase = "pointer" THEN FallBack
     ELSE job' = [mode |-> "finish", pub |-> journal.pub, todo |-> {}, edit |-> NoFile,
                  at |-> IF journal.pub \in gens THEN "pointer" ELSE "generation"]
  /\ UNCHANGED <<disk, staging, observed, budget>>

\* recover_prior moves the pointer back.
Repoint ==
  /\ job.at = "repoint"
  /\ pointer' = job.pub
  /\ Goto("clear")
  /\ UNCHANGED <<ws, glb, json, gens, journal, staging, observed, budget>>

-----------------------------------------------------------------------------
(* Failures *)

Fails == failures < MaxFailures /\ failures' = failures + 1

\* An OSError outside the mirrors propagates: the mutation reports a failure,
\* and what was journaled stays.
CommitRaises ==
  /\ job.mode \in {"edit", "startup"} /\ job.at \in CommitSteps \cup {"clear", "prune"}
  /\ Fails
  /\ refused' = IF job.edit # NoFile /\ pointer \notin {NoPublication, job.pub}
                THEN refused \cup ({content[job.pub][job.edit]} \ {Absent}) ELSE refused
  /\ IF job.mode = "edit" THEN job' = Rest("idle") ELSE Goto("record")
  /\ UNCHANGED <<disk, staging, recorded, latest, reported, clock, crashes>>

\* An OSError in the mirrors is not an error of the mutation.
MirrorFails ==
  /\ job.mode \in {"edit", "startup"} /\ job.at \in MirrorSteps
  /\ Fails
  /\ Goto("record")
  /\ UNCHANGED <<disk, staging, observed, clock, crashes>>

RecoveryFails ==
  /\ job.mode = "current" /\ job.at \in MirrorSteps \cup {"clear"}
  /\ Fails
  /\ FallBack
  /\ UNCHANGED <<disk, staging, observed, clock, crashes>>

FallBackFails ==
  /\ job.mode \in FallsBack /\ job.at \in MirrorSteps \cup {"repoint", "clear"}
  /\ Fails
  /\ ToBuild
  /\ UNCHANGED <<disk, staging, observed, clock, crashes>>

\* Finishing: before the pointer moves the journal is dropped, after it kept.
FinishFails ==
  /\ job.mode = "finish" /\ job.at \in {"generation", "pointer"} \cup MirrorSteps
  /\ Fails
  /\ journal' = IF job.at \in MirrorSteps THEN journal ELSE NoJournal
  /\ ToBuild
  /\ UNCHANGED <<ws, glb, json, gens, pointer, staging, observed, clock, crashes>>

\* The worker is killed, or the machine stops.
Crash ==
  /\ job.at # "down" /\ crashes < MaxCrashes
  /\ crashes' = crashes + 1
  /\ job' = Rest("down")
  /\ UNCHANGED <<disk, staging, observed, clock, failures>>

WorkerStep ==
  \/ JournalIntent \/ InstallGeneration \/ JournalGeneration \/ SelectGeneration
  \/ JournalPointer \/ (\E f \in Files : CopyFile(f)) \/ CopyGlb \/ CopyJson
  \/ ClearJournal \/ Prune \/ Record \/ BuildAtStartup \/ NoBuildAtStartup
  \/ Restart \/ Repoint

Next ==
  \/ \E f \in Parts : Edit(f) \/ Remove(f)
  \/ \E f \in Direct : WriteDirect(f)
  \/ WorkerStep
  \/ CommitRaises \/ MirrorFails \/ RecoveryFails \/ FallBackFails \/ FinishFails
  \/ Crash

Spec == Init /\ [][Next]_vars

\* The worker goes on with a call it started, and the proxy starts a worker
\* again when one has died.
FairSpec == Spec /\ WF_vars(WorkerStep)

-----------------------------------------------------------------------------
(* Properties *)

Selected == IF pointer = NoPublication THEN Empty ELSE content[pointer]

\* A reader of current.json, and recover_prior, always find the generation
\* they are pointed at (publication_path, _load_staged): no order of the
\* commit's steps, no prune and no crash leaves a dangling name.
SelectedOnDisk == {pointer, journal.prior} \ {NoPublication} \subseteq gens

\* A worker with no journal left and nothing under way shows exactly the
\* selected generation: every source as in it, and, until a file operation has
\* failed, no source that it lacks; and both root artifacts from it.
Settled == job.at = "idle" /\ ~Pending
HasSelected(tree) ==
  \A f \in Parts : f \in Inputs(Selected) \/ failures = 0 => tree[f] = Selected[f]
MirrorsCurrent == Settled => HasSelected(ws) /\ glb = pointer /\ json = pointer

\* While no file operation has failed, the selected generation holds the last
\* published write of every source, whatever was interrupted and recovered.
NoLostUpdate == failures = 0 => \A f \in Parts : Selected[f] = latest[f]

\* A write whose commit raised before the pointer moved never comes back: not
\* from the journal it left, not at a restart, not through a later clone.
RefusedStaysOut == \A f \in Parts : {ws[f], Selected[f]} \cap refused = {}

\* No publication on its own reverts a file the engine writes directly: only
\* a restart can.
OnlyRestartReverts ==
  crashes = 0 /\ job.at = "idle" => \A f \in Direct : ws[f] = latest[f]

\* History never snapshots sources that did not build together: what
\* a mutation or a recovery records has every source of the selected
\* generation, as it is there.  (The first commit of a repository, made by
\* startup of whatever it finds, promises less.)
HistoryMatchesSelected ==
  [][recorded' # recorded => HasSelected(recorded') \/ job.mode = "startup"]_vars

\* An interrupted publication is finished or given up, not left journaled.
InterruptedIsSettled == Pending ~> ~Pending \/ failures > 0

\* At rest the workspace is what the last publication and the last direct
\* write made of it.
WorkspaceInStep == MirrorsCurrent /\ OnlyRestartReverts

\* What was published is kept, what was refused stays out.
UpdatesKept == NoLostUpdate /\ RefusedStaysOut
=============================================================================
