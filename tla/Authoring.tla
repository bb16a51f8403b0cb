------------------------------ MODULE Authoring ------------------------------
(***************************************************************************)
(* The session of one workspace (session.py) with its history              *)
(* (history.py): edits, parameter bursts, authoring rounds, undo, redo and *)
(* goto, checkpoints, and the restart after the worker dies.  The same     *)
(* calls serve a workspace with one model.py and an assembly; assembly     *)
(* says which one it is.                                                   *)
(*                                                                         *)
(* A publication is one step here (module Publication has its parts); the  *)
(* git commit, the timeline file and each publication of one call are      *)
(* steps of their own, and the worker may die between them.  A file is the *)
(* number of the write that made it, a part its manifest entry together    *)
(* with its source; the script "skeleton" is model.py in a workspace that  *)
(* is no assembly, and settings 0 are the script's defaults.               *)
(***************************************************************************)
EXTENDS Integers, Sequences, FiniteSets

CONSTANTS
  Parts,        \* ids of the assembly's parts
  MaxWrites,    \* bound: writes of any kind
  MaxCommits,   \* bound: git commits ever made
  MaxCrashes,   \* bound: deaths of the worker
  MaxFailures   \* bound: builds of a state that was already built, and commits, that fail

ASSUME AuthoringAssumption ==
  /\ Parts \cap {"skeleton", "settings", "brief"} = {}
  /\ {MaxWrites, MaxCommits, MaxCrashes, MaxFailures} \subseteq Nat
  /\ MaxWrites > 0 /\ MaxCommits > 0

Sources == Parts \cup {"skeleton"}
Tracked == Sources \cup {"settings"}      \* _assembly_fileset, RESTORE
Files == Tracked \cup {"brief"}           \* workspace_write_set
Absent == 0
Versions == 0 .. MaxWrites
Trees == [Files -> Versions]
Snapshots == [Tracked -> Versions]
Of(tree) == [f \in Tracked |-> tree[f]]

VARIABLES
  assembly,        \* _is_assembly_mode
  live,            \* the workspace
  selected,        \* the selected generation: [tree, params], params being what it was built with
  mem,             \* _param_values, and the script of the live build_fn: [params, code]
  commits, index,  \* History.commits and .index (from 1; 0 before the first)
  saved,           \* history.json: [commits, index]
  branch,          \* the git branch
  store,           \* store[id]: [tree, parent] of every git commit
  burst,           \* the last commit was a parameter commit of the coalesce window
  round,           \* _round: [active, clone, base, failed]
  job,             \* the call under way: [at, kind, to, snap]
  published,       \* tracked files of every state that was built and published
  vouched,         \* commits made for an edit or a parameter change
  sealed,          \* of these and the checkpoints, those a parameter change must not replace
  stray,           \* files edited by hand since the last build
  lapsed,          \* a history commit failed, or the worker died
  torn,            \* a restore, or the second build of a call, failed
  clock, crashes, failures

disk == <<live, selected>>
timeline == <<commits, index, saved, branch, store, burst>>
observed == <<published, vouched, sealed, stray, lapsed, torn>>
budget == <<clock, crashes, failures>>
vars == <<assembly, disk, mem, timeline, round, job, observed, budget>>

Ids == 1 .. MaxCommits
Lines == UNION {[1 .. n -> Ids] : n \in 0 .. MaxCommits}
NoRound == [active |-> FALSE, clone |-> [f \in Files |-> Absent], base |-> [f \in Files |-> Absent],
            failed |-> {}]
Blank == [f \in Tracked |-> Absent]
Job(at, kind, to, snap) == [at |-> at, kind |-> kind, to |-> to, snap |-> snap]
NoSnap == [tree |-> Blank, index |-> 0, branch |-> 0, params |-> 0, code |-> 0]
Rest(at) == Job(at, "none", 0, NoSnap)
Steps == {"idle", "down", "build", "params", "commit", "save", "files", "branch", "cursor",
          "rebuild", "revert"}
Kinds == {"none", "edit", "params", "imports", "checkpoint", "startup", "restore"}

TypeOK ==
  /\ assembly \in BOOLEAN
  /\ live \in Trees
  /\ selected \in [tree : Trees, params : Versions]
  /\ mem \in [params : Versions, code : Versions]
  /\ commits \in Lines /\ index \in 0 .. Len(commits)
  /\ saved.commits \in Lines /\ saved.index \in 0 .. Len(saved.commits)
  /\ branch \in Ids \cup {0}
  /\ store \in Seq([tree : Snapshots, parent : Ids \cup {0}]) /\ Len(store) <= MaxCommits
  /\ burst \in BOOLEAN
  /\ round \in [active : BOOLEAN, clone : Trees, base : Trees, failed : SUBSET Parts]
  /\ job \in [at : Steps, kind : Kinds, to : 0 .. MaxCommits,
              snap : [tree : Snapshots, index : 0 .. MaxCommits, branch : Ids \cup {0},
                      params : Versions, code : Versions]]
  /\ published \subseteq Snapshots
  /\ vouched \subseteq Ids /\ sealed \subseteq Ids /\ stray \subseteq Files
  /\ {lapsed, torn} \subseteq BOOLEAN
  /\ clock \in Versions /\ crashes \in 0 .. MaxCrashes /\ failures \in 0 .. MaxFailures

\* A workspace that was opened for the first time: a script, no part.
Init ==
  /\ assembly \in BOOLEAN
  /\ live = [f \in Files |-> IF f = "skeleton" THEN 1 ELSE Absent]
  /\ selected = [tree |-> [f \in Files |-> Absent], params |-> 0]
  /\ mem = [params |-> 0, code |-> 0]
  /\ commits = <<>> /\ index = 0 /\ saved = [commits |-> <<>>, index |-> 0]
  /\ branch = 0 /\ store = <<>> /\ burst = FALSE
  /\ round = NoRound /\ job = Rest("down")
  /\ published = {} /\ vouched = {} /\ sealed = {} /\ stray = Files /\ lapsed = FALSE /\ torn = FALSE
  /\ clock = 1 /\ crashes = 0 /\ failures = 0

Idle == job.at = "idle"
Fails == failures < MaxFailures /\ failures' = failures + 1
Works == UNCHANGED failures

-----------------------------------------------------------------------------
(* Publications and what a call does after them *)

\* A generation is selected and mirrored.  A direct file that the generation
\* does not have stays in the workspace.
Mirror(tree) == [f \in Files |-> IF f = "brief" /\ tree[f] = Absent THEN live[f] ELSE tree[f]]
Publish(tree, params) ==
  /\ selected' = [tree |-> tree, params |-> params]
  /\ live' = Mirror(tree)
  /\ published' = published \cup {Of(tree)}

\* A call whose build succeeded goes on to its history commit.
Built(tree, params, kind) ==
  /\ Publish(tree, params)
  /\ Len(store) < MaxCommits
  /\ job' = Job("commit", kind, 0, NoSnap)
  /\ stray' = {} /\ torn' = FALSE
  /\ UNCHANGED <<assembly, timeline, vouched, sealed, lapsed, crashes, failures>>

Outside == Idle /\ ~round.active     \* _round_guard

Write == clock < MaxWrites /\ clock' = clock + 1

\* execute_script: the script replaces model.py, the parameters its defaults.
ExecuteScript ==
  /\ Idle /\ ~assembly /\ Write
  /\ mem' = [params |-> 0, code |-> clock']
  /\ UNCHANGED round
  /\ Built([live EXCEPT !["skeleton"] = clock', !["settings"] = 0], 0, "edit")

\* run_file builds model.py as it is on disk.
RunFile ==
  /\ Idle /\ ~assembly
  /\ mem' = [params |-> 0, code |-> live["skeleton"]]
  /\ UNCHANGED clock
  /\ UNCHANGED round
  /\ Built([live EXCEPT !["settings"] = 0], 0, "edit")

\* set_skeleton: the parameters are the new skeleton's defaults.
SetSkeleton ==
  /\ Outside /\ assembly /\ Write
  /\ mem' = [mem EXCEPT !.params = 0]
  /\ UNCHANGED round
  /\ Built([live EXCEPT !["skeleton"] = clock', !["settings"] = 0], 0, "edit")

\* set_part outside a round; a part that does not build changes nothing.
SetPart(p) ==
  /\ Outside /\ assembly /\ Write
  /\ UNCHANGED mem
  /\ UNCHANGED round
  /\ Built([live EXCEPT ![p] = clock', !["settings"] = mem.params], mem.params, "edit")

\* attach, set_inputs and set_occurrences rewrite the entry of a part; one that does
\* not compose then is put back, see Republish.
Rewire(p) == live[p] # Absent /\ SetPart(p)

\* remove_part, and add_subassembly turned round.
RemovePart(p) ==
  /\ Outside /\ assembly /\ live[p] # Absent
  /\ UNCHANGED <<mem, clock>>
  /\ UNCHANGED round
  /\ Built([live EXCEPT ![p] = Absent, !["settings"] = mem.params], mem.params, "edit")

\* set_params: the new values are laid over the ones in memory.  A model.py
\* that was edited by hand is refused; an assembly is built from the disk.
SetParams ==
  /\ Outside /\ Write
  /\ ~assembly => live["skeleton"] = mem.code
  /\ mem' = [mem EXCEPT !.params = clock']
  /\ UNCHANGED round
  /\ Built([live EXCEPT !["settings"] = clock'], clock', "params")

\* A rewiring that does not build publishes the state before it once more, and
\* so do build_part and a change of material: none of them is committed.
Republish ==
  /\ Outside /\ assembly
  /\ Publish([live EXCEPT !["settings"] = mem.params], mem.params)
  /\ stray' = {} /\ torn' = FALSE
  /\ lapsed' = (lapsed \/ stray # {} \/ torn)
  /\ UNCHANGED <<assembly, mem, timeline, round, job, vouched, sealed, budget>>

\* render publishes the objects in memory once more, with the files as they are
\* now: a file edited by hand is published with the geometry from before.
Rerender ==
  /\ Idle /\ published # {} /\ ~torn
  /\ selected' = [tree |-> live, params |-> selected.params]
  /\ UNCHANGED <<assembly, live, mem, timeline, round, job, observed, budget>>

\* import_reference and remove_import with one model: model.py is run at its
\* defaults and published, then the values saved before are set and published.
SetImports ==
  /\ Idle /\ ~assembly /\ Len(store) + 2 <= MaxCommits
  /\ Publish([live EXCEPT !["settings"] = 0], 0)
  /\ mem' = [params |-> 0, code |-> live["skeleton"]]
  /\ stray' = {} /\ torn' = FALSE
  /\ job' = IF live["settings"] = 0 THEN Job("commit", "edit", 0, NoSnap)
            ELSE Job("params", "imports", 0,
                     [NoSnap EXCEPT !.params = live["settings"], !.code = mem.code])
  /\ UNCHANGED <<assembly, timeline, round, vouched, sealed, lapsed, budget>>

\* propose_build, set_requirements ... and edits by hand go to the workspace.
WriteFile(f) ==
  /\ Idle /\ Write
  /\ live' = [live EXCEPT ![f] = clock']
  /\ stray' = stray \cup {f}
  /\ UNCHANGED <<assembly, selected, mem, timeline, round, job, published, vouched, sealed,
                 lapsed, torn, crashes, failures>>

-----------------------------------------------------------------------------
(* Authoring rounds *)

\* The round's clone is made of the workspace as it is.
BeginRound ==
  /\ Idle /\ assembly /\ ~round.active
  /\ round' = [active |-> TRUE, clone |-> live, base |-> live, failed |-> {}]
  /\ UNCHANGED <<assembly, disk, mem, timeline, job, observed, budget>>

\* set_part in a round: the part is built alone.
SetRoundPart(p) ==
  /\ Idle /\ round.active /\ Write
  /\ round' = [round EXCEPT !.clone[p] = clock', !.failed = @ \ {p}]
  /\ UNCHANGED <<assembly, disk, mem, timeline, job, observed, crashes, failures>>

\* A part that fails is rolled back in the clone; only a new one counts as failed.
SetRoundPartFails(p) ==
  /\ Idle /\ round.active
  /\ round' = [round EXCEPT !.failed = IF round.clone[p] = Absent THEN @ \cup {p} ELSE @ \ {p}]
  /\ UNCHANGED <<assembly, disk, mem, timeline, job, observed, budget>>

\* end_round composes the clone.
EndRound ==
  /\ Idle /\ round.active
  /\ round' = NoRound
  /\ UNCHANGED <<mem, clock>>
  /\ Built([round.clone EXCEPT !["settings"] = mem.params], mem.params, "edit")

\* abort_round, or an end_round that does not compose.
AbortRound ==
  /\ Idle /\ round.active
  /\ round' = NoRound
  /\ UNCHANGED <<assembly, disk, mem, timeline, job, observed, budget>>

\* import_reference and remove_import run in the clone of an active round and
\* publish it.
SetImportsInRound ==
  /\ Idle /\ round.active
  /\ Publish(round.clone, mem.params)
  /\ stray' = {}
  /\ lapsed' = TRUE
  /\ UNCHANGED <<assembly, mem, timeline, round, job, vouched, sealed, torn, budget>>

-----------------------------------------------------------------------------
(* History *)

Goto(at) == job' = [job EXCEPT !.at = at]
AtTip == index = Len(commits)
Truncated == SubSeq(commits, 1, index)        \* the redo stack is dropped

\* Mutant: the tip need not be the commit under the cursor.
M_Replaces == (job.kind = "checkpoint" \/ (job.kind = "params" /\ burst)) /\ commits # <<>>

\* When the commit of a call amends the tip.
Replaces == (job.kind = "checkpoint" \/ (job.kind = "params" /\ burst)) /\ AtTip /\ commits # <<>>

\* Mutant: a checkpoint leaves the burst open.
M_BurstAfter == job.kind = "params" \/ (job.kind = "checkpoint" /\ burst)

\* A structural commit and a checkpoint end the burst.
BurstAfter == job.kind = "params"

Vouches == job.kind \in {"edit", "params", "imports"} \/ stray = {}

\* History.commit: git has the commit before the timeline file names it.
Commit ==
  /\ job.at = "commit"
  /\ LET new == Len(store) + 1
     IN /\ store' = Append(store, [tree |-> Of(live),
                                   parent |-> IF Replaces THEN store[branch].parent ELSE branch])
        /\ commits' = IF Replaces THEN [commits EXCEPT ![index] = new] ELSE Append(Truncated, new)
        /\ index' = Len(commits')
        /\ branch' = new
        /\ vouched' = IF Vouches THEN vouched \cup {new} ELSE vouched
        /\ sealed' = IF job.kind = "params" THEN sealed ELSE sealed \cup {new}
  /\ burst' = BurstAfter
  /\ Goto("save")
  /\ UNCHANGED <<assembly, disk, mem, saved, round, published, stray, lapsed, torn, budget>>

\* A commit that raises is logged, and the call goes on.
CommitFails ==
  /\ job.at = "commit" /\ Fails
  /\ job' = Rest("idle")
  /\ lapsed' = TRUE
  /\ UNCHANGED <<assembly, disk, mem, timeline, round, published, vouched, sealed, stray, torn,
                 clock, crashes>>

\* A call with two builds asks for two commits.
SaveTimeline ==
  /\ job.at = "save"
  /\ saved' = [commits |-> commits, index |-> index]
  /\ job' = IF job.kind = "imports" THEN Job("commit", "params", 0, NoSnap) ELSE Rest("idle")
  /\ UNCHANGED <<assembly, disk, mem, commits, index, branch, store, burst, round, observed, budget>>

\* COALESCE_WINDOW passes.
BurstEnds ==
  /\ Idle /\ burst
  /\ burst' = FALSE
  /\ UNCHANGED <<assembly, disk, mem, commits, index, saved, branch, store, round, job, observed, budget>>

\* checkpoint, refused while something can be redone.
Checkpoint ==
  /\ Idle /\ AtTip /\ Len(store) < MaxCommits
  /\ job' = Job("commit", "checkpoint", 0, NoSnap)
  /\ UNCHANGED <<assembly, disk, mem, timeline, round, observed, budget>>

\* undo, redo and goto.
Restore(i) ==
  /\ Outside /\ i # index
  /\ job' = Job("files", "restore", i,
                [NoSnap EXCEPT !.tree = Of(live), !.index = index, !.branch = branch])
  /\ UNCHANGED <<assembly, disk, mem, timeline, round, observed, budget>>

With(tree) == [f \in Files |-> IF f \in Tracked THEN tree[f] ELSE live[f]]

RestoreFiles ==
  /\ job.at = "files"
  /\ live' = With(store[commits[job.to]].tree)
  /\ Goto("branch")
  /\ UNCHANGED <<assembly, selected, mem, timeline, round, observed, budget>>

RestoreBranch ==
  /\ job.at = "branch"
  /\ branch' = commits[job.to]
  /\ Goto("cursor")
  /\ UNCHANGED <<assembly, disk, mem, commits, index, saved, store, burst, round, observed, budget>>

RestoreCursor ==
  /\ job.at = "cursor"
  /\ index' = job.to
  /\ saved' = [commits |-> commits, index |-> job.to]
  /\ Goto("rebuild")
  /\ UNCHANGED <<assembly, disk, mem, commits, branch, store, burst, round, observed, budget>>

\* Mutant: a restored assembly is built with the parameters in memory.
M_Rebuild ==
  /\ job.at = "rebuild" /\ Works
  /\ Publish(live, mem.params)
  /\ job' = Rest("idle")
  /\ stray' = stray \ Tracked /\ torn' = FALSE
  /\ UNCHANGED <<assembly, mem, timeline, round, vouched, sealed, lapsed, clock, crashes>>

\* _rebuild_after_restore: an assembly is built with the restored settings; one
\* model is run at its defaults first.
Rebuild ==
  /\ job.at = "rebuild" /\ Works
  /\ LET settings == live["settings"]
     IN IF assembly
        THEN /\ Publish(live, settings)
             /\ mem' = [mem EXCEPT !.params = settings]
             /\ job' = Rest("idle")
        ELSE /\ Publish(live, 0)
             /\ mem' = [params |-> 0, code |-> live["skeleton"]]
             /\ IF settings = 0 THEN job' = Rest("idle") ELSE Goto("params")
  /\ stray' = IF job'.at = "idle" THEN stray \ Tracked ELSE stray
  /\ torn' = FALSE
  /\ UNCHANGED <<assembly, timeline, round, vouched, sealed, lapsed, clock, crashes>>

\* The restored parameters of an assembly were loaded before it was built.
RebuildFails ==
  /\ job.at = "rebuild" /\ Fails
  /\ mem' = IF assembly THEN [mem EXCEPT !.params = 0] ELSE mem
  /\ torn' = (torn \/ assembly)
  /\ Goto("revert")
  /\ UNCHANGED <<assembly, disk, timeline, round, published, vouched, sealed, stray, lapsed, clock, crashes>>

\* Mutant: the timeline is left where the failed step moved it.
M_Revert ==
  /\ job.at = "revert"
  /\ live' = With(job.snap.tree)
  /\ job' = Rest("idle")
  /\ UNCHANGED <<assembly, selected, mem, timeline, round, observed, budget>>

\* revert_state.
Revert ==
  /\ job.at = "revert"
  /\ live' = With(job.snap.tree)
  /\ branch' = job.snap.branch
  /\ index' = job.snap.index
  /\ saved' = [commits |-> commits, index |-> job.snap.index]
  /\ job' = Rest("idle")
  /\ UNCHANGED <<assembly, selected, mem, commits, store, burst, round, observed, budget>>

-----------------------------------------------------------------------------
(* The second build of a call: set_params with the saved values *)

Saved == IF job.kind = "imports" THEN job.snap.params ELSE live["settings"]

SetSaved ==
  /\ job.at = "params" /\ Works
  /\ Publish([live EXCEPT !["settings"] = Saved], Saved)
  /\ mem' = [mem EXCEPT !.params = Saved]
  /\ job' = IF job.kind = "imports" THEN Job("commit", "imports", 0, NoSnap)
            ELSE IF job.kind = "startup" /\ commits = <<>> THEN Job("commit", "startup", 0, NoSnap)
            ELSE Rest("idle")
  /\ stray' = IF job.kind = "restore" THEN stray \ Tracked ELSE stray
  /\ UNCHANGED <<assembly, timeline, round, vouched, sealed, lapsed, torn, clock, crashes>>

\* What the first build published stays selected.
SetSavedFails ==
  /\ job.at = "params" /\ Fails
  /\ mem' = IF job.kind = "imports" THEN [params |-> job.snap.params, code |-> job.snap.code] ELSE mem
  /\ job' = IF job.kind = "restore" THEN [job EXCEPT !.at = "revert"]
            ELSE IF job.kind = "startup" /\ commits = <<>> THEN Job("commit", "startup", 0, NoSnap)
            ELSE Rest("idle")
  /\ torn' = TRUE
  /\ lapsed' = (lapsed \/ job.kind = "imports")
  /\ UNCHANGED <<assembly, disk, timeline, round, published, vouched, sealed, stray, clock, crashes>>

-----------------------------------------------------------------------------
(* The worker dies and is started again *)

Crash ==
  /\ job.at # "down" /\ crashes < MaxCrashes /\ Len(store) < MaxCommits
  /\ crashes' = crashes + 1
  /\ job' = Rest("down")
  /\ lapsed' = TRUE
  /\ UNCHANGED <<assembly, disk, mem, timeline, round, published, vouched, sealed, stray, torn, clock, failures>>

\* The branch's commits, oldest first.
Chain[id \in 0 .. Len(store)] == IF id = 0 THEN <<>> ELSE Append(Chain[store[id].parent], id)

\* _load_timeline; without a file the timeline is rebuilt from git.
Persisted == IF saved.commits = <<>> THEN [commits |-> Chain[branch], index |-> Len(Chain[branch])] ELSE saved
LoadTimeline == commits' = Persisted.commits /\ index' = Persisted.index

\* The selected generation is mirrored, the timeline read, the round forgotten.
Restart ==
  /\ job.at = "down"
  /\ live' = IF published = {} THEN live ELSE Mirror(selected.tree)
  /\ mem' = [params |-> 0, code |-> 0]
  /\ LoadTimeline
  /\ burst' = FALSE /\ round' = NoRound
  /\ stray' = IF Of(selected.tree) \in published THEN {} ELSE stray
  /\ job' = Job("build", "startup", 0, NoSnap)
  /\ UNCHANGED <<assembly, selected, saved, branch, store, published, vouched, sealed, lapsed, torn, budget>>

\* startup builds at the defaults, sets the saved parameters, and makes the
\* first commit of a repository, built or not.
Startup ==
  /\ job.at = "build" /\ Works
  /\ Publish(live, 0)
  /\ mem' = [params |-> 0, code |-> IF assembly THEN 0 ELSE live["skeleton"]]
  /\ job' = IF live["settings"] # 0 THEN [job EXCEPT !.at = "params"]
            ELSE IF commits = <<>> THEN Job("commit", "startup", 0, NoSnap) ELSE Rest("idle")
  /\ stray' = {} /\ torn' = FALSE
  /\ UNCHANGED <<assembly, timeline, round, vouched, sealed, lapsed, clock, crashes>>

StartupFails ==
  /\ job.at = "build" /\ Fails
  /\ job' = IF commits = <<>> THEN Job("commit", "startup", 0, NoSnap) ELSE Rest("idle")
  /\ torn' = TRUE
  /\ UNCHANGED <<assembly, disk, mem, timeline, round, published, vouched, sealed, stray, lapsed, clock, crashes>>

-----------------------------------------------------------------------------
Edit ==
  \/ ExecuteScript \/ RunFile \/ SetSkeleton \/ SetParams \/ Republish \/ Rerender \/ SetImports
  \/ \E p \in Parts : SetPart(p) \/ Rewire(p) \/ RemovePart(p)
  \/ \E f \in {"skeleton", "brief"} : WriteFile(f)
Round ==
  \/ BeginRound \/ EndRound \/ AbortRound \/ SetImportsInRound
  \/ \E p \in Parts : SetRoundPart(p) \/ SetRoundPartFails(p)
Step ==
  \/ Commit \/ CommitFails \/ SaveTimeline
  \/ RestoreFiles \/ RestoreBranch \/ RestoreCursor \/ Rebuild \/ RebuildFails \/ Revert
  \/ SetSaved \/ SetSavedFails \/ Restart \/ Startup \/ StartupFails
Next ==
  \/ Edit \/ Round \/ Step \/ Checkpoint \/ BurstEnds \/ Crash
  \/ \E i \in 1 .. Len(commits) : Restore(i)

Spec == Init /\ [][Next]_vars

-----------------------------------------------------------------------------
(* Properties *)

InLine == {commits[i] : i \in DOMAIN commits}
TreeAt(i) == store[commits[i]].tree

\* What the timeline offers to go back to was built as it is: neither a failed
\* build nor a mixture of a call's files with another's gets into it, unless a
\* checkpoint labels files that were edited by hand.
EntriesWereBuilt == \A i \in DOMAIN commits : commits[i] \in vouched => TreeAt(i) \in published

\* Between calls the git branch, the cursor in memory and the one on disk name
\* the same commit, and the timeline is the branch's chain of parents, whatever was
\* undone, redone, refused or amended (if no commit failed and no worker died).
CursorNamesBranch ==
  Idle /\ ~lapsed /\ index > 0 =>
    /\ branch = commits[index]
    /\ saved = [commits |-> commits, index |-> index]
    /\ \A i \in 2 .. Len(commits) : store[commits[i]].parent = commits[i - 1]

\* Between calls the files that history tracks are those of the commit under
\* the cursor, up to edits by hand: a failed undo puts every file back, and no
\* call publishes what it does not commit.
DiskAtCursor ==
  Idle /\ ~lapsed /\ index > 0 => \A f \in Tracked \ stray : live[f] = TreeAt(index)[f]

\* The parameters that the next set_params is merged into are those on disk, and
\* the live build function is that of the script on disk, unless a restore or
\* the second build of a call has just failed.
MemoryMatchesDisk ==
  Idle /\ ~torn =>
    /\ mem.params = live["settings"]
    /\ ~assembly /\ "skeleton" \notin stray => mem.code = live["skeleton"]

\* The selected geometry was built with the settings it is stored with.
BuiltWithItsSettings ==
  Idle /\ ~torn => selected.params = selected.tree["settings"]

\* A structural edit or a checkpoint leaves the timeline only with the redo
\* stack or for a checkpoint that relabels it, never for a parameter change.
SealedKept ==
  [][\A i \in DOMAIN commits :
       commits[i] \in sealed =>
         \/ commits[i] \in InLine'
         \/ i > index
         \/ job.kind = "checkpoint"
         \/ job.at = "down"]_vars

T == INSTANCE Timeline WITH
  stack <- [i \in DOMAIN Persisted.commits |-> store[Persisted.commits[i]].tree],
  cursor <- Persisted.index, written <- saved.commits # <<>>,
  Snapshots <- Snapshots

\* The timeline file only ever changes as the abstract timeline does, also when
\* the worker dies between a commit and the file.
TimelineImplemented == T!TSpec

\* History, the files and the builds agree between calls.
HistoryInStep == EntriesWereBuilt /\ CursorNamesBranch /\ DiskAtCursor

\* The session, its files and the selected geometry agree between calls.
SessionInStep == TypeOK /\ MemoryMatchesDisk /\ BuiltWithItsSettings
=============================================================================
