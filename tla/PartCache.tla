------------------------------ MODULE PartCache ------------------------------
(***************************************************************************)
(* The two caches a part of an assembly is built through (graph.py,        *)
(* cache.py, diskcache.py, serialize.py): the session's memory and the     *)
(* files below .solidifai-cache.  The part reads an imported asset, which  *)
(* is no part of the key: an entry names the file it read, by its absolute *)
(* path, and the hash it had.  A build runs in the workspace (startup,     *)
(* undo, build_part), in a clone that is deleted when the call ends, or in *)
(* the clone of an authoring round, and each has the asset at a path of    *)
(* its own.                                                                *)
(*                                                                         *)
(* A geometry is the source, the scalar input and the asset content it was *)
(* built from.                                                             *)
(***************************************************************************)
EXTENDS Naturals

CONSTANTS
  Sources,     \* texts of parts/<id>.py
  Scalars,     \* the input's values: [type, value]
  Assets,      \* contents of the imported file
  Shells,      \* those that make a part with geometry that is no solid
  MaxEdits,    \* bound: edits of the asset by hand
  MaxClones,   \* bound: clones ever made
  MaxCrashes   \* bound: deaths of the worker

ASSUME CacheAssumption ==
  /\ Shells \subseteq Assets
  /\ {MaxEdits, MaxClones, MaxCrashes} \subseteq Nat
  /\ \A s \in Scalars : s = [type |-> s.type, value |-> s.value]

Workspace == 0
Roots == 0 .. MaxClones
Trees == [source : Sources, scalar : Scalars, asset : Assets]

\* What a build of the tree gives without a cache.
Geometry(tree) == tree
None == [none |-> TRUE]

VARIABLES
  live,      \* the workspace's tree
  round,     \* the authoring round's clone: [root, tree], or None
  call,      \* the build under way: [at, root, tree, geom, fp]
  memory,    \* NodeCache: per key [geom, fp], or None
  brep,      \* DiskCache, the geometry file per key
  meta,      \* DiskCache, the sidecar per key: [fp, cacheable], or None
  selected,  \* the last publication: [tree, geom], or None
  clones, edits, crashes,
  raced,     \* the asset was edited while a build or a round had read or copied it
  torn       \* the worker died between the two files of an entry

caches == <<memory, brep, meta>>
ghosts == <<raced, torn>>
vars == <<live, round, call, caches, selected, clones, edits, crashes, ghosts>>

\* _canon_scalar: the type goes into the form.
CanonScalar(s) == <<s.type, s.value>>

\* part_key.
Key(tree) == <<tree.source, CanonScalar(tree.scalar)>>
Keys == {Key(t) : t \in Trees}

Prints == [root : Roots, asset : Assets]
Steps == {"lookup", "run", "print", "brep", "meta", "publish"}
Calls == [at : Steps, root : Roots, tree : Trees, geom : Trees \cup {None}, fp : Prints \cup {None}]
Idle == call = None

TypeOK ==
  /\ live \in Trees
  /\ round \in [root : Roots, tree : Trees] \cup {None}
  /\ call \in Calls \cup {None}
  /\ memory \in [Keys -> [geom : Trees, fp : Prints \cup {None}] \cup {None}]
  /\ brep \in [Keys -> Trees \cup {None}]
  /\ meta \in [Keys -> [fp : Prints, cacheable : BOOLEAN] \cup {None}]
  /\ selected \in [tree : Trees, geom : Trees] \cup {None}
  /\ clones \in Roots /\ edits \in 0 .. MaxEdits /\ crashes \in 0 .. MaxCrashes
  /\ raced \in BOOLEAN /\ torn \in BOOLEAN

Init ==
  /\ live \in Trees
  /\ round = None /\ call = None
  /\ memory = [k \in Keys |-> None] /\ brep = memory /\ meta = memory
  /\ selected = None
  /\ clones = 0 /\ edits = 0 /\ crashes = 0
  /\ raced = FALSE /\ torn = FALSE

\* The tree a build in this root sees.
TreeAt(root) ==
  IF root = Workspace THEN live
  ELSE IF round # None /\ round.root = root THEN round.tree ELSE call.tree

Present(root) == root = Workspace \/ (round # None /\ round.root = root) \/ (~Idle /\ call.root = root)

\* asset_fingerprint of the recorded path gives what was recorded.  A file that
\* is gone has no hash, and an entry without a fingerprint is not checked.
Holds(fp) == fp = None \/ (Present(fp.root) /\ TreeAt(fp.root).asset = fp.asset)

Begin(root, tree) == call' = [at |-> "lookup", root |-> root, tree |-> tree, geom |-> None, fp |-> None]

\* startup, undo, redo, goto and build_part; in a round, build_part alone.
BuildWorkspace ==
  /\ Idle
  /\ Begin(Workspace, live)
  /\ UNCHANGED <<live, round, caches, selected, clones, edits, crashes, ghosts>>

\* set_part, set_params, attach ...: a clone of the workspace with the edit in it.
BuildClone(source, scalar) ==
  /\ Idle /\ round = None /\ clones < MaxClones
  /\ clones' = clones + 1
  /\ Begin(clones', [live EXCEPT !.source = source, !.scalar = scalar])
  /\ UNCHANGED <<live, round, caches, selected, edits, crashes, ghosts>>

BeginRound ==
  /\ Idle /\ round = None /\ clones < MaxClones
  /\ clones' = clones + 1
  /\ round' = [root |-> clones', tree |-> live]
  /\ UNCHANGED <<live, call, caches, selected, edits, crashes, ghosts>>

\* set_part of a round builds the part alone; end_round composes the clone.
RoundSetPart(source) ==
  /\ Idle /\ round # None
  /\ round' = [round EXCEPT !.tree.source = source]
  /\ Begin(round.root, round'.tree)
  /\ UNCHANGED <<live, caches, selected, clones, edits, crashes, ghosts>>

AbortRound ==
  /\ Idle /\ round # None
  /\ round' = None
  /\ UNCHANGED <<live, call, caches, selected, clones, edits, crashes, ghosts>>

EditAsset(content) ==
  /\ edits < MaxEdits /\ content # live.asset
  /\ edits' = edits + 1
  /\ live' = [live EXCEPT !.asset = content]
  /\ raced' = (raced \/ ~Idle \/ round # None)
  /\ UNCHANGED <<round, call, caches, selected, clones, crashes, torn>>

Goto(at) == call' = [call EXCEPT !.at = at]
K == Key(call.tree)
InMemory == memory[K] # None /\ Holds(memory[K].fp)
OnDisk == meta[K] # None /\ Holds(meta[K].fp) /\ meta[K].cacheable /\ brep[K] # None

\* build_child asks the memory.
HitMemory ==
  /\ ~Idle /\ call.at = "lookup" /\ InMemory
  /\ call' = [call EXCEPT !.at = "publish", !.geom = memory[K].geom]
  /\ UNCHANGED <<live, round, caches, selected, clones, edits, crashes, ghosts>>

\* Mutant: the entry promoted to the memory has no fingerprint.
M_Promoted(geom, fp) == [geom |-> geom, fp |-> None]

\* An entry promoted to the memory is checked like the one on disk.
Promoted(geom, fp) == [geom |-> geom, fp |-> fp]

HitDisk ==
  /\ ~Idle /\ call.at = "lookup" /\ ~InMemory /\ OnDisk
  /\ call' = [call EXCEPT !.at = "publish", !.geom = brep[K]]
  /\ memory' = [memory EXCEPT ![K] = Promoted(brep[K], meta[K].fp)]
  /\ UNCHANGED <<live, round, brep, meta, selected, clones, edits, crashes, ghosts>>

\* run_part reads the asset below the root it is built in.
RunPart ==
  /\ ~Idle /\ call.at = "lookup" /\ ~InMemory /\ ~OnDisk
  /\ call' = [call EXCEPT !.at = "print",
                          !.geom = Geometry([call.tree EXCEPT !.asset = TreeAt(call.root).asset])]
  /\ UNCHANGED <<live, round, caches, selected, clones, edits, crashes, ghosts>>

\* The fingerprint is taken when the part has been built.
Fingerprint ==
  /\ ~Idle /\ call.at = "print"
  /\ LET fp == [root |-> call.root, asset |-> TreeAt(call.root).asset]
     IN /\ call' = [call EXCEPT !.at = "brep", !.fp = fp]
        /\ memory' = [memory EXCEPT ![K] = [geom |-> call.geom, fp |-> fp]]
  /\ UNCHANGED <<live, round, brep, meta, selected, clones, edits, crashes, ghosts>>

Cacheable == call.geom.asset \notin Shells

\* dump_result replaces one file after the other: the geometry and then the
\* sidecar, or, for what cannot be stored, the marker and then nothing.
DumpFirst ==
  /\ ~Idle /\ call.at = "brep"
  /\ IF Cacheable THEN brep' = [brep EXCEPT ![K] = call.geom] /\ UNCHANGED meta
     ELSE meta' = [meta EXCEPT ![K] = [fp |-> call.fp, cacheable |-> FALSE]] /\ UNCHANGED brep
  /\ Goto("meta")
  /\ UNCHANGED <<live, round, memory, selected, clones, edits, crashes, ghosts>>

DumpSecond ==
  /\ ~Idle /\ call.at = "meta"
  /\ IF Cacheable THEN meta' = [meta EXCEPT ![K] = [fp |-> call.fp, cacheable |-> TRUE]] /\ UNCHANGED brep
     ELSE brep' = [brep EXCEPT ![K] = None] /\ UNCHANGED meta
  /\ Goto("publish")
  /\ UNCHANGED <<live, round, memory, selected, clones, edits, crashes, ghosts>>

\* The composed generation is selected with the inputs of its root, and
\* mirrored: a clone's asset replaces the workspace's.
Publish ==
  /\ ~Idle /\ call.at = "publish"
  /\ call.root = Workspace => round = None
  /\ LET tree == [call.tree EXCEPT !.asset = TreeAt(call.root).asset]
     IN /\ selected' = [tree |-> tree, geom |-> call.geom]
        /\ live' = tree
  /\ call' = None
  /\ round' = IF round # None /\ round.root = call.root THEN None ELSE round
  /\ UNCHANGED <<caches, clones, edits, crashes, ghosts>>

\* A call that ends without a publication: a part of a round, a compose that
\* fails because of another part.
EndUnpublished ==
  /\ ~Idle /\ call.at = "publish"
  /\ call' = None
  /\ UNCHANGED <<live, round, caches, selected, clones, edits, crashes, ghosts>>

\* The worker dies: the memory, the round and the clones are gone.
Crash ==
  /\ crashes < MaxCrashes /\ crashes' = crashes + 1
  /\ memory' = [k \in Keys |-> None]
  /\ call' = None /\ round' = None
  /\ torn' = (torn \/ (~Idle /\ call.at = "meta"))
  /\ UNCHANGED <<live, brep, meta, selected, clones, edits, raced>>

Next ==
  \/ BuildWorkspace \/ BeginRound \/ AbortRound
  \/ \E s \in Sources, v \in Scalars : BuildClone(s, v)
  \/ \E s \in Sources : RoundSetPart(s)
  \/ \E a \in Assets : EditAsset(a)
  \/ HitMemory \/ HitDisk \/ RunPart \/ Fingerprint \/ DumpFirst \/ DumpSecond
  \/ Publish \/ EndUnpublished \/ Crash

Spec == Init /\ [][Next]_vars

-----------------------------------------------------------------------------
Fresh(s) == s = None \/ s.geom = Geometry(s.tree)

\* What is published is what its own inputs build, however it was found: in
\* memory, on disk, promoted, after an edit of the asset or of the source, in a
\* clone or in the workspace.  Excused are an asset edited by hand under a build or
\* a round, and an entry whose files were torn apart (graph.py, build_child).
PublishedIsFresh == raced \/ torn \/ Fresh(selected)

Sound(k, geom, fp) == Key(geom) = k /\ geom.asset = fp.asset

\* No entry is of another key or of another asset than its fingerprint says, in
\* either cache, from whatever root it came.
EntriesSound ==
  raced \/ torn \/
    \A k \in Keys :
      /\ memory[k] # None => memory[k].fp # None /\ Sound(k, memory[k].geom, memory[k].fp)
      /\ meta[k] # None /\ meta[k].cacheable /\ brep[k] # None
           => (~Idle /\ call.at = "meta" /\ k = K) \/ Sound(k, brep[k], meta[k].fp)

\* Both: what the caches hold makes every build fresh.
CachesSound == TypeOK /\ EntriesSound /\ PublishedIsFresh
=============================================================================
