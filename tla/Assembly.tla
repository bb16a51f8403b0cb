------------------------------- MODULE Assembly -------------------------------
(***************************************************************************)
(* The authoring calls of an assembly workspace (session.py 1921-3090) and *)
(* what they leave: the files, the selected publication and the session's  *)
(* objects.  A call works on a clone of the files (_staged_mutation) and   *)
(* is one step; rounds, history and the worker's deaths are in Authoring,  *)
(* the caches in PartCache.  The user may edit the files between calls.    *)
(* No model.py is left in the workspace.                                   *)
(*                                                                         *)
(* An argument that is not passed is Null.                                 *)
(***************************************************************************)
EXTENDS Compose, Imports

CONSTANTS
  PartIds,      \* ids a call names, each a sequence of tokens
  Opened,       \* trees the workspace may hold when it is opened
  Skeletons,    \* skeletons a call may set
  Wirings,      \* wiring arguments: [attach, inputs, shapes]
  Lists,        \* arguments of set_occurrences
  NodesByHand,  \* sub-assemblies as the user may write them
  MaxEdits      \* bound: calls and edits by hand

ASSUME AssemblyAssumption == MaxEdits \in Nat

VARIABLES
  live,      \* the workspace's files
  selected,  \* the selected publication: [tree, objects]
  memory,    \* _param_values, _objects, whether these were composed, and
             \* _reference_status: [value, objects, composed, status]
  stray,     \* files were edited by hand since the session last published from them
  rewired,   \* the children whose wiring was ever written by hand
  edits
vars == <<live, selected, memory, stray, rewired, edits>>

Places == [frame : Names \cup {Null}, mirror : Mirrors]
Entries ==
  [id : PartIds, kind : {"part", "assembly"}, attach : Names \cup {Null}, inputs : SUBSET Names,
   shapes : SUBSET Names, occurrences : {Null} \cup Seq(Places)]
Sources == [PartIds -> DOMAIN Shows \cup {Null}]
Nodes == [skeleton : Published \cup {Null}, children : Seq(Entries), parts : Sources]
Trees == [skeleton : Published \cup {Null}, children : Seq(Entries), parts : Sources,
          nodes : [PartIds -> Nodes \cup {Null}], imports : Seq(ImportEntries),
          assets : SUBSET Files]

ASSUME CallsAssumption ==
  /\ PartIds \subseteq Seq(Tokens) /\ DOMAIN Cad \subseteq Tokens
  /\ Skeletons \subseteq Published /\ Lists \subseteq Seq(Places)
  /\ Wirings \subseteq [attach : Names \cup {Null}, inputs : {Null} \cup SUBSET Names,
                      shapes : {Null} \cup SUBSET Names]
  /\ NodesByHand \subseteq Nodes /\ Null \notin Nodes

\* The first occurrence is where attach says, but for the wiring of some.
AttachFirst(tree, others) ==
  \A c \in ToSet(tree.children) :
    c.id \notin others /\ c.occurrences # Null => c.attach = c.occurrences[1].frame

\* Every entry has its source and every source its entry.
Sourced(tree) ==
  \A id \in PartIds :
    /\ tree.parts[id] # Null <=> (Has(tree, id) /\ IsPart(Child(tree, id)))
    /\ tree.nodes[id] # Null <=> (Has(tree, id) /\ ~IsPart(Child(tree, id)))

\* The calls left a workspace the way that they keep it; no import is in it yet.
ASSUME OpenedAssumption ==
  \A tree \in Opened :
    /\ tree \in Trees /\ tree.imports = <<>> /\ IsFiniteSet(tree.assets)
    /\ Cardinality(Ids(tree)) = Len(tree.children)
    /\ AttachFirst(tree, {}) /\ Sourced(tree)

TypeOK ==
  /\ live \in Trees /\ Cardinality(Ids(live)) = Len(live.children)
  /\ DOMAIN selected = {"tree", "objects"} /\ selected.tree \in Trees
  /\ DOMAIN memory = {"value", "objects", "composed", "status"}
  /\ memory.value \in Values /\ memory.composed \in BOOLEAN
  /\ stray \in BOOLEAN /\ rewired \subseteq PartIds /\ edits \in 0 .. MaxEdits

\* The workspace was opened and its assembly built at the skeleton's defaults.
Init ==
  /\ live \in Opened
  /\ LET v == DescribedAt(live)
     IN /\ Builds(live, v)
        /\ selected = [tree |-> live, objects |-> Objects(live, v)]
        /\ memory = [value |-> v, objects |-> selected.objects, composed |-> TRUE,
                     status |-> {}]
  /\ stray = FALSE /\ rewired = {} /\ edits = 0

-----------------------------------------------------------------------------
(* Builds *)

Step == edits < MaxEdits /\ edits' = edits + 1
Edit == Step /\ UNCHANGED rewired

\* Children that compose to no object fail the build, no child at all does not.
Hollow(tree, v) == tree.children # <<>> /\ Objects(tree, v) = <<>>

\* The composition does not look at imports.json, and leaves the statuses.
Publish(tree, v) ==
  LET objects == Objects(tree, v)
  IN /\ live' = tree
     /\ selected' = [tree |-> tree, objects |-> objects]
     /\ memory' = [memory EXCEPT !.value = v, !.objects = objects, !.composed = TRUE]
     /\ stray' = FALSE

\* The clone goes, and what _staged_mutation keeps of the session is put back.
Refuse == UNCHANGED <<live, selected, memory, stray>>

\* _build_assembly in the clone; the call's own rollback and the clone go together.
Build(tree, v) ==
  IF Builds(tree, v) /\ ~Hollow(tree, v) THEN Publish(tree, v) ELSE Refuse

\* Mutant: the session keeps the objects it had.
M_PublishEmpty(tree, v) ==
  /\ live' = tree /\ selected' = [tree |-> tree, objects |-> <<>>]
  /\ memory' = [memory EXCEPT !.value = v, !.composed = TRUE] /\ stray' = FALSE

\* _publish_empty_assembly_state.
PublishEmpty(tree, v) ==
  /\ live' = tree /\ selected' = [tree |-> tree, objects |-> <<>>]
  /\ memory' = [memory EXCEPT !.value = v, !.objects = <<>>, !.composed = TRUE] /\ stray' = FALSE

\* _rebuild_after_structure_edit.
RebuildAfter(tree, v) ==
  IF Builds(tree, v) /\ Hollow(tree, v) THEN PublishEmpty(tree, v) ELSE Build(tree, v)

-----------------------------------------------------------------------------
(* Calls *)

Passed(value, kept) == IF value = Null THEN kept ELSE value

\* _load_assembly_params resets the values to the new skeleton's defaults.
SetSkeleton(s) ==
  /\ Edit
  /\ IF Loads(live) THEN Build([live EXCEPT !.skeleton = s], s.default) ELSE Refuse

\* The entry a set_part writes: an existing wiring is kept but for what is
\* passed, and the occurrences are not carried over.
PartEntry(id, w) ==
  LET old == IF Has(live, id) THEN Child(live, id)
             ELSE [attach |-> Null, inputs |-> {}, shapes |-> {}]
  IN [id |-> id, kind |-> "part", attach |-> Passed(w.attach, old.attach),
      inputs |-> Passed(w.inputs, old.inputs), shapes |-> Passed(w.shapes, old.shapes),
      occurrences |-> Null]

SetPart(id, text, w) ==
  /\ Edit
  /\ IF Loads(live) /\ (Has(live, id) => IsPart(Child(live, id)))
     THEN Build(Upsert([live EXCEPT !.parts[id] = text], PartEntry(id, w)), memory.value)
     ELSE Refuse

\* A refused wiring is taken back and the manifest as it was is built again,
\* which publishes; the session's objects are put back by _staged_mutation.
Rewire(id, entry) ==
  LET new == Upsert(live, entry)
      v == memory.value
  IN IF Builds(new, v) /\ ~Hollow(new, v) THEN Publish(new, v)
     ELSE IF Builds(live, v) /\ ~Hollow(live, v)
     THEN /\ selected' = [tree |-> live, objects |-> Objects(live, v)]
          /\ UNCHANGED <<live, memory, stray>>
     ELSE Refuse

\* Mutant: attach leaves the list of occurrences alone.
M_Reattached(c, f) == [c EXCEPT !.attach = f]

\* attach moves the first occurrence along.
Reattached(c, f) ==
  [c EXCEPT !.attach = f, !.occurrences = IF @ = Null THEN @ ELSE [@ EXCEPT ![1].frame = f]]

Attach(id, f) ==
  /\ Edit
  /\ IF Loads(live) /\ Has(live, id) THEN Rewire(id, Reattached(Child(live, id), f)) ELSE Refuse

SetInputs(id, names) ==
  /\ Edit
  /\ IF Loads(live) /\ Has(live, id)
     THEN Rewire(id, [Child(live, id) EXCEPT !.inputs = names]) ELSE Refuse

\* set_occurrences refuses a list that load_manifest would.
ListAccepted(list) == list # <<>> /\ \A o \in ToSet(list) : o.mirror \in Mirrors

SetOccurrences(id, list) ==
  /\ Edit
  /\ IF ListAccepted(list) /\ Loads(live) /\ Has(live, id)
     THEN Rewire(id, [Child(live, id) EXCEPT
                        !.occurrences = list, !.attach = list[1].frame])
     ELSE Refuse

\* The entry goes, and with it parts/<id>.py or the directory <id>/.
Deleted(tree, id) ==
  IF IsPart(Child(tree, id)) THEN [Without(tree, id) EXCEPT !.parts[id] = Null]
  ELSE [Without(tree, id) EXCEPT !.nodes[id] = Null]

RemovePart(id) ==
  /\ Edit
  /\ IF Loads(live) /\ Has(live, id) THEN RebuildAfter(Deleted(live, id), memory.value) ELSE Refuse

EmptyNode == [skeleton |-> Null, children |-> <<>>, parts |-> [id \in PartIds |-> Null]]

\* An existing <id>/assembly.json is kept, an existing entry replaced.
AddSubassembly(id, w) ==
  /\ Edit
  /\ IF Loads(live) /\ (Has(live, id) => ~IsPart(Child(live, id)))
     THEN RebuildAfter(
            Upsert([live EXCEPT !.nodes[id] = Passed(@, EmptyNode)],
                   [id |-> id, kind |-> "assembly", attach |-> w.attach, shapes |-> {},
                    inputs |-> Passed(w.inputs, {}), occurrences |-> Null]),
            memory.value)
     ELSE Refuse

SetParams(v) == Edit /\ Build(live, v)

-----------------------------------------------------------------------------
(* Imports *)

\* stage_import copies into the workspace itself, no build follows.
StageImport(stem) ==
  /\ Edit /\ Cad[stem] # "none"
  /\ live' = [live EXCEPT !.assets = Staged(@, stem)]
  /\ UNCHANGED <<selected, memory, stray>>

ReferenceObjects(imports) ==
  LET loaded == References(imports)
  IN [i \in DOMAIN loaded |->
        [name |-> <<<<loaded[i].id[1], Numeral(loaded[i].id[2])>>>>, solid |-> TRUE, at |-> <<>>,
         made |-> [text |-> loaded[i].path[1], inputs |-> {}, value |-> Alone, shapes |-> {}]]]

\* _rerender_with_references: without a model.py the registry is rendered,
\* which in an assembly holds the references and nothing else; render_to
\* raises when there is none.
Rerender(tree) ==
  LET objects == ReferenceObjects(tree.imports)
  IN IF objects = <<>> THEN Refuse
     ELSE /\ live' = tree /\ selected' = [tree |-> tree, objects |-> objects]
          /\ memory' = [memory EXCEPT !.objects = objects, !.composed = FALSE,
                                      !.status = StatusOf(tree.imports)]
          /\ UNCHANGED stray

ImportReference(stem, required) ==
  /\ Edit
  /\ IF CanRefer(stem)
     THEN Rerender([live EXCEPT !.assets = Staged(@, stem),
                                !.imports = Added(@, live.assets, stem, required)])
     ELSE Refuse

RemoveImport(id) ==
  /\ Edit
  /\ Rerender([live EXCEPT !.imports = Removed(@, id)])

\* The user reverses the children, changes a part's text, or writes a
\* sub-assembly's files.
EditSources ==
  \/ live' = [live EXCEPT !.children = Reverse(@)]
  \/ \E c \in ToSet(live.children), text \in DOMAIN Shows :
       IsPart(c) /\ live' = [live EXCEPT !.parts[c.id] = text]
  \/ \E c \in ToSet(live.children), node \in NodesByHand :
       ~IsPart(c) /\ live' = [live EXCEPT !.nodes[c.id] = node]

\* The same, or an entry's wiring.
EditByHand ==
  /\ Step /\ stray' = TRUE /\ UNCHANGED <<selected, memory>>
  /\ \/ \E c \in ToSet(live.children) :
          /\ rewired' = rewired \cup {c.id}
          /\ \/ \E list \in Lists : live' = Upsert(live, [c EXCEPT !.occurrences = list])
             \/ \E w \in Wirings :
                  live' = Upsert(live, [c EXCEPT !.attach = w.attach, !.inputs = Passed(w.inputs, @),
                                                 !.shapes = Passed(w.shapes, @)])
     \/ UNCHANGED rewired /\ EditSources

Next ==
  \/ \E s \in Skeletons : SetSkeleton(s)
  \/ \E id \in PartIds, w \in Wirings :
       (\E text \in DOMAIN Shows : SetPart(id, text, w)) \/ AddSubassembly(id, w)
  \/ \E id \in PartIds :
       \/ RemovePart(id)
       \/ \E f \in Names \cup {Null} : Attach(id, f)
       \/ \E w \in Wirings : w.inputs # Null /\ SetInputs(id, w.inputs)
       \/ \E list \in Lists : SetOccurrences(id, list)
  \/ \E v \in Values : SetParams(v)
  \/ \E stem \in DOMAIN Cad : StageImport(stem) \/ \E r \in BOOLEAN : ImportReference(stem, r)
  \/ \E i \in DOMAIN live.imports : RemoveImport(live.imports[i].id)
  \/ EditByHand

Spec == Init /\ [][Next]_vars

-----------------------------------------------------------------------------
(* Properties *)

\* While nobody edits by hand and no import was the last to publish, the
\* files, the selected publication, the session's objects and its parameter
\* say the same: what the tools measure is what is published, and that is
\* what the files compose to.
ModelIsItsFiles ==
  ~stray /\ memory.composed =>
            /\ memory.objects = selected.objects
            /\ selected.objects = Objects(live, memory.value)

\* The first occurrence is where attach says (manifest.py: "attach is kept in
\* sync"), through every order of attach, set_occurrences, set_part, removals
\* and failed calls, but for a child whose wiring somebody wrote by hand.
AttachIsFirst == AttachFirst(live, rewired)

\* Every entry has its source and every source its entry: a removed or
\* refused part leaves no file that a later call finds.
SourcesHaveEntries == Sourced(live)

\* A run of the exported flat model shows what the session composed, names,
\* geometry and places, for a skeleton whose PARAMS is a literal (flatten.py:
\* "reproduces the CURRENT composed model after any set_params").
FlatReproduces ==
  ~stray /\ memory.composed /\ (live.skeleton # Null => live.skeleton.literal) =>
    FlatRun(Flattened(live, memory.value)) = memory.objects

\* The interface check reports a missing name exactly when the wiring, edited
\* by hand or not, would make a build at the default parameters raise, but for a
\* sub-assembly whose frames at what it is given are not those at the 1 that the
\* check gives it (tree.py, assembly_tree).
WiringFaults == {"missing_attach_frame", "missing_input", "missing_shape_input"}
FramesAtOne(tree) ==
  \A c \in ToSet(tree.children) : ~IsPart(c) =>
    LET frames == Skeleton(tree.nodes[c.id]).frames
    IN frames[ValueBelow(c, DescribedAt(tree))] = frames[ValueBelow(c, 1)]
IssuesPredictBuild ==
  Described(live) /\ FramesAtOne(live) =>
    (NodeWired(live, DescribedAt(live)) <=> \A i \in Issues(live) : i[1] \notin WiringFaults)

\* When the diff between a composed publication and the files says that
\* nothing changed, and the sub-assemblies are the same, a build gives the
\* same objects, the order of the children apart.
DiffTellsWiring ==
  (memory.composed /\ Loads(live) /\ Diff(selected.tree, live) = NoChange /\ selected.tree.nodes = live.nodes) =>
    /\ Builds(live, memory.value)
    /\ ToSet(Objects(live, memory.value)) = ToSet(Objects(selected.tree, memory.value))

\* No two composed objects have the same id, whatever the parts call them.
IdsAreDistinct == Cardinality(ToSet(NodeIds(memory.objects))) = Len(memory.objects)

\* get_part_info counts a part's own solids, over all its occurrences, unless
\* a segment of another child has the same slug (wheel@2 and wheel_2) or the
\* objects are the references that an import has published (wheel_2 again).
PartInfoCountsOwn ==
  ~stray /\ memory.composed => \A id \in Ids(live) :
    LET slugs(i) == {Slug(s) : s \in Segments(live, i)}
    IN (\A other \in Ids(live) \ {id} : slugs(id) \cap slugs(other) = {}) =>
         PartSolids(live, id, memory.objects) =
           Cardinality({i \in DOMAIN memory.objects :
                          memory.objects[i].solid /\ memory.objects[i].name[1] \in Segments(live, id)})

\* Every import has an id and a file of its own, through any order of staging,
\* importing and removing (a removed import leaves its file in assets/).
ImportsApart ==
  LET entries == ToSet(live.imports)
  IN /\ \A e \in entries : e.path \in live.assets
     /\ \A e, f \in entries : e.id = f.id \/ e.path = f.path => e = f
     /\ Cardinality(entries) = Len(live.imports)

\* The reference statuses that readiness goes by are those of the manifest's
\* imports: an import and a removal that are refused leave both as they were.
StatusIsManifest == memory.status = StatusOf(live.imports)

\* The session says what its files say, of the model and of the imports.
SessionIsItsFiles == TypeOK /\ ModelIsItsFiles /\ StatusIsManifest

\* The manifests are sound: wiring in step, sources and entries one to one,
\* imports apart.
ManifestsSound == AttachIsFirst /\ SourcesHaveEntries /\ ImportsApart

\* What is reported without a build agrees with what a build makes: the
\* interface check, the diff, the ids and the count of a part's solids.
ReportsAgree == IssuesPredictBuild /\ DiffTellsWiring /\ IdsAreDistinct /\ PartInfoCountsOwn
=============================================================================
