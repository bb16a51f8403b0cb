------------------------------- MODULE Compose -------------------------------
(***************************************************************************)
(* What an assembly's files compose to, and what the engine says of them   *)
(* without composing: manifest.py, graph.py, compose.py, runner.py and     *)
(* skeleton_api.py, the ids of render.py, the flat export (flatten.py),    *)
(* the tree (tree.py) with the interface check of session.py, the          *)
(* structural diff (diff.py).                                              *)
(*                                                                         *)
(* A node is a skeleton, the manifest's children and the texts of parts/;  *)
(* the root also has nodes, its sub-assemblies, whose children are parts   *)
(* (the bound on nesting).  A skeleton publishes names; its scalars have   *)
(* the value it runs at: the root's one parameter, or for a sub-assembly   *)
(* what it was given by its parent, 0 when that is nothing.  A segment of  *)
(* a path is the sequence of its tokens, "@" being a token.                *)
(***************************************************************************)
EXTENDS Selection

CONSTANTS
  Null,
  Names,    \* names of frames, scalars and shapes
  Shows,    \* Shows[text]: the objects a part's text shows, <<>> when it raises: [name, solid]
  Values,   \* values of the skeleton's parameter
  Tokens,   \* what names are made of
  Numeral(_)   \* the token of a number

\* The check of the interfaces gives 1 for what it does not know; a name of what a
\* part shows is a sequence of tokens.
ASSUME ComposeAssumption ==
  /\ Values \subseteq Nat \ {0} /\ 1 \in Values
  /\ Null \notin DOMAIN Shows
  /\ {"@", "none", "origin"} \subseteq Tokens
  /\ \A text \in DOMAIN Shows : Shows[text] \in Seq([name : Seq(Tokens), solid : BOOLEAN])

Alone == 0
Mirrors == {Null, "xy", "yz", "zx"}
Occurrence(frame, mirror) == [frame |-> frame, mirror |-> mirror]
Published == [id : Tokens, frames : [Values \cup {Alone} -> SUBSET Names], scalars : SUBSET Names,
              shapes : SUBSET Names, needs : SUBSET Names, literal : BOOLEAN, default : Values,
              joints : SUBSET [frame : Names, between : SUBSET Seq(Tokens)]]

-----------------------------------------------------------------------------
(* manifest.py *)

\* effective_occurrences.
Effective(c) == IF c.occurrences = Null THEN <<Occurrence(c.attach, Null)>> ELSE c.occurrences

\* load_manifest raises otherwise.
Loads(node) ==
  \A i \in DOMAIN node.children :
    LET c == node.children[i]
    IN c.occurrences # Null =>
         c.occurrences # <<>> /\ \A o \in ToSet(c.occurrences) : o.mirror \in Mirrors

Positions(node, id) == {i \in DOMAIN node.children : node.children[i].id = id}
Has(node, id) == Positions(node, id) # {}
Child(node, id) == node.children[CHOOSE i \in Positions(node, id) : TRUE]

\* upsert_child: in its place, or at the end.
Upsert(node, entry) ==
  [node EXCEPT !.children =
     IF Has(node, entry.id)
     THEN [i \in DOMAIN @ |-> IF @[i].id = entry.id THEN entry ELSE @[i]]
     ELSE Append(@, entry)]

\* remove_child.
Without(node, id) == [node EXCEPT !.children = Kept(@, {c \in ToSet(@) : c.id # id})]

-----------------------------------------------------------------------------
(* graph.py, runner.py, skeleton_api.py, compose.py *)

NoSkeleton ==
  [id |-> "none", frames |-> [e \in Values \cup {Alone} |-> {}], scalars |-> {}, shapes |-> {},
   joints |-> {}, needs |-> {}]
Skeleton(node) == IF node.skeleton = Null THEN NoSkeleton ELSE node.skeleton
ValueBelow(c, e) == IF c.inputs = {} THEN Alone ELSE e

\* resolve_inputs, resolve_shapes and frame_for raise on a name that is not published.
InputsResolve(skel, c) ==
  c.inputs \subseteq skel.scalars /\ (c.kind = "part" => c.shapes \subseteq skel.shapes)
FramesResolve(skel, c, e) ==
  \A o \in ToSet(Effective(c)) : o.frame = Null \/ o.frame \in skel.frames[e]

\* Every name the node's wiring uses is published; a skeleton finds what it reads of its parent.
Wired(node, e, given) ==
  /\ Skeleton(node).needs \subseteq given
  /\ \A c \in ToSet(node.children) :
       InputsResolve(Skeleton(node), c) /\ FramesResolve(Skeleton(node), c, e)

\* A part that shows no solid raises.
PartBuilds(node, c) ==
  node.parts[c.id] # Null /\ \E o \in ToSet(Shows[node.parts[c.id]]) : o.solid
IsPart(c) == c.kind = "part"

\* build_node raises nothing.
NodeWired(tree, v) ==
  /\ Loads(tree) /\ Wired(tree, v, {})
  /\ \A c \in ToSet(tree.children) : ~IsPart(c) =>
       Loads(tree.nodes[c.id]) /\ Wired(tree.nodes[c.id], ValueBelow(c, v), c.inputs)
PartsBuild(tree) ==
  \A c \in ToSet(tree.children) :
    IF IsPart(c) THEN PartBuilds(tree, c)
    ELSE \A d \in ToSet(tree.nodes[c.id].children) : PartBuilds(tree.nodes[c.id], d)
Builds(tree, v) == NodeWired(tree, v) /\ PartsBuild(tree)

\* occurrence_prefixes: the bare id, then <id>@2, <id>@3.
Prefix(id, k) == IF k = 1 THEN id ELSE id \o <<"@", Numeral(k)>>

\* place: an object below a prefix, reflected and moved.
Place(objects, prefix, where) ==
  [i \in DOMAIN objects |-> [objects[i] EXCEPT !.name = <<prefix>> \o @, !.at = <<where>> \o @]]
Where(skel, e, o) ==
  [frame |-> IF o.frame = Null THEN <<"origin">> ELSE <<skel.id, o.frame, Numeral(e)>>,
   mirror |-> o.mirror]

\* build_child of a part: its own objects, made of the text and what it reads.
PartObjects(node, c, e) ==
  LET made == [text |-> node.parts[c.id], inputs |-> c.inputs, value |-> ValueBelow(c, e),
               shapes |-> c.shapes]
  IN [i \in DOMAIN Shows[made.text] |->
        LET o == Shows[made.text][i]
        IN [name |-> <<o.name>>, solid |-> o.solid, made |-> made, at |-> <<>>]]

\* build_node: every child built once and placed at each of its occurrences.
NodeObjects(node, e, Made(_)) ==
  FlattenSeq([i \in DOMAIN node.children |->
    LET c == node.children[i]
        occs == Effective(c)
    IN FlattenSeq([k \in DOMAIN occs |->
         Place(Made(c), Prefix(c.id, k), Where(Skeleton(node), e, occs[k]))])])

Objects(tree, v) ==
  NodeObjects(tree, v, LAMBDA c :
    IF IsPart(c) THEN PartObjects(tree, c, v)
    ELSE LET e == ValueBelow(c, v)
         IN NodeObjects(tree.nodes[c.id], e, LAMBDA d : PartObjects(tree.nodes[c.id], d, e)))

-----------------------------------------------------------------------------
(* render._node_ids, get_part_info *)

Slug(segment) == Kept(segment, ToSet(segment) \ {"@"})
Bump(id, n) == [id EXCEPT ![Len(id)] = Append(@, Numeral(n))]

\* The name itself, or with the first suffix that no earlier object has.
FreshId(base, used) ==
  IF base \notin used THEN base
  ELSE Bump(base, CHOOSE n \in 1 .. Cardinality(used) + 1 :
                    /\ Bump(base, n) \notin used
                    /\ \A m \in 1 .. n - 1 : Bump(base, m) \in used)

BaseId(o) == [i \in DOMAIN o.name |-> Slug(o.name[i])]
NodeIds(objects) ==
  LET ids[i \in 0 .. Len(objects)] ==
        IF i = 0 THEN <<>>
        ELSE LET before == ids[i - 1]
             IN Append(before, FreshId(BaseId(objects[i]), ToSet(before)))
  IN ids[Len(objects)]

Segments(node, id) == {Prefix(id, k) : k \in DOMAIN Effective(Child(node, id))}

\* get_part_info: the solids below the slug of one of its prefixes.
PartSolids(node, id, objects) ==
  LET ids == NodeIds(objects)
      prefixes == {Slug(s) : s \in Segments(node, id)}
  IN Cardinality({i \in DOMAIN objects : objects[i].solid /\ ids[i][1] \in prefixes})

-----------------------------------------------------------------------------
(* flatten.py: the file that is exported, and what a run of it shows *)

FlatPart(node, c) ==
  [id |-> c.id, kind |-> c.kind, inputs |-> c.inputs, shapes |-> c.shapes,
   occurrences |-> Effective(c), src |-> node.parts[c.id]]

\* Mutant: a child is exported at its attach frame.
M_Collect(node) ==
  [skeleton |-> node.skeleton,
   children |-> [i \in DOMAIN node.children |->
                   FlatPart(node, [node.children[i] EXCEPT !.occurrences = Null])]]

\* _collect_node, without the recursion.
Collect(node) ==
  [skeleton |-> node.skeleton,
   children |-> [i \in DOMAIN node.children |-> FlatPart(node, node.children[i])]]

\* _extract_params finds a literal PARAMS only: without one the value is the skeleton's own.
FlatValue(skel, v) == IF skel = Null \/ skel.literal THEN v ELSE skel.default

\* flatten_to_model.
Flattened(tree, v) ==
  [root |-> Collect(tree), value |-> FlatValue(tree.skeleton, v),
   nodes |-> [id \in {c.id : c \in {d \in ToSet(tree.children) : ~IsPart(d)}} |->
                Collect(tree.nodes[id])]]

\* The template's _place and _run_node.
FlatNode(spec, e, Made(_)) ==
  LET FlatPlaced(c, k) ==
        [i \in DOMAIN Made(c) |->
           [Made(c)[i] EXCEPT
              !.name = <<IF k = 1 THEN c.id ELSE c.id \o <<"@", Numeral(k)>> >> \o @,
              !.at = <<Where(Skeleton(spec), e, c.occurrences[k])>> \o @]]
  IN FlattenSeq([i \in DOMAIN spec.children |->
       FlattenSeq([k \in DOMAIN spec.children[i].occurrences |-> FlatPlaced(spec.children[i], k)])])

FlatRun(flat) ==
  LET Sources(spec) == [parts |-> [id \in {c.id : c \in ToSet(spec.children)} |->
                          (CHOOSE c \in ToSet(spec.children) : c.id = id).src]]
      Shown(spec, c, e) == PartObjects(Sources(spec), c, e)
  IN FlatNode(flat.root, flat.value, LAMBDA c :
       IF IsPart(c) THEN Shown(flat.root, c, flat.value)
       ELSE LET e == ValueBelow(c, flat.value)
            IN FlatNode(flat.nodes[c.id], e, LAMBDA d : Shown(flat.nodes[c.id], d, e)))

-----------------------------------------------------------------------------
(* tree.py and _collect_interface_issues *)

\* The frame names the check goes through.
\* Mutant: it looks at attach alone.
M_FramesUsed(c) == {c.attach}
FramesUsed(c) == {o.frame : o \in ToSet(Effective(c))}

NodeIssues(node, e, path) ==
  LET skel == Skeleton(node)
      Of(kind, c, names) == {<<kind, path \o <<c.id>>, n>> : n \in names}
      ChildIssues(c) ==
        UNION {Of("missing_attach_frame", c, (FramesUsed(c) \ {Null}) \ skel.frames[e]),
               Of("missing_input", c, c.inputs \ skel.scalars),
               IF IsPart(c) THEN Of("missing_shape_input", c, c.shapes \ skel.shapes)
               ELSE Of("shape_input_on_subassembly", c, c.shapes),
               Of("input_name_collision", c, c.inputs \cap c.shapes)}
      JointIssues(j) ==
        {<<"missing_joint_frame", path, n>> : n \in {j.frame} \ skel.frames[e]}
          \cup {<<"unknown_joint_between", path, b>> : b \in {b \in j.between : ~Has(node, b)}}
  IN UNION ({ChildIssues(c) : c \in ToSet(node.children)} \cup {JointIssues(j) : j \in skel.joints})

\* The skeletons are run at their defaults, a sub-assembly's with 1 for what it is given.
DescribedAt(tree) == IF tree.skeleton = Null THEN 1 ELSE tree.skeleton.default
Described(tree) ==
  /\ Loads(tree) /\ Skeleton(tree).needs = {}
  /\ \A c \in ToSet(tree.children) : ~IsPart(c) =>
       Loads(tree.nodes[c.id]) /\ Skeleton(tree.nodes[c.id]).needs \subseteq c.inputs

\* check_interfaces.
Issues(tree) ==
  NodeIssues(tree, DescribedAt(tree), <<>>) \cup
  UNION {NodeIssues(tree.nodes[c.id], ValueBelow(c, 1), <<c.id>>) :
           c \in {d \in ToSet(tree.children) : ~IsPart(d)}}

-----------------------------------------------------------------------------
(* diff.py *)

\* _wiring_changed.
WiringChanged(a, b) ==
  \/ a.attach # b.attach \/ a.inputs # b.inputs \/ a.shapes # b.shapes
  \/ a.occurrences # b.occurrences

Ids(node) == {c.id : c \in ToSet(node.children)}
Texts(node) == {id \in DOMAIN node.parts : node.parts[id] # Null}

NestedTexts(tree) ==
  {<<p[1], p[2], tree.nodes[p[1]].parts[p[2]]>> :
     p \in {q \in (DOMAIN tree.nodes) \X (DOMAIN tree.parts) :
              tree.nodes[q[1]] # Null /\ tree.nodes[q[1]].parts[q[2]] # Null}}

\* structural_diff; a sub-assembly's parts are compared by text, its manifest is not.
Diff(old, new) ==
  [added |-> Ids(new) \ Ids(old), removed |-> Ids(old) \ Ids(new),
   rewired |-> {id \in Ids(old) \cap Ids(new) : WiringChanged(Child(old, id), Child(new, id))},
   skeleton |-> old.skeleton # new.skeleton,
   parts |-> {id \in Texts(old) \cup Texts(new) : old.parts[id] # new.parts[id]},
   nested |-> NestedTexts(old) # NestedTexts(new)]
NoChange ==
  [added |-> {}, removed |-> {}, rewired |-> {}, skeleton |-> FALSE, parts |-> {}, nested |-> FALSE]
=============================================================================
