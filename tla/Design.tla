-------------------------------- MODULE Design --------------------------------
(***************************************************************************)
(* What a session says of a design (session.py, analysis.py,               *)
(* exploration.py): the brief the user was promised, the goals, their      *)
(* evaluation, the readiness that export and the agent go by, and the      *)
(* search for parameters that meet the goals.  One client reads the brief  *)
(* and writes it back later; other clients write in between.               *)
(*                                                                         *)
(* The engine's queue lets one call run at a time (OperationQueue), so a   *)
(* call is a step; reply is what the last call answered.                   *)
(***************************************************************************)
EXTENDS Exploration

CONSTANT Numeral(_)  \* the word that a number is written as

C == INSTANCE Conformance

CONSTANTS
  Axes,          \* number of declared parameters
  Values,        \* values of a parameter, from its minimum to its maximum
  Measure(_),    \* measurements of the model built with these parameters
  Fails,         \* parameters the model cannot be built with
  Nodes,         \* ids of its objects, each the sequence of its words
  Overlapping,   \* pairs of nodes that overlap
  References,    \* the import manifest: [status, required] per reference
  Goals,         \* sets of requirements a client may store
  OldBriefs,     \* briefs of schema 1: sequences of [section, name]
  NewBriefs,     \* items of the briefs of schema 2
  Upserts,       \* items an update puts in
  Motions,       \* sequences of poses
  Chains,        \* tolerance chains
  Budgets,       \* max_evals
  Boxes,         \* sizes an optimum has to fit
  MaxRevision    \* bound: revisions of the brief

VARIABLES
  built,      \* the session has a model
  params,
  kept,       \* model.py is the source of that model
  asked,      \* the requirements last sent
  reqs,       \* the ones stored
  results,    \* requirements_state.json: the last evaluation, or Null
  basis,      \* what that evaluation was of: [reqs, params, built]
  brief,      \* build_brief.json
  seen,       \* the brief the client has read, or Null
  replaced,   \* a brief of schema 1 has been written since
  reply

model == <<built, params, kept>>
goals == <<asked, reqs>>
evaluated == <<results, basis>>
editing == <<seen, replaced>>
vars == <<model, goals, evaluated, brief, editing, reply>>

Points == [1 .. Axes -> Values]
Verdicts == {"pass", "fail", "unknown"}

\* Every parameter has a range, which the samples of a search lie in.
ASSUME AxesAssumption ==
  /\ Axes \in Nat \ {0} /\ MaxRevision \in Nat /\ Budgets \subseteq Nat
  /\ Values \subseteq Int /\ IsFiniteSet(Values) /\ Values # {}
  /\ Values = Min(Values) .. Max(Values)

\* What can be built has a mass, and its issues are counted.
ASSUME MeasureAssumption ==
  \A p \in Points \ Fails :
    /\ {"mass", "dfmCritical"} \subseteq DOMAIN Measure(p)
    /\ Measure(p)["mass"] \in Int /\ Measure(p)["dfmCritical"] \in Nat
    /\ "overlaps" \in DOMAIN Measure(p) => Measure(p)["overlaps"] \in Nat

\* The older form has one of its types, and null has the shape of a scalar.
ASSUME GoalsAssumption ==
  \A g \in Goals : \A r \in g :
    /\ r.form \in {"predicate", "assert", "legacy"}
    /\ r.form = "legacy" =>
         r.type \in DOMAIN LegacyKey /\ (r.target.of = Null => r.target.shape = "scalar")

\* A name of an older brief is a sequence of words, two suffixes are two words, and
\* what is known of a reference is a verdict.
ASSUME BriefsAssumption ==
  /\ \A e \in OldBriefs :
       /\ Len(e) \in Nat /\ DOMAIN e = 1 .. Len(e)
       /\ \A i \in 1 .. Len(e) : e[i].name \in Seq(STRING)
       /\ \A m, n \in 1 .. Len(e) + 1 :
            Numeral(m) \in STRING /\ (Numeral(m) = Numeral(n) => m = n)
  /\ \A r \in DOMAIN References : References[r].status \in Verdicts

\* A pose is free, collides or cannot be computed; a link adds or takes away.
ASSUME ChecksAssumption ==
  /\ Motions \subseteq Seq({"clear", "hit", "fail"})
  /\ Chains \subseteq Seq([nominal : Int, plus : Int, minus : Int, direction : {-1, 1}])

\* The item of schema 2 an entry of schema 1 becomes.
MigratedItem(entry, id) ==
  [section |-> entry.section, id |-> id, severity |-> "blocking", applicable |-> TRUE,
   expects |-> entry.expects]

\* load_build_brief(target_schema=2); a mutation writes it, a read does not.
Loaded(b) ==
  IF b = Null \/ b.schema = 2 THEN b
  ELSE LET ids == C!MigratedIds([i \in DOMAIN b.entries |-> b.entries[i].name])
       IN [schema |-> 2, revision |-> 0,
           items |-> {MigratedItem(b.entries[i], ids[i]) : i \in DOMAIN ids}]

Revision == IF brief = Null THEN 0 ELSE Loaded(brief).revision

\* validate_v2: ids are unique over all sections.
Valid(items) == \A i, j \in items : i.id = j.id => i = j

Ids == {r.id : r \in UNION Goals}
Results == UNION {[I -> Verdicts] : I \in SUBSET Ids}
Bases == [reqs : SUBSET {Migrate(r) : r \in UNION Goals}, params : Points, built : BOOLEAN]

OldBrief(e) == [schema |-> 1, entries |-> e]
Items ==
  Upserts \cup (UNION NewBriefs) \cup (UNION {Loaded(OldBrief(e)).items : e \in OldBriefs})
Briefs ==
  {OldBrief(e) : e \in OldBriefs} \cup [schema : {2}, revision : 1 .. MaxRevision, items : SUBSET Items]

\* Null is none of what a variable or an answer may be.
ASSUME NullAssumption ==
  Null \notin Int /\ Null \notin Results /\ Null \notin Bases /\ Null \notin Briefs

TypeOK ==
  /\ built \in BOOLEAN /\ params \in Points /\ kept \in BOOLEAN
  /\ asked \in Goals \cup {{}} /\ \A r \in reqs : r.form \in {"predicate", "assert"}
  /\ results \in Results \cup {Null} /\ basis \in Bases \cup {Null}
  /\ brief \in Briefs \cup {Null}
  /\ brief # Null => Loaded(brief).revision \in 0 .. MaxRevision /\ Valid(Loaded(brief).items)
  /\ brief # Null /\ brief.schema = 1 => Cardinality(Loaded(brief).items) = Len(brief.entries)
  /\ replaced \in BOOLEAN

Init ==
  /\ built = FALSE /\ params \in Points \ Fails /\ kept = TRUE
  /\ asked = {} /\ reqs = {}
  /\ results = Null /\ basis = Null
  /\ brief = Null /\ seen = Null /\ replaced = FALSE
  /\ reply = Null

-----------------------------------------------------------------------------
\* A build, a set_params: a model, or nothing has changed.
SetParams(p) ==
  /\ p \notin Fails
  /\ built' = TRUE /\ params' = p /\ kept' = TRUE
  /\ reply' = Null
  /\ UNCHANGED <<goals, evaluated, brief, editing>>

\* model.py is edited by hand.
EditSource ==
  /\ built /\ kept
  /\ kept' = FALSE /\ reply' = Null
  /\ UNCHANGED <<built, params, goals, evaluated, brief, editing>>

\* A new worker whose startup build fails has no model.
RestartUnbuilt ==
  /\ built /\ ~kept
  /\ built' = FALSE /\ reply' = Null
  /\ UNCHANGED <<params, kept, goals, evaluated, brief, editing>>

SetRequirements(g) ==
  /\ g # asked
  /\ asked' = g /\ reqs' = Stored(g) /\ reply' = Null
  /\ UNCHANGED <<model, evaluated, brief, editing>>

Restricted(f, keys) == [k \in DOMAIN f \cap keys |-> f[k]]

Expensive(rs) ==
  {ContextKey[q] : q \in {x \in {"dfm_critical", "overlaps", "min_wall", "min_clearance"} : Needs(rs, x)}}

\* check_requirements: what is cheap, and what a goal needs.
Context(rs, p, b) ==
  IF b THEN Restricted(Measure(p), {"mass", "bbox", "manifold"} \cup Expensive(rs))
  ELSE [k \in {} |-> 0]

Answer == Evaluate(reqs, Context(reqs, params, built))
Unanswerable == Raises(reqs, Context(reqs, params, built))
Deltas == DiffResults(results, Answer)

\* Mutant: only a check that met a failure is remembered.
M_WriteState ==
  /\ results' = IF AllMet(Answer) THEN results ELSE Answer
  /\ basis' = [reqs |-> reqs, params |-> params, built |-> built]

\* Every evaluation, whoever asked for it, replaces the last.
WriteState ==
  /\ results' = Answer
  /\ basis' = [reqs |-> reqs, params |-> params, built |-> built]

CheckRequirements ==
  /\ ~Unanswerable
  /\ WriteState
  /\ reply' = [kind |-> "check", deltas |-> Deltas, last |-> basis]
  /\ UNCHANGED <<model, goals, brief, editing>>

\* An exception leaves check_requirements, and every call that makes it.
CheckRaises ==
  /\ Unanswerable
  /\ reply' = [kind |-> "error"]
  /\ UNCHANGED <<model, goals, evaluated, brief, editing>>

-----------------------------------------------------------------------------
WithinTolerance(e) ==
  LET d == params[e.axis] - e.value IN d <= e.tolerance /\ -d <= e.tolerance

Named(part, node) ==
  Len(part) <= Len(node) /\ \A i \in DOMAIN part : part[i] = node[i]

\* _part_evidence: an object with the part's id, or an id that starts with it.
PartEvidence(part) ==
  IF built THEN Verdict(\E n \in Nodes : Named(part, n)) ELSE "unknown"

\* _interface_evidence.
InterfaceEvidence(e) ==
  IF ~built \/ e.check # "no_interference" THEN "unknown"
  ELSE Verdict(/\ \A p \in e.between : PartEvidence(p) = "pass"
               /\ e.between \subseteq Nodes
               /\ e.between \notin Overlapping)

\* _dimension_evidence, of one that drives a parameter; before the first build
\* there is none.
DimensionEvidence(e) == IF ~built THEN "unknown" ELSE Verdict(WithinTolerance(e))

\* Who an assumption was left to.
Accepted(e) ==
  e.disposition \in {"delegated", "confirmed"} \/ (e.risk = "low" /\ e.disposition = "implicit")

\* _conformance_context, for one item.
Evidence(i, report) ==
  CASE i.section = "parts" -> PartEvidence(i.id)
    [] i.section = "dimensions" -> DimensionEvidence(i.expects)
    [] i.section = "interfaces" -> InterfaceEvidence(i.expects)
    [] i.section = "requirements" -> C!RequirementEvidence(report, i.id)
    [] i.section = "assumptions" -> IF Accepted(i.expects) THEN "pass" ELSE "unknown"
    [] i.section = "manufacturing" ->
         IF ~built THEN "unknown" ELSE Verdict(Measure(params)["dfmCritical"] <= i.expects.maxCritical)
    [] i.section = "obligations" /\ i.expects.kind = "persistence" ->
         IF ~built THEN "unknown" ELSE Verdict(kept)
    [] OTHER -> "unknown"

\* The keys of check_requirements' answer that evaluate could look at.
Report == [requirements |-> Answer]

Findings ==
  LET b == Loaded(brief)
  IN C!Findings(b, IF b = Null THEN <<>> ELSE [i \in b.items |-> Evidence(i, Report)],
                IF built THEN "pass" ELSE "fail", References)

\* get_conformance, get_readiness, and the readiness a build answers with.
GetConformance ==
  /\ ~Unanswerable
  /\ WriteState
  /\ reply' = [kind |-> "conformance", level |-> C!Level(Findings), findings |-> Findings]
  /\ UNCHANGED <<model, goals, brief, editing>>

-----------------------------------------------------------------------------
ProposeOld(entries) ==
  /\ brief' = OldBrief(entries)
  /\ replaced' = (seen # Null)
  /\ reply' = Null
  /\ UNCHANGED <<model, goals, evaluated, seen>>

ReadBrief ==
  /\ brief # Null
  /\ seen' = Loaded(brief) /\ replaced' = FALSE
  /\ reply' = Null
  /\ UNCHANGED <<model, goals, evaluated, brief>>

\* Mutant: the revision that is written is the one the client had.
M_Written(items) == [schema |-> 2, revision |-> Revision, items |-> items]

Written(items) == [schema |-> 2, revision |-> Revision + 1, items |-> items]

\* What an update of one section makes of the brief it finds.
Patched(item) == {i \in Loaded(brief).items : i.id # item.id \/ i.section # item.section} \cup {item}

\* update_build_brief by the client, with the revision it has read.
UpdateBrief(item) ==
  /\ seen # Null /\ brief # Null /\ Revision < MaxRevision
  /\ seen.revision = Revision /\ Valid(Patched(item))
  /\ brief' = Written(Patched(item))
  /\ reply' = [kind |-> "updated", onto |-> Loaded(brief).items]
  /\ UNCHANGED <<model, goals, evaluated, editing>>

UpdateRefused(item) ==
  /\ seen # Null /\ brief # Null
  /\ seen.revision # Revision \/ ~Valid(Patched(item))
  /\ reply' = [kind |-> "conflict"]
  /\ UNCHANGED <<model, goals, evaluated, brief, editing>>

\* propose_build with schema 2, or an update, by another client that has just
\* read the brief.
OtherWrites(items) ==
  /\ Revision < MaxRevision /\ Valid(items)
  /\ brief' = Written(items)
  /\ reply' = Null
  /\ UNCHANGED <<model, goals, evaluated, editing>>

-----------------------------------------------------------------------------
Predicates == {r \in reqs : r.form # "assert"}
Sample(c, per) == [k \in 1 .. Axes |-> Linspace(Min(Values), Max(Values), per, c[k])]

\* What converge_to_spec measures of each candidate that can be built.
Measures(budget) ==
  LET per == PerAxis(budget, Axes)
      cheap == {"mass", "bbox"}
      gated == {ContextKey[q] : q \in {x \in {"dfm_critical", "min_wall", "min_clearance"} :
                                         Needs(Predicates, x)}}
  IN [c \in {d \in CandidateGrid(Axes, budget) : Sample(d, per) \notin Fails} |->
        Restricted(Measure(Sample(c, per)), cheap \cup gated)]

\* converge_to_spec; with apply the candidate is committed by set_params.
Converge(objective, budget, apply) ==
  /\ built /\ brief = Null \* bound: the search reads no brief
  /\ ~Unanswerable
  /\ WriteState
  /\ LET per == PerAxis(budget, Axes)
         m == Measures(budget)
         used == Addressable(Predicates, m)
         best == PickFeasible(m, used, objective, per)
     IN /\ params' = IF best # Null /\ apply THEN Sample(best, per) ELSE params
        /\ kept' = (kept \/ (best # Null /\ apply))
        /\ reply' = [kind |-> "converge", objective |-> objective, apply |-> apply,
                     best |-> IF best = Null THEN Null ELSE Sample(best, per),
                     tried |-> {Sample(c, per) : c \in DOMAIN m}, used |-> used]
  /\ UNCHANGED <<built, goals, brief, editing>>

\* optimize: one parameter over its range, the others as they are.
Optimize(axis, objective, maxSize) ==
  /\ built /\ brief = Null
  /\ LET at(v) == [params EXCEPT ![axis] = v]
         variants == [v \in {w \in Values : at(w) \notin Fails} |-> Measure(at(v))]
     IN reply' = [kind |-> "optimize", axis |-> axis, objective |-> objective, limit |-> maxSize,
                  best |-> PickBest(variants, objective, maxSize, TRUE)]
  /\ UNCHANGED <<model, goals, evaluated, brief, editing>>

\* bound: what reads neither goals nor a brief is asked of a session without.
Bare == reqs = {} /\ brief = Null /\ results = Null

CheckMotion(poses) ==
  /\ built /\ Bare
  /\ reply' = [kind |-> "motion", poses |-> poses, is |-> Sweep(poses)]
  /\ UNCHANGED <<model, goals, evaluated, brief, editing>>

CheckStack(chain) ==
  /\ Bare
  /\ reply' = [kind |-> "stack", chain |-> chain, is |-> ToleranceStack(chain)]
  /\ UNCHANGED <<model, goals, evaluated, brief, editing>>

Next ==
  \/ \E p \in Points : SetParams(p)
  \/ EditSource \/ RestartUnbuilt
  \/ \E g \in Goals : SetRequirements(g)
  \/ CheckRequirements \/ CheckRaises \/ GetConformance
  \/ \E e \in OldBriefs : ProposeOld(e)
  \/ ReadBrief
  \/ \E i \in Upserts : UpdateBrief(i) \/ UpdateRefused(i)
  \/ \E b \in NewBriefs : OtherWrites(b)
  \/ \E o \in {"min_mass", "max_mass"} :
       \/ \E b \in Budgets, a \in BOOLEAN : Converge(o, b, a)
       \/ \E x \in 1 .. Axes, s \in Boxes : Optimize(x, o, s)
  \/ \E m \in Motions : CheckMotion(m)
  \/ \E c \in Chains : CheckStack(c)

Spec == Init /\ [][Next]_vars

-----------------------------------------------------------------------------
\* The truth of an item of the brief in the session as it is.
Satisfied(i) ==
  CASE i.section = "parts" -> built /\ \E n \in Nodes : Named(i.id, n)
    [] i.section = "dimensions" -> built /\ WithinTolerance(i.expects)
    [] i.section = "interfaces" -> built /\ i.expects.between \notin Overlapping
    [] i.section = "requirements" -> built /\ Answer[i.id] = "pass"
    [] i.section = "assumptions" -> Accepted(i.expects)
    [] i.section = "references" -> i.id \in DOMAIN References /\ References[i.id].status = "pass"
    [] i.section = "manufacturing" -> built /\ Measure(params)["dfmCritical"] <= i.expects.maxCritical
    [] OTHER -> built /\ kept

\* "ready" is said of a design that has a brief, whose every obligation holds of
\* the model the session has now, and whose references are loaded but for those
\* that the brief declares not applicable: no missing evidence counts for it
\* (conformance.py, evaluate; Session._conformance_context).
ReadyIsEarned ==
  reply # Null /\ reply.kind = "conformance" /\ reply.level = "ready" =>
    /\ brief # Null
    /\ \A i \in Loaded(brief).items : i.applicable => Satisfied(i)
    /\ \A r \in DOMAIN References :
         \/ References[r].status = "pass"
         \/ \E i \in Loaded(brief).items : i.section = "references" /\ i.id = r /\ ~i.applicable

\* A client's update that is accepted goes onto the brief the client has read,
\* unless a brief of schema 1, which has no revision, was written in between
\* (build_brief.py, update_build_brief).
BriefUpdatesKept ==
  reply # Null /\ reply.kind = "updated" => replaced \/ reply.onto = seen.items

\* A goal is stored with the meaning it was sent with: the older form and what it
\* is migrated to agree on every model (requirements.py, migrate_legacy).
MigrationKeepsMeaning ==
  \A r \in asked : r.form = "legacy" /\ PredicateOk(Migrate(r)) =>
    \A p \in Points \ Fails : EvalLegacy(r, Measure(p)) = EvalPredicate(Migrate(r), Measure(p))

\* A goal is reported as regressed exactly when the model and the goals of the
\* last evaluation, whoever asked for it, met it and those of this one do not
\* (analysis.py, check_requirements).
RegressionsAreTrue ==
  reply # Null /\ reply.kind = "check" =>
    \A i \in DOMAIN reply.deltas :
      reply.deltas[i] = "regressed" <=>
        /\ reply.last # Null /\ Answer[i] = "fail"
        /\ LET then == Evaluate(reply.last.reqs, Context(reply.last.reqs, reply.last.params, reply.last.built))
           IN i \in DOMAIN then /\ then[i] = "pass"

\* What converge_to_spec proposes meets every goal that the parameters can
\* influence and no better candidate was tried; what it applies is the model the
\* session then has (exploration.py, converge_to_spec).
ConvergesToSpec ==
  reply # Null /\ reply.kind = "converge" /\ reply.best # Null =>
    LET meets(p) == \A r \in reply.used : r.enabled => EvalPredicate(r, Measure(p)) = "pass"
    IN /\ meets(reply.best)
       /\ \A p \in reply.tried : meets(p) =>
            Better(reply.objective, Measure(reply.best)["mass"], Measure(p)["mass"])
       /\ reply.apply => params = reply.best

\* The optimum fits, and a value of the parameter that does better does not
\* (exploration.py, optimize).
OptimumIsBest ==
  reply # Null /\ reply.kind = "optimize" =>
    LET at(v) == [params EXCEPT ![reply.axis] = v]
        fits(v) == at(v) \notin Fails /\ Measure(at(v))["dfmCritical"] = 0
                   /\ \A i \in 1 .. 3 : Measure(at(v))["bbox"][i] <= reply.limit[i]
    IN IF reply.best = Null THEN \A v \in Values : ~fits(v)
       ELSE /\ fits(reply.best)
            /\ \A v \in Values : fits(v) =>
                 Better(reply.objective, Measure(at(reply.best))["mass"], Measure(at(v))["mass"])

\* Every pose up to clearThrough was computed and is free, and the one after it is
\* not (exploration.py, _sweep).
ClearThroughIsClear ==
  reply # Null /\ reply.kind = "motion" =>
    /\ \A i \in 1 .. reply.is.through : reply.poses[i] = "clear"
    /\ reply.is.through < Len(reply.poses) => reply.poses[reply.is.through + 1] # "clear"

\* No choice of deviations within the tolerances leaves the worst case, and a
\* clearance never interferes (validation.py, tolerance_stack).
StackBoundsGap ==
  reply # Null /\ reply.kind = "stack" =>
    LET chain == reply.chain
        deviations == {d \in [DOMAIN chain -> -1 .. 1] :
                         \A i \in DOMAIN chain : chain[i].minus <= d[i] /\ d[i] <= chain[i].plus}
        gap(d) == LET g[i \in 0 .. Len(chain)] ==
                        IF i = 0 THEN 0
                        ELSE g[i - 1] + chain[i].direction * (chain[i].nominal + d[i])
                  IN g[Len(chain)]
    IN /\ \A d \in deviations : reply.is.min <= gap(d) /\ gap(d) <= reply.is.max
       /\ reply.is.fit = "clearance" => \A d \in deviations : gap(d) >= 0
       /\ reply.is.fit = "interference" => \A d \in deviations : gap(d) <= 0

\* What a client has asked for is what the session keeps: no accepted update of
\* the brief and no meaning of a goal gets lost.
IntentKept == TypeOK /\ BriefUpdatesKept /\ MigrationKeepsMeaning

\* What the searches and the checks answer is true of the model: of every candidate,
\* pose and deviation that the question covers.
AnswersHold ==
  ConvergesToSpec /\ OptimumIsBest /\ ClearThroughIsClear /\ StackBoundsGap
=============================================================================
