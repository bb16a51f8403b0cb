------------------------------ MODULE Conformance ------------------------------
(***************************************************************************)
(* The evaluation of a build brief against evidence (conformance.py,       *)
(* Session._conformance_context) and the brief's own file format           *)
(* (build_brief.py).                                                       *)
(*                                                                         *)
(* A brief is [schema, revision, items]; an item is [section, id,          *)
(* severity, applicable, expects], where expects is what its section's     *)
(* evidence is compared with.  Evidence is a verdict.                      *)
(***************************************************************************)
EXTENDS Integers, FiniteSets, Sequences

CONSTANTS
  Null,
  Numeral(_)   \* the word that a number is written as

Open == {"fail", "unknown"}
Blocking == {"critical", "blocking"}

Status(evidence, applicable) == IF applicable THEN evidence ELSE "not_applicable"

Finding(item, evidence) ==
  [id |-> <<item.section, item.id>>, status |-> Status(evidence, item.applicable),
   severity |-> item.severity]

\* Mutant: what is unknown is no obstacle.
M_Level(findings) ==
  LET open == {f \in findings : f.status = "fail"}
  IN CASE open = {} -> "ready"
       [] \E f \in open : f.severity \in Blocking -> "blocked"
       [] OTHER -> "needs_attention"

\* aggregate_readiness.
Level(findings) ==
  LET open == {f \in findings : f.status \in Open}
  IN CASE open = {} -> "ready"
       [] \E f \in open : f.severity \in Blocking -> "blocked"
       [] OTHER -> "needs_attention"

NoBrief == [id |-> <<"brief", "brief">>, status |-> "unknown", severity |-> "blocking"]

Section(brief, name) == {i \in brief.items : i.section = name}

\* A reference the manifest requires blocks whatever the brief says of it, and
\* also when the brief does not name it.
ReferenceFindings(brief, references) ==
  LET declared == Section(brief, "references")
      severity(required) == IF required THEN "blocking" ELSE "warning"
  IN {[Finding(i, IF i.id \in DOMAIN references THEN references[i.id].status ELSE "unknown")
         EXCEPT !.severity = severity(i.severity \in Blocking \/
                  (i.id \in DOMAIN references /\ references[i.id].required))] : i \in declared}
     \cup
     {[id |-> <<"references", r>>, status |-> references[r].status,
       severity |-> severity(references[r].required)] :
         r \in {x \in DOMAIN references : \A i \in declared : i.id # x}}

\* evaluate: a finding per item of the brief; a dimension that drives a parameter
\* has one more, for the binding.
Findings(brief, evidence, binding, references) ==
  IF brief = Null THEN {NoBrief}
  ELSE {Finding(i, evidence[i]) : i \in brief.items \ Section(brief, "references")}
       \cup {[id |-> <<"parameter-binding", i.id>>, status |-> binding, severity |-> i.severity] :
               i \in Section(brief, "dimensions")}
       \cup ReferenceFindings(brief, references)

\* What evaluate finds for a requirement of the brief in the report of
\* check_requirements, which it asks for "results".
RequirementEvidence(report, id) ==
  IF "results" \in DOMAIN report /\ id \in DOMAIN report["results"] THEN report["results"][id]
  ELSE "unknown"

-----------------------------------------------------------------------------
\* migrate_v1_to_v2: an older brief has names where the new one has ids.  A name
\* is the sequence of its words; a suffix is one more word.
StableId(name, used) ==
  LET candidate(n) == IF n = 1 THEN name ELSE Append(name, Numeral(n))
      free == {n \in 1 .. Cardinality(used) + 1 : candidate(n) \notin used}
  IN candidate(CHOOSE n \in free : \A m \in free : n <= m)

\* The ids of a list of names, in its order.
MigratedIds(names) ==
  LET ids[n \in 0 .. Len(names)] ==
        IF n = 0 THEN <<>>
        ELSE Append(ids[n - 1], StableId(names[n], {ids[n - 1][i] : i \in 1 .. n - 1}))
  IN ids[Len(names)]
=============================================================================
