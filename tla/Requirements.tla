----------------------------- MODULE Requirements -----------------------------
(***************************************************************************)
(* Design requirements (requirements.py): what a goal says of a            *)
(* measurement, the migration of the older form, and the deltas between    *)
(* two evaluations.                                                        *)
(*                                                                         *)
(* A requirement is a record [form, id, enabled, ...]: a "predicate" or an *)
(* "assert" with quantity, op and bound, or a "legacy" one with type and   *)
(* target.  A bound or a target is [shape, of]; of is Null where the JSON  *)
(* says null.  A measurement context is a function of the keys that have a *)
(* value.  A truth value is 1 or 0; a verdict is "pass", "fail" or         *)
(* "unknown"; "raises" is an evaluation that ends with an exception.       *)
(***************************************************************************)
EXTENDS Integers

CONSTANT Null   \* no value

ContextKey ==
  [mass |-> "mass", size |-> "bbox", size_x |-> "bbox", size_y |-> "bbox", size_z |-> "bbox",
   dfm_critical |-> "dfmCritical", overlaps |-> "overlaps", watertight |-> "manifold",
   min_wall |-> "min_wall", min_clearance |-> "min_clearance"]

Component == [size_x |-> 1, size_y |-> 2, size_z |-> 3]

Has(quantity, ctx) == ContextKey[quantity] \in DOMAIN ctx

Measured(quantity, ctx) ==
  LET value == ctx[ContextKey[quantity]]
  IN IF quantity \in DOMAIN Component THEN value[Component[quantity]] ELSE value

\* The shape is checked and the numbers in it are not.
BoundOk(r) ==
  LET one == r.quantity # "size"
  IN r.bound.shape = IF r.op = "within" THEN (IF one THEN "pair" ELSE "pairs")
                     ELSE (IF one THEN "scalar" ELSE "triple")

PredicateOk(r) == r.quantity \in DOMAIN ContextKey /\ BoundOk(r)

Compare(op, measured, bound) ==
  CASE op = "<=" -> measured <= bound
    [] op = ">=" -> measured >= bound
    [] op = "within" -> bound[1] <= measured /\ measured <= bound[2]
    [] OTHER -> measured = bound

Verdict(holds) == IF holds THEN "pass" ELSE "fail"

EvalPredicate(r, ctx) ==
  IF ~Has(r.quantity, ctx) \/ ~BoundOk(r) THEN "unknown"
  ELSE IF r.bound.of = Null THEN (IF r.op = "==" THEN "fail" ELSE "raises")
  ELSE LET m == Measured(r.quantity, ctx) IN
       Verdict(IF r.quantity = "size" THEN \A i \in 1 .. 3 : Compare(r.op, m[i], r.bound.of[i])
               ELSE Compare(r.op, m, r.bound.of))

\* An assertion never raises: what it cannot evaluate is unknown.
EvalAssert(r, ctx) ==
  IF ~Has(r.quantity, ctx) \/ r.bound.of = Null THEN "unknown"
  ELSE Verdict(Compare(r.op, Measured(r.quantity, ctx), r.bound.of))

LegacyKey ==
  [max_mass |-> "mass", min_mass |-> "mass", max_size |-> "bbox", watertight |-> "manifold",
   printable |-> "dfmCritical", no_interference |-> "overlaps"]

EvalLegacy(r, ctx) ==
  IF LegacyKey[r.type] \notin DOMAIN ctx THEN "unknown"
  ELSE LET m == ctx[LegacyKey[r.type]]
           t == r.target.of
       IN CASE r.type = "watertight" -> Verdict(m = 1)
            [] r.type \in {"printable", "no_interference"} -> Verdict(m = 0)
            [] r.type = "max_size" -> IF t = Null THEN "unknown" ELSE Verdict(\A i \in 1 .. 3 : m[i] <= t[i])
            [] r.type \in {"max_mass", "min_mass"} /\ t = Null -> "raises"
            [] r.type = "max_mass" /\ t # Null -> Verdict(m <= t)
            [] r.type = "min_mass" /\ t # Null -> Verdict(m >= t)

Scalar(n) == [shape |-> "scalar", of |-> n]

LegacyMap(r) ==
  CASE r.type = "max_mass" -> <<"mass", "<=", r.target>>
    [] r.type = "min_mass" -> <<"mass", ">=", r.target>>
    [] r.type = "max_size" -> <<"size", "<=", r.target>>
    [] r.type = "printable" -> <<"dfm_critical", "<=", Scalar(0)>>
    [] r.type = "no_interference" -> <<"overlaps", "<=", Scalar(0)>>
    [] r.type = "watertight" -> <<"watertight", "==", Scalar(1)>>

\* migrate_legacy, of one entry.
Migrate(r) ==
  IF r.form # "legacy" THEN r
  ELSE LET m == LegacyMap(r)
       IN [form |-> "predicate", id |-> r.id, enabled |-> r.enabled,
           quantity |-> m[1], op |-> m[2], bound |-> m[3]]

\* Analysis.set_requirements: migrated, and what is malformed is dropped.
Stored(reqs) ==
  {r \in {Migrate(q) : q \in reqs} : r.form = "assert" \/ PredicateOk(r)}

EvalOne(r, ctx) ==
  CASE r.form = "predicate" -> EvalPredicate(r, ctx)
    [] r.form = "assert" -> EvalAssert(r, ctx)
    [] OTHER -> EvalLegacy(r, ctx)

Enabled(reqs) == {r \in reqs : r.enabled}

\* evaluate: the verdict per id of what is enabled.
Evaluate(reqs, ctx) ==
  [i \in {r.id : r \in Enabled(reqs)} |-> EvalOne(CHOOSE r \in Enabled(reqs) : r.id = i, ctx)]

Raises(reqs, ctx) == \E i \in DOMAIN Evaluate(reqs, ctx) : Evaluate(reqs, ctx)[i] = "raises"

\* needs: the quantity of an assertion is not looked at.
Needs(reqs, quantity) == \E r \in Enabled(reqs) : r.form = "predicate" /\ r.quantity = quantity

\* diff_results; prev is Null before the first evaluation.
DiffResults(prev, results) ==
  [i \in DOMAIN results |->
     LET from(verdict) == prev # Null /\ i \in DOMAIN prev /\ prev[i] = verdict
     IN CASE prev # Null /\ i \notin DOMAIN prev -> "new"
          [] from("pass") /\ results[i] = "fail" -> "regressed"
          [] from("fail") /\ results[i] = "pass" -> "fixed"
          [] OTHER -> "unchanged"]

\* The summary's allMet: of what could be measured.
AllMet(results) == \A i \in DOMAIN results : results[i] # "fail"
=============================================================================
