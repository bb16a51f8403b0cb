------------------------------ MODULE Exploration ------------------------------
(***************************************************************************)
(* The searches over a model's parameters and the checks that sample or    *)
(* sum (exploration.py, converge.py, explore.py, validation.py).           *)
(*                                                                         *)
(* A candidate gives each axis, in the order of the schema, the index of a *)
(* sample of the axis' range.                                              *)
(***************************************************************************)
EXTENDS Requirements, Sequences, FiniteSets, FiniteSetsExt

\* linspace: sample i of n, of the range from lo to hi.
Linspace(lo, hi, n, i) == IF n <= 1 THEN lo ELSE lo + ((hi - lo) * i) \div (n - 1)

\* The samples of each of n axes: the root of the budget, and two at least.
PerAxis(budget, n) ==
  IF n = 1 THEN Min({budget, 12})
  ELSE Max({2} \cup {k \in 1 .. budget : k ^ n <= budget})

\* The place of a candidate in the product, whose first axis varies slowest.
Place(c, per) ==
  LET rank[k \in 0 .. Len(c)] == IF k = 0 THEN 0 ELSE rank[k - 1] * per + c[k]
  IN rank[Len(c)]

\* candidate_grid: the product, cut off at the budget.
CandidateGrid(n, budget) ==
  LET per == PerAxis(budget, n)
  IN {c \in [1 .. n -> 0 .. per - 1] : Place(c, per) < budget}

\* _split_addressable: a goal counts when what it measures varies between the
\* candidates that were built.
Addressable(preds, measures) ==
  IF DOMAIN measures = {} THEN preds
  ELSE {r \in preds :
          LET key == ContextKey[r.quantity]
              seen == {c \in DOMAIN measures : key \in DOMAIN measures[c]}
          IN /\ seen # {}
             /\ Cardinality(seen) > 1 => Cardinality({measures[c][key] : c \in seen}) > 1}

\* Mutant: one goal that is met is enough.
M_Passes(ctx, preds) == \E r \in Enabled(preds) : EvalOne(r, ctx) = "pass"

\* _passes: every goal, and there is one.
Passes(ctx, preds) == Enabled(preds) # {} /\ \A r \in Enabled(preds) : EvalOne(r, ctx) = "pass"

Better(objective, m1, m2) == IF objective = "min_mass" THEN m1 <= m2 ELSE m1 >= m2

\* pick_feasible: the first of the best.
PickFeasible(measures, preds, objective, per) ==
  LET feasible == {c \in DOMAIN measures : Passes(measures[c], preds)}
      best == {c \in feasible : \A d \in feasible :
                 Better(objective, measures[c]["mass"], measures[d]["mass"])}
  IN IF feasible = {} THEN Null
     ELSE CHOOSE c \in best : \A d \in best : Place(c, per) <= Place(d, per)

\* explore.pick_best: of the variants that are built, fit the box and, where it is
\* asked for, have no critical issue.
PickBest(variants, objective, maxSize, printable) ==
  LET feasible == {v \in DOMAIN variants :
        /\ \A i \in 1 .. 3 : variants[v]["bbox"][i] <= maxSize[i]
        /\ printable => variants[v]["dfmCritical"] = 0}
  IN IF feasible = {} THEN Null
     ELSE CHOOSE v \in feasible : \A w \in feasible :
            Better(objective, variants[v]["mass"], variants[w]["mass"])

-----------------------------------------------------------------------------
\* One pose of _sweep.
SweepStep(s, pose, i) ==
  CASE pose = "fail" ->
         [s EXCEPT !.failed = @ + 1, !.blocked = TRUE,
                   !.through = IF s.blocked THEN @ ELSE s.lastClear]
    [] pose = "hit" /\ s.first = 0 ->
         [s EXCEPT !.first = i, !.blocked = TRUE,
                   !.through = IF s.blocked THEN @ ELSE s.lastClear]
    [] pose = "clear" /\ ~s.blocked -> [s EXCEPT !.lastClear = i]
    [] OTHER -> s

\* _sweep over the poses of a motion: clearThrough, as the pose it is (0 is none),
\* the first collision, and how many poses could not be computed.
Sweep(poses) ==
  LET n == Len(poses)
      s[i \in 0 .. n] ==
        IF i = 0 THEN [lastClear |-> 0, through |-> n, first |-> 0, blocked |-> FALSE, failed |-> 0]
        ELSE SweepStep(s[i - 1], poses[i], i)
  IN s[n]

-----------------------------------------------------------------------------
\* A link's contribution to the worst case.
Limits(link) ==
  LET a == link.direction * link.minus
      b == link.direction * link.plus
  IN [lo |-> Min({a, b}), hi |-> Max({a, b})]

\* tolerance_stack: the worst case of a chain of links, and the kind of fit of one
\* that goes there and back.
ToleranceStack(chain) ==
  LET sum[i \in 0 .. Len(chain)] ==
        IF i = 0 THEN [min |-> 0, max |-> 0]
        ELSE LET at == chain[i].direction * chain[i].nominal
             IN [min |-> sum[i - 1].min + at + Limits(chain[i]).lo,
                 max |-> sum[i - 1].max + at + Limits(chain[i]).hi]
      gap == sum[Len(chain)]
      mating == {chain[i].direction : i \in DOMAIN chain} = {1, -1}
  IN [min |-> gap.min, max |-> gap.max,
      fit |-> CASE ~mating -> "none"
                [] mating /\ gap.min >= 0 -> "clearance"
                [] mating /\ gap.min < 0 /\ gap.max <= 0 -> "interference"
                [] OTHER -> "transition"]
=============================================================================
