------------------------------- MODULE MCDesign -------------------------------
EXTENDS Design, TLC
MCNumeral(n) == ToString(n)
\* Two parameters; the wall goes with the second, one model is too thin to print.
MCMeasure(p) ==
  [mass |-> 2 + 2 * p[1] + p[2], bbox |-> <<1 + p[1], 1 + p[2], 1>>, manifold |-> 1,
   dfmCritical |-> IF p = <<1, 0>> THEN 1 ELSE 0, overlaps |-> 0, min_wall |-> 1 + p[2]]
MCFails == {<<0, 1>>}
Lid == <<"lid">>
Clip == <<"lid", "clip">>
Base == <<"base">>
R == <<"r">>
W == <<"w">>
P == <<"p">>
MCNodes == {Clip, Base}
MCOverlapping == {{Clip, Base}}
Jig == <<"jig">>
Lost == <<"lost">>
MCReferences ==
  [r \in {Jig, Lost} |-> [status |-> IF r = Jig THEN "pass" ELSE "fail", required |-> r = Jig]]
Predicate(id, q, op, b) ==
  [form |-> "predicate", id |-> id, enabled |-> TRUE, quantity |-> q, op |-> op, bound |-> b]
Legacy(id, t, b) == [form |-> "legacy", id |-> id, enabled |-> TRUE, type |-> t, target |-> b]
MCGoals ==
  {{Legacy(R, "max_mass", Scalar(4)), Predicate(W, "min_wall", ">=", Scalar(1))},
   {Legacy(R, "min_mass", Scalar(4)), Legacy(W, "max_size", [shape |-> "triple", of |-> <<2, 1, 1>>]),
    [form |-> "assert", id |-> P, enabled |-> TRUE, quantity |-> "min_wall", op |-> ">=", bound |-> Scalar(1)]},
   {Legacy(R, "max_mass", Scalar(Null)), Legacy(P, "printable", Scalar(Null)),
    Predicate(W, "size", "within", [shape |-> "pair", of |-> <<1, 2>>])}}
Dim(v) == [axis |-> 1, value |-> v, tolerance |-> 0]
Entry(s, n, e) == [section |-> s, name |-> n, expects |-> e]
MCOldBriefs ==
  {<<Entry("parts", Lid, Null), Entry("parts", Lid, Null), Entry("parts", <<"lid", "2">>, Null)>>,
   <<Entry("parts", Base, Null), Entry("dimensions", <<"width">>, Dim(1))>>}
Item(s, id, e) == [section |-> s, id |-> id, severity |-> "blocking", applicable |-> TRUE, expects |-> e]
Interface == Item("interfaces", <<"i">>, [check |-> "no_interference", between |-> {Lid, Base}])
Printable == Item("manufacturing", <<"fdm">>, [maxCritical |-> 0])
Assumed(id, d, risk) == Item("assumptions", id, [disposition |-> d, risk |-> risk])
Dropped == [Item("references", Lost, Null) EXCEPT !.applicable = FALSE]
Source == [Item("obligations", <<"src">>, [kind |-> "persistence"]) EXCEPT !.severity = "advisory"]
MCNewBriefs ==
  {{Item("parts", Lid, Null), Assumed(<<"a">>, "confirmed", "high"),
    Assumed(<<"b">>, "implicit", "low"), Source, Printable, Dropped},
   {Item("parts", Base, Null), Interface, Assumed(<<"a">>, "implicit", "high"), Dropped,
    Item("references", Jig, Null)}}
MCUpserts == {Item("dimensions", <<"width">>, Dim(0)), Item("requirements", R, Null)}
MCBoxes == {<<1, 1, 1>>, <<2, 2, 1>>}
MCMotions == UNION {[1 .. n -> {"clear", "hit", "fail"}] : n \in 2 .. 4}
Link == [nominal : {1, 2}, plus : {0, 1}, minus : {-1}, direction : {-1, 1}]
MCChains == UNION {[1 .. n -> Link] : n \in 1 .. 2}
=============================================================================
