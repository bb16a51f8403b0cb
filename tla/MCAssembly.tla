------------------------------ MODULE MCAssembly ------------------------------
EXTENDS Assembly
MCNumeral(n) == ToString(n)
MCTokens == STRING
\* Two parts whose segments share a slug when the first has two occurrences,
\* and a sub-assembly; one frame exists at the parameter's second value only.
Wheel == <<"wheel">>
Wheel2 == <<"wheel", "2">>
Hub == <<"hub">>
MCIds == {Wheel, Wheel2, Hub}
MCNames == {"f", "g", "far", "r", "s"}
Body(solid) == [name |-> <<"body">>, solid |-> solid]
MCShows ==
  [disc |-> <<Body(TRUE)>>, sheet |-> <<Body(FALSE)>>,
   triple |-> <<Body(TRUE), [name |-> <<"body", "1">>, solid |-> TRUE], Body(TRUE)>>]
Full ==
  [id |-> "full", frames |-> [e \in 0 .. 2 |-> IF e = 2 THEN {"f", "g", "far"} ELSE {"f", "g"}],
   scalars |-> {"r"}, shapes |-> {"s"}, needs |-> {}, literal |-> TRUE, default |-> 2,
   joints |-> {[frame |-> "f", between |-> {Wheel, Hub}]}]
Bare ==
  [id |-> "bare", frames |-> [e \in 0 .. 2 |-> {"f"}], scalars |-> {}, shapes |-> {}, needs |-> {},
   literal |-> FALSE, default |-> 1, joints |-> {}]
Reader == [Full EXCEPT !.id = "reader", !.needs = {"r"}, !.joints = {}]
MCSkeletons == {Full, Bare}
Wiring(a, i, s) == [attach |-> a, inputs |-> i, shapes |-> s]
MCWirings ==
  {Wiring(Null, Null, Null), Wiring("f", {"r"}, Null), Wiring("far", Null, {"s"}),
   Wiring("g", {}, {"r"})}
At(f) == Occurrence(f, Null)
Pair == <<At("f"), Occurrence("g", "xy")>>
MCLists == {<<>>, <<At("g")>>, Pair, <<At("far"), At(Null)>>}
Entry(id, kind, a, i, occs) ==
  [id |-> id, kind |-> kind, attach |-> a, inputs |-> i, shapes |-> {}, occurrences |-> occs]
Absent == [id \in MCIds |-> Null]
Pinned ==
  [skeleton |-> Reader, children |-> <<Entry(Wheel, "part", "g", {"r"}, Null)>>,
   parts |-> [Absent EXCEPT ![Wheel] = "disc"]]
MCNodesByHand == {[Pinned EXCEPT !.children[1].attach = "far"], [Pinned EXCEPT !.skeleton = Null]}
Fresh ==
  [skeleton |-> Full, children |-> <<>>, parts |-> Absent, nodes |-> Absent, imports |-> <<>>,
   assets |-> {}]
Cart ==
  [skeleton |-> Full,
   children |-> <<Entry(Wheel, "part", "f", {"r"}, Pair), Entry(Hub, "assembly", "g", {"r"}, Null)>>,
   parts |-> [Absent EXCEPT ![Wheel] = "disc"], nodes |-> [Absent EXCEPT ![Hub] = Pinned],
   imports |-> <<>>, assets |-> {}]
Train ==
  [Cart EXCEPT !.children = <<Entry(Wheel2, "part", Null, {}, Null), @[1]>>,
               !.parts[Wheel2] = "triple", !.nodes[Hub] = Null]
MCCad == [wheel |-> "reference_mesh", lost |-> "modifiable_solid", logo |-> "sketch", doc |-> "none"]
MCOpened == {Fresh, Cart, Train}
=============================================================================
