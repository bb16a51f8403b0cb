----------------------------- MODULE DesignProofs -----------------------------
(***************************************************************************)
(* The claims of Design hold for every model, brief and set of goals: what *)
(* is called ready is, what a client asked for is kept, what is reported   *)
(* as regressed did, and the searches and checks answer the truth.         *)
(*                                                                         *)
(* The first parts are about the operators, the recursive ones among them: *)
(* a recursion over 0 .. n is unfolded by Repeated, which gives the        *)
(* function its definition chooses, and UpTo, which goes through the       *)
(* indices.  The invariant follows, then each claim for the one operation  *)
(* whose answer it is about.                                               *)
(***************************************************************************)
EXTENDS Design, FiniteSetTheorems, SequenceTheorems, TLAPS

-----------------------------------------------------------------------------
(* Numbers and recursion *)

\* A set of numbers has a least one.
LEMMA LeastNumber ==
  ASSUME NEW Numbers, Numbers \subseteq Nat, Numbers # {}
  PROVE  \E n \in Numbers : \A m \in Numbers : n <= m
<1> DEFINE R == {ss \in Nat \X Nat : ss[1] < ss[2]}
<1>1. IsWellFoundedOn(R, Nat)
  BY NatLessThanWellFounded DEF OpToRel
<1>2. PICK n \in Numbers : \A m \in Numbers : ~(<<m, n>> \in R)
  BY <1>1, WFMin
<1>3. ASSUME NEW m \in Numbers PROVE n <= m
  <2>1. m \in Nat /\ n \in Nat OBVIOUS
  <2>2. ~(m < n) BY <1>2, <2>1
  <2> QED BY <2>1, <2>2
<1> QED BY <1>3

\* What holds of 0 and is passed on from each number to the next holds up to n.
LEMMA UpTo ==
  ASSUME NEW n \in Nat, NEW P, 0 \in P, \A k \in 1 .. n : k - 1 \in P => k \in P
  PROVE  \A k \in 0 .. n : k \in P
<1> DEFINE Bad == (0 .. n) \ P
<1>1. SUFFICES ASSUME Bad # {} PROVE FALSE
  OBVIOUS
<1>2. PICK k \in Bad : \A m \in Bad : k <= m
  <2>1. Bad \subseteq Nat OBVIOUS
  <2> HIDE DEF Bad
  <2> QED BY <1>1, <2>1, LeastNumber
<1>3. k \in 1 .. n /\ k - 1 \in 0 .. n /\ ~(k <= k - 1)
  OBVIOUS
<1>4. k - 1 \in P
  BY <1>2, <1>3
<1> QED BY <1>2, <1>3, <1>4

\* A step on a type has the function that repeats it.
IsRepeated(f, n, base, step) ==
  f = [k \in 0 .. n |-> IF k = 0 THEN base ELSE step[<<f[k - 1], k>>]]
LEMMA Repeated ==
  ASSUME NEW n \in Nat, NEW Kind, NEW base \in Kind, NEW step \in [Kind \X (1 .. n) -> Kind]
  PROVE  \E f \in [0 .. n -> Kind] : IsRepeated(f, n, base, step)
<1> DEFINE Is(f, m) == /\ f \in [0 .. m -> Kind] /\ f[0] = base
                       /\ \A k \in 1 .. m : f[k] = step[<<f[k - 1], k>>]
           P == {m \in 0 .. n : \E f : Is(f, m)}
<1>1. 0 \in P
  <2> DEFINE g == [k \in 0 .. 0 |-> base]
  <2>1. g \in [0 .. 0 -> Kind] /\ g[0] = base /\ \A k \in 1 .. 0 : g[k] = step[<<g[k - 1], k>>]
    OBVIOUS
  <2>2. Is(g, 0) /\ 0 \in 0 .. n
    <3> HIDE DEF g
    <3> QED BY <2>1
  <2> QED BY <2>2, Zenon
<1>2. ASSUME NEW m \in 1 .. n, m - 1 \in P PROVE m \in P
  <2>1. PICK f : Is(f, m - 1)
    BY <1>2
  <2> DEFINE g == [k \in 0 .. m |-> IF k = m THEN step[<<f[m - 1], m>>] ELSE f[k]]
  <2>2. m - 1 \in 0 .. m - 1 /\ m \in Nat /\ m # 0 /\ 0 \in 0 .. m - 1 /\ 0 \in 0 .. m
    OBVIOUS
  <2>3. f[m - 1] \in Kind
    BY <2>1, <2>2
  <2>4. step[<<f[m - 1], m>>] \in Kind
    BY <2>3
  <2>5. g \in [0 .. m -> Kind]
    <3>1. ASSUME NEW k \in 0 .. m PROVE g[k] \in Kind
      <4>1. k = m \/ k \in 0 .. m - 1 BY <2>2
      <4> QED BY <2>1, <2>4, <4>1
    <3> QED BY <3>1
  <2>6. g[0] = base
    BY <2>1, <2>2
  <2>7. ASSUME NEW k \in 1 .. m PROVE g[k] = step[<<g[k - 1], k>>]
    <3>1. k - 1 \in 0 .. m - 1 /\ k - 1 # m /\ k - 1 \in 0 .. m /\ k \in 0 .. m BY <2>2
    <3>2. g[k - 1] = f[k - 1] BY <3>1
    <3>3. CASE k = m BY <3>2, <3>3, <3>1
    <3>4. CASE k # m
      <4>1. k \in 1 .. m - 1 BY <3>4, <2>2
      <4> QED BY <2>1, <3>1, <3>2, <3>4, <4>1
    <3> QED BY <3>3, <3>4
  <2>8. Is(g, m)
    <3> HIDE DEF g
    <3> QED BY <2>5, <2>6, <2>7
  <2>9. m \in 0 .. n OBVIOUS
  <2> HIDE DEF g, Is
  <2> QED BY <2>8, <2>9, Zenon
<1>3. n \in P
  <2> HIDE DEF P
  <2>1. n \in 0 .. n OBVIOUS
  <2> QED BY <1>1, <1>2, <2>1, UpTo
<1>4. PICK f : Is(f, n)
  BY <1>3
<1>5. ASSUME NEW k \in 0 .. n PROVE f[k] = IF k = 0 THEN base ELSE step[<<f[k - 1], k>>]
  <2>1. k = 0 \/ k \in 1 .. n OBVIOUS
  <2> QED BY <1>4, <2>1
<1>6. f = [k \in 0 .. n |-> f[k]]
  BY <1>4
<1> QED BY <1>4, <1>5, <1>6 DEF IsRepeated

-----------------------------------------------------------------------------
(* Searches *)

\* A candidate has a place in the product.
LEMMA PlaceIsNumber ==
  ASSUME NEW n \in Nat, NEW per \in Nat, NEW c \in [1 .. n -> Nat]
  PROVE  Place(c, per) \in Nat
<1> DEFINE IsRank(f) == f = [k \in 0 .. n |-> IF k = 0 THEN 0 ELSE f[k - 1] * per + c[k]]
           rank == CHOOSE f : IsRank(f)
           step == [s \in Nat \X (1 .. n) |-> s[1] * per + c[s[2]]]
<1>1. c \in Seq(Nat) /\ Len(c) = n
  OBVIOUS
<1>2. Place(c, per) = rank[n]
  BY <1>1 DEF Place
<1>3. step \in [Nat \X (1 .. n) -> Nat]
  <2>1. ASSUME NEW s \in Nat \X (1 .. n) PROVE s[1] * per + c[s[2]] \in Nat
    <3>1. s[1] \in Nat /\ s[2] \in 1 .. n OBVIOUS
    <3>2. c[s[2]] \in Nat BY <3>1
    <3>3. s[1] * per \in Nat BY <3>1
    <3> QED BY <3>2, <3>3
  <2> QED BY <2>1
<1>4. PICK f \in [0 .. n -> Nat] : IsRepeated(f, n, 0, step)
  <2> HIDE DEF step
  <2>1. 0 \in Nat OBVIOUS
  <2> QED BY <1>3, <2>1, Repeated, Zenon
<1>5. IsRank(f)
  <2>1. ASSUME NEW k \in 1 .. n PROVE step[<<f[k - 1], k>>] = f[k - 1] * per + c[k]
    <3>1. f[k - 1] \in Nat OBVIOUS
    <3> QED BY <3>1
  <2>2. ASSUME NEW k \in 0 .. n
        PROVE  f[k] = IF k = 0 THEN 0 ELSE f[k - 1] * per + c[k]
    <3> HIDE DEF step
    <3>1. k = 0 \/ k \in 1 .. n OBVIOUS
    <3> QED BY <1>4, <2>1, <3>1 DEF IsRepeated
  <2> HIDE DEF step
  <2>3. f = [k \in 0 .. n |-> f[k]] OBVIOUS
  <2> QED BY <2>2, <2>3
<1>6. rank = [k \in 0 .. n |-> IF k = 0 THEN 0 ELSE rank[k - 1] * per + c[k]]
  <2> HIDE DEF step
  <2>1. \E g : IsRank(g) BY <1>5
  <2> HIDE DEF IsRank
  <2>2. IsRank(rank) BY <2>1
  <2> QED BY <2>2 DEF IsRank
<1> HIDE DEF rank
<1> DEFINE P == {k \in 0 .. n : rank[k] \in Nat}
<1>7. 0 \in P
  BY <1>6
<1>8. ASSUME NEW k \in 1 .. n, k - 1 \in P PROVE k \in P
  <2>1. rank[k] = rank[k - 1] * per + c[k] BY <1>6
  <2>2. rank[k - 1] \in Nat /\ c[k] \in Nat BY <1>8
  <2> DEFINE t == rank[k - 1] * per
  <2>3. t \in Nat BY <2>2
  <2> HIDE DEF t
  <2>4. t + c[k] \in Nat BY <2>2, <2>3
  <2>5. k \in 0 .. n OBVIOUS
  <2> QED BY <2>1, <2>4, <2>5 DEF t
<1>9. n \in P
  <2> HIDE DEF P
  <2>1. n \in 0 .. n OBVIOUS
  <2>2. \A k \in 1 .. n : k - 1 \in P => k \in P BY <1>8
  <2>3. \A k \in 0 .. n : k \in P BY <1>7, <2>2, UpTo
  <2> QED BY <2>1, <2>3
<1> QED BY <1>2, <1>9

-----------------------------------------------------------------------------
(* Migrated names *)

\* With more candidates than names in use, one candidate is free.
LEMMA OneIsFree ==
  ASSUME NEW used, IsFiniteSet(used), NEW m \in Nat, Cardinality(used) < m,
         NEW cand, \A i, j \in 1 .. m : cand[i] = cand[j] => i = j
  PROVE  \E i \in 1 .. m : cand[i] \notin used
<1> SUFFICES ASSUME \A i \in 1 .. m : cand[i] \in used PROVE FALSE
  OBVIOUS
<1> DEFINE f == [i \in 1 .. m |-> cand[i]]
<1>1. IsFiniteSet(1 .. m) /\ Cardinality(1 .. m) = m
  BY FS_Interval
<1>2. f \in [1 .. m -> used]
  OBVIOUS
<1>3. \E i, j \in 1 .. m : i # j /\ f[i] = f[j]
  <2> HIDE DEF f
  <2> QED BY <1>1, <1>2, FS_PigeonHole, FS_CardinalityType
<1> QED BY <1>3

\* An instance counts as the module does.
LEMMA SameCardinality == \A S : C!Cardinality(S) = Cardinality(S)
BY Zenon DEF C!Cardinality, Cardinality

\* _stable_id gives a name that is not in use, when there are few enough of those
\* for the suffixes to differ.
LEMMA StableIdIsNew ==
  ASSUME NEW name \in Seq(STRING), NEW used, IsFiniteSet(used), NEW m \in Nat,
         Cardinality(used) < m,
         \A i, j \in 1 .. m : Numeral(i) \in STRING /\ (Numeral(i) = Numeral(j) => i = j)
  PROVE  C!StableId(name, used) \in Seq(STRING) \ used
<1> DEFINE k == Cardinality(used) + 1
           cand == [n \in 1 .. k |-> IF n = 1 THEN name ELSE Append(name, Numeral(n))]
           free == {n \in 1 .. k : cand[n] \notin used}
<1>1. Cardinality(used) \in Nat /\ k \in Nat /\ k <= m /\ Cardinality(used) < k
  BY FS_CardinalityType
<1>2. ASSUME NEW n \in 1 .. k
      PROVE  /\ cand[n] \in Seq(STRING)
             /\ n = 1 => Len(cand[n]) = Len(name)
             /\ n # 1 => /\ Len(cand[n]) = Len(name) + 1
                         /\ cand[n][Len(name) + 1] = Numeral(n)
  <2>1. n \in 1 .. m BY <1>1
  <2>2. Numeral(n) \in STRING BY <2>1
  <2>3. /\ Append(name, Numeral(n)) \in Seq(STRING)
        /\ Len(Append(name, Numeral(n))) = Len(name) + 1
        /\ Append(name, Numeral(n))[Len(name) + 1] = Numeral(n)
    BY <2>2, AppendProperties
  <2>4. cand[n] = IF n = 1 THEN name ELSE Append(name, Numeral(n)) OBVIOUS
  <2> HIDE DEF cand
  <2> QED BY <2>3, <2>4
<1>3. ASSUME NEW i \in 1 .. k, NEW j \in 1 .. k, cand[i] = cand[j] PROVE i = j
  <2>1. Len(name) \in Nat /\ i \in 1 .. m /\ j \in 1 .. m BY <1>1
  <2> HIDE DEF cand
  <2> QED BY <1>3, <1>2, <2>1
<1>4. PICK i \in 1 .. k : cand[i] \notin used
  <2> HIDE DEF cand, k
  <2> QED BY <1>1, <1>3, OneIsFree
<1>5. free \subseteq Nat /\ free # {}
  <2>1. 1 .. k \subseteq Nat BY <1>1
  <2> HIDE DEF cand, k
  <2> QED BY <1>4, <2>1
<1>6. \E n \in free : \A j \in free : n <= j
  <2> HIDE DEF free
  <2> QED BY <1>5, LeastNumber
<1> DEFINE best == CHOOSE n \in free : \A j \in free : n <= j
<1>7. best \in free
  BY <1>6
<1>8. C!StableId(name, used) = cand[best]
  <2> DEFINE cand1(n) == IF n = 1 THEN name ELSE Append(name, Numeral(n))
             free1 == {n \in 1 .. k : cand1(n) \notin used}
             best1 == CHOOSE n \in free1 : \A j \in free1 : n <= j
  <2>1. C!StableId(name, used) = cand1(best1)
    BY SameCardinality DEF C!StableId
  <2>2. free1 = free
    OBVIOUS
  <2>3. best1 = best
    BY <2>2
  <2>4. best \in 1 .. k
    <3> HIDE DEF best
    <3> QED BY <1>7
  <2>5. cand[best] = cand1(best)
    <3> HIDE DEF best
    <3> QED BY <2>4
  <2> QED BY <2>1, <2>3, <2>5
<1> HIDE DEF best
<1> QED BY <1>2, <1>7, <1>8

\* migrate_v1_to_v2 gives every name an id of its own.
LEMMA MigratedIdsDiffer ==
  ASSUME NEW names \in Seq(Seq(STRING)),
         \A i, j \in 1 .. Len(names) + 1 :
           Numeral(i) \in STRING /\ (Numeral(i) = Numeral(j) => i = j)
  PROVE  /\ C!MigratedIds(names) \in Seq(Seq(STRING))
         /\ Len(C!MigratedIds(names)) = Len(names)
         /\ \A i, j \in 1 .. Len(names) :
              C!MigratedIds(names)[i] = C!MigratedIds(names)[j] => i = j
<1> DEFINE n == Len(names)
           Kind == Seq(Seq(STRING))
           Next1(x, k) == Append(x, C!StableId(names[k], {x[i] : i \in 1 .. k - 1}))
           IsIds(f) == f = [k \in 0 .. n |-> IF k = 0 THEN <<>> ELSE Next1(f[k - 1], k)]
           ids == CHOOSE f : IsIds(f)
           step == [s \in Kind \X (1 .. n) |-> Next1(s[1], s[2])]
<1>1. n \in Nat
  OBVIOUS
<1>2. ASSUME NEW x, NEW k \in 1 .. n
      PROVE  C!StableId(names[k], {x[i] : i \in 1 .. k - 1}) \in Seq(STRING) \ {x[i] : i \in 1 .. k - 1}
  <2> DEFINE used == {x[i] : i \in 1 .. k - 1}
             f == [i \in 1 .. k - 1 |-> x[i]]
  <2>1. IsFiniteSet(1 .. k - 1) /\ Cardinality(1 .. k - 1) = k - 1
    <3>1. k - 1 \in Nat /\ 1 \in Int /\ k - 1 \in Int BY <1>1
    <3> QED BY <3>1, FS_Interval
  <2>2. f \in Surjection(1 .. k - 1, used)
    BY DEF Surjection
  <2>3. IsFiniteSet(used) /\ Cardinality(used) <= k - 1
    <3> HIDE DEF used, f
    <3> QED BY <2>1, <2>2, FS_Surjection
  <2>4. names[k] \in Seq(STRING) /\ n + 1 \in Nat /\ Cardinality(used) \in Nat
    BY <1>1, <2>3, FS_CardinalityType
  <2>5. Cardinality(used) < n + 1
    <3> HIDE DEF used
    <3> QED BY <2>3, <2>4, <1>1
  <2> HIDE DEF used
  <2>6. C!StableId(names[k], used) \in Seq(STRING) \ used
    BY <2>3, <2>4, <2>5, StableIdIsNew
  <2> QED BY <2>6 DEF used
<1>3. step \in [Kind \X (1 .. n) -> Kind]
  <2>1. ASSUME NEW s \in Kind \X (1 .. n) PROVE Next1(s[1], s[2]) \in Kind
    <3>1. s[1] \in Kind /\ s[2] \in 1 .. n OBVIOUS
    <3> DEFINE x == s[1]
               k == s[2]
    <3> HIDE DEF x, k
    <3>2. C!StableId(names[k], {x[i] : i \in 1 .. k - 1}) \in Seq(STRING)
      <4>1. k \in 1 .. n BY <3>1 DEF k
      <4>2. C!StableId(names[k], {x[i] : i \in 1 .. k - 1}) \in Seq(STRING) \ {x[i] : i \in 1 .. k - 1}
        BY <1>2, <4>1
      <4> QED BY <4>2
    <3>3. x \in Seq(Seq(STRING)) BY <3>1 DEF x
    <3>4. Append(x, C!StableId(names[k], {x[i] : i \in 1 .. k - 1})) \in Seq(Seq(STRING))
      BY <3>2, <3>3, AppendProperties
    <3> QED BY <3>4 DEF x, k
  <2> HIDE DEF Next1
  <2> QED BY <2>1
<1>4. PICK f \in [0 .. n -> Kind] : IsRepeated(f, n, <<>>, step)
  <2> HIDE DEF step
  <2>1. <<>> \in Kind OBVIOUS
  <2> HIDE DEF Kind
  <2> QED BY <1>1, <1>3, <2>1, Repeated, Zenon
<1>5. IsIds(f)
  <2>1. ASSUME NEW k \in 1 .. n PROVE step[<<f[k - 1], k>>] = Next1(f[k - 1], k)
    <3> HIDE DEF Next1, Kind
    <3>1. f[k - 1] \in Kind
      <4>1. k - 1 \in 0 .. n BY <1>1
      <4> QED BY <4>1
    <3> QED BY <3>1
  <2> HIDE DEF step, Next1, Kind
  <2>2. ASSUME NEW k \in 0 .. n
        PROVE  f[k] = IF k = 0 THEN <<>> ELSE Next1(f[k - 1], k)
    <3>1. k = 0 \/ k \in 1 .. n OBVIOUS
    <3> QED BY <1>4, <2>1, <3>1 DEF IsRepeated
  <2>3. f = [k \in 0 .. n |-> f[k]] OBVIOUS
  <2> QED BY <2>2, <2>3
<1>6. IsIds(ids)
  <2>1. \E g : IsIds(g) BY <1>5
  <2> HIDE DEF IsIds
  <2> QED BY <2>1
<1>7. C!MigratedIds(names) = ids[n]
  BY DEF C!MigratedIds
<1> HIDE DEF ids
<1> DEFINE Apart1(x, k) == /\ x \in Kind /\ Len(x) = k
                           /\ \A i, j \in 1 .. k : x[i] = x[j] => i = j
           P == {k \in 0 .. n : Apart1(ids[k], k)}
<1>8. 0 \in P
  <2>1. ids[0] = <<>> /\ 0 \in 0 .. n BY <1>6, <1>1
  <2>2. <<>> \in Seq(Seq(STRING)) /\ Len(<<>>) = 0 /\ \A i \in 1 .. 0 : FALSE OBVIOUS
  <2> QED BY <2>1, <2>2
<1>9. ASSUME NEW k \in 1 .. n, k - 1 \in P PROVE k \in P
  <2> DEFINE x == ids[k - 1]
             new == C!StableId(names[k], {x[i] : i \in 1 .. k - 1})
  <2>1. k \in 0 .. n /\ k # 0 /\ k - 1 \in Nat /\ k \in Nat BY <1>1
  <2>2. ids[k] = Append(x, new) BY <1>6, <2>1
  <2>3. Apart1(x, k - 1) BY <1>9
  <2>4. new \in Seq(STRING) /\ \A i \in 1 .. k - 1 : new # x[i]
    <3> HIDE DEF x
    <3>1. new \in Seq(STRING) \ {x[i] : i \in 1 .. k - 1} BY <1>2
    <3> HIDE DEF new
    <3> QED BY <3>1
  <2> HIDE DEF x, new
  <2>5. x \in Seq(Seq(STRING)) /\ Len(x) = k - 1 BY <2>3
  <2>6. /\ Append(x, new) \in Kind /\ Len(Append(x, new)) = k
        /\ \A i \in 1 .. k - 1 : Append(x, new)[i] = x[i]
        /\ Append(x, new)[k] = new
    BY <2>1, <2>4, <2>5
  <2>7. ASSUME NEW i \in 1 .. k, NEW j \in 1 .. k, Append(x, new)[i] = Append(x, new)[j] PROVE i = j
    <3>1. (i = k \/ i \in 1 .. k - 1) /\ (j = k \/ j \in 1 .. k - 1) BY <2>1
    <3> QED BY <3>1, <2>3, <2>4, <2>6, <2>7
  <2>8. Apart1(ids[k], k) BY <2>2, <2>6, <2>7
  <2> HIDE DEF Apart1
  <2> QED BY <2>1, <2>8
<1>10. n \in P
  <2> HIDE DEF P
  <2>1. n \in 0 .. n BY <1>1
  <2>2. \A k \in 1 .. n : k - 1 \in P => k \in P BY <1>9
  <2>3. \A k \in 0 .. n : k \in P BY <1>1, <1>8, <2>2, UpTo
  <2> QED BY <2>1, <2>3
<1> QED BY <1>7, <1>10

-----------------------------------------------------------------------------
(* Motions *)

Pose == {"clear", "hit", "fail"}

\* The states of a sweep over n poses.
SweepState(n) ==
  [lastClear : 0 .. n, through : 0 .. n, first : 0 .. n, blocked : BOOLEAN, failed : Nat]

\* What a sweep knows after i poses: those before the one that blocked were free.
Swept(s, poses, i) ==
  /\ ~s.blocked => s.first = 0 /\ s.lastClear = i /\ s.through = Len(poses)
                   /\ \A j \in 1 .. i : poses[j] = "clear"
  /\ s.blocked => s.through < i /\ poses[s.through + 1] # "clear"
                  /\ \A j \in 1 .. s.through : poses[j] = "clear"

\* One pose keeps that.
LEMMA SweepStepKeeps ==
  ASSUME NEW poses \in Seq(Pose), NEW i \in 1 .. Len(poses),
         NEW s \in SweepState(Len(poses)), Swept(s, poses, i - 1)
  PROVE  /\ SweepStep(s, poses[i], i) \in SweepState(Len(poses))
         /\ Swept(SweepStep(s, poses[i], i), poses, i)
<1> DEFINE n == Len(poses)
           t == SweepStep(s, poses[i], i)
<1>1. /\ n \in Nat /\ poses[i] \in Pose /\ i \in 1 .. n
      /\ s.lastClear \in 0 .. n /\ s.through \in 0 .. n /\ s.first \in 0 .. n
      /\ s.blocked \in BOOLEAN /\ s.failed \in Nat
  BY DEF SweepState
<1> DEFINE blockedAt == IF s.blocked THEN s.through ELSE s.lastClear
<1>0. blockedAt \in 0 .. n /\ s.failed + 1 \in Nat
  BY <1>1
<1>2. CASE poses[i] = "fail"
  <2>1. t = [s EXCEPT !.failed = s.failed + 1, !.blocked = TRUE,
                      !.through = IF s.blocked THEN s.through ELSE s.lastClear]
    BY <1>2 DEF SweepStep
  <2>2. t.blocked = TRUE /\ t.through = (IF s.blocked THEN s.through ELSE s.lastClear)
    BY <2>1 DEF SweepState
  <2>3. t \in SweepState(n)
    <3>1. t = [s EXCEPT !.failed = s.failed + 1, !.blocked = TRUE, !.through = blockedAt] BY <2>1
    <3> HIDE DEF blockedAt, t
    <3> QED BY <3>1, <1>1, <1>0 DEF SweepState
  <2>4. Swept(t, poses, i)
    <3> HIDE DEF t
    <3> QED BY <1>1, <1>2, <2>2 DEF Swept
  <2> QED BY <2>3, <2>4
<1>3. CASE poses[i] = "hit" /\ s.first = 0
  <2>1. t = [s EXCEPT !.first = i, !.blocked = TRUE,
                      !.through = IF s.blocked THEN s.through ELSE s.lastClear]
    BY <1>3 DEF SweepStep
  <2>2. t.blocked = TRUE /\ t.through = (IF s.blocked THEN s.through ELSE s.lastClear)
    BY <2>1 DEF SweepState
  <2>3. t \in SweepState(n)
    <3>1. t = [s EXCEPT !.first = i, !.blocked = TRUE, !.through = blockedAt] BY <2>1
    <3>2. i \in 0 .. n BY <1>1
    <3> HIDE DEF blockedAt, t
    <3> QED BY <3>1, <3>2, <1>0 DEF SweepState
  <2>4. Swept(t, poses, i)
    <3> HIDE DEF t
    <3> QED BY <1>1, <1>3, <2>2 DEF Swept
  <2> QED BY <2>3, <2>4
<1>4. CASE poses[i] = "hit" /\ s.first # 0
  <2>1. t = s
    BY <1>4 DEF SweepStep
  <2>2. s.blocked
    BY <1>4 DEF Swept
  <2> QED BY <1>1, <2>1, <2>2 DEF Swept
<1>5. CASE poses[i] = "clear" /\ ~s.blocked
  <2>1. t = [s EXCEPT !.lastClear = i]
    BY <1>5 DEF SweepStep
  <2>2. /\ t.lastClear = i /\ t.blocked = s.blocked /\ t.first = s.first /\ t.through = s.through
    BY <2>1 DEF SweepState
  <2>3. t \in SweepState(n)
    BY <2>1, <1>1 DEF SweepState
  <2>4. Swept(t, poses, i)
    <3> HIDE DEF t
    <3> QED BY <1>1, <1>5, <2>2 DEF Swept
  <2> QED BY <2>3, <2>4
<1>6. CASE poses[i] = "clear" /\ s.blocked
  <2>1. t = s
    BY <1>6 DEF SweepStep
  <2> QED BY <1>1, <1>6, <2>1 DEF Swept
<1> QED
  BY <1>1, <1>2, <1>3, <1>4, <1>5, <1>6 DEF Pose

\* Sweep: the poses up to clearThrough are free and the next one is not.
LEMMA SweepIsClear ==
  ASSUME NEW poses \in Seq(Pose)
  PROVE  /\ Sweep(poses).through \in 0 .. Len(poses)
         /\ \A i \in 1 .. Sweep(poses).through : poses[i] = "clear"
         /\ Sweep(poses).through < Len(poses) => poses[Sweep(poses).through + 1] # "clear"
<1> DEFINE n == Len(poses)
           Kind == SweepState(n)
           base == [lastClear |-> 0, through |-> n, first |-> 0, blocked |-> FALSE, failed |-> 0]
           Is(f) == f = [i \in 0 .. n |-> IF i = 0 THEN base ELSE SweepStep(f[i - 1], poses[i], i)]
           swept == CHOOSE f : Is(f)
           \* A state that the steps do not reach is left alone.
           to(s, i) == IF Swept(s, poses, i - 1) THEN SweepStep(s, poses[i], i) ELSE s
           step == [x \in Kind \X (1 .. n) |-> to(x[1], x[2])]
<1>1. n \in Nat
  OBVIOUS
<1>2. base \in Kind /\ Swept(base, poses, 0)
  BY <1>1 DEF SweepState, Swept
<1>3. ASSUME NEW s \in Kind, NEW i \in 1 .. n PROVE to(s, i) \in Kind
  BY <1>3, SweepStepKeeps
<1>4. step \in [Kind \X (1 .. n) -> Kind]
  <2>1. ASSUME NEW x \in Kind \X (1 .. n) PROVE to(x[1], x[2]) \in Kind
    <3>1. x[1] \in Kind /\ x[2] \in 1 .. n OBVIOUS
    <3> HIDE DEF to, Kind
    <3> QED BY <3>1, <1>3
  <2> HIDE DEF to
  <2> QED BY <2>1
<1>5. PICK f \in [0 .. n -> Kind] : IsRepeated(f, n, base, step)
  <2> HIDE DEF step, Kind, base
  <2> QED BY <1>1, <1>2, <1>4, Repeated, Zenon
<1>6. \A i \in 1 .. n : f[i - 1] \in Kind /\ f[i] = to(f[i - 1], i)
  <2> SUFFICES ASSUME NEW i \in 1 .. n PROVE f[i - 1] \in Kind /\ f[i] = to(f[i - 1], i)
    OBVIOUS
  <2> HIDE DEF Kind, to, base
  <2>1. i \in 0 .. n /\ i # 0 /\ i - 1 \in 0 .. n BY <1>1
  <2>2. f[i - 1] \in Kind BY <2>1
  <2>3. step[<<f[i - 1], i>>] = to(f[i - 1], i) BY <2>2
  <2> HIDE DEF step
  <2> QED BY <1>5, <2>1, <2>2, <2>3 DEF IsRepeated
<1> DEFINE P == {i \in 0 .. n : Swept(f[i], poses, i)}
<1>7. 0 \in P
  <2> HIDE DEF base, Kind, step
  <2>1. 0 \in 0 .. n /\ f[0] = base BY <1>1, <1>5 DEF IsRepeated
  <2> QED BY <2>1, <1>2
<1>8. ASSUME NEW i \in 1 .. n, i - 1 \in P PROVE i \in P
  <2>1. f[i - 1] \in Kind /\ Swept(f[i - 1], poses, i - 1) BY <1>6, <1>8
  <2>2. f[i] = SweepStep(f[i - 1], poses[i], i)
    <3> HIDE DEF Kind
    <3> QED BY <1>6, <2>1
  <2>3. i \in 0 .. n BY <1>1
  <2> QED BY <2>1, <2>2, <2>3, SweepStepKeeps
<1>9. \A i \in 0 .. n : i \in P
  <2> HIDE DEF P
  <2>1. \A i \in 1 .. n : i - 1 \in P => i \in P BY <1>8
  <2> QED BY <1>1, <1>7, <2>1, UpTo
<1>10. Is(f)
  <2>1. ASSUME NEW i \in 0 .. n
        PROVE  f[i] = IF i = 0 THEN base ELSE SweepStep(f[i - 1], poses[i], i)
    <3>1. CASE i = 0
      <4> HIDE DEF base, Kind, step
      <4> QED BY <1>5, <3>1 DEF IsRepeated
    <3>2. CASE i # 0
      <4>1. i \in 1 .. n /\ i - 1 \in 0 .. n BY <3>2, <1>1
      <4>2. Swept(f[i - 1], poses, i - 1) BY <4>1, <1>9
      <4> HIDE DEF base, Kind
      <4> QED BY <3>2, <4>1, <4>2, <1>6
    <3> QED BY <3>1, <3>2
  <2> HIDE DEF base, Kind
  <2>2. f = [i \in 0 .. n |-> f[i]] OBVIOUS
  <2> QED BY <2>1, <2>2
<1>11. Is(swept)
  <2>1. \E g : Is(g) BY <1>10
  <2> HIDE DEF Is
  <2> QED BY <2>1
<1>12. Sweep(poses) = swept[n]
  BY DEF Sweep
<1> HIDE DEF swept
<1> DEFINE Q == {i \in 0 .. n : swept[i] = f[i]}
<1>13. 0 \in Q
  <2>1. 0 \in 0 .. n BY <1>1
  <2> HIDE DEF base
  <2> QED BY <1>10, <1>11, <2>1
<1>14. ASSUME NEW i \in 1 .. n, i - 1 \in Q PROVE i \in Q
  <2>1. i \in 0 .. n /\ i # 0 BY <1>1
  <2> HIDE DEF base
  <2>2. f[i] = SweepStep(f[i - 1], poses[i], i) BY <1>10, <2>1
  <2>3. swept[i] = SweepStep(swept[i - 1], poses[i], i) BY <1>11, <2>1
  <2> QED BY <1>14, <2>1, <2>2, <2>3
<1>15. Sweep(poses) = f[n] /\ f[n] \in Kind /\ Swept(f[n], poses, n)
  <2>1. n \in 0 .. n BY <1>1
  <2> HIDE DEF Q, P, Kind, Is
  <2>2. \A i \in 1 .. n : i - 1 \in Q => i \in Q BY <1>14
  <2>3. n \in Q /\ n \in P BY <1>1, <1>13, <2>1, <2>2, <1>9, UpTo
  <2> QED BY <1>12, <2>1, <2>3 DEF P, Q
<1> QED BY <1>15, <1>1 DEF SweepState, Swept

-----------------------------------------------------------------------------
(* Tolerances *)

Links == [nominal : Int, plus : Int, minus : Int, direction : {-1, 1}]

\* Multiplied by its direction, a deviation stays within the link's limits.
LEMMA LimitsHold ==
  ASSUME NEW link \in Links
  PROVE  /\ Limits(link).lo \in Int /\ Limits(link).hi \in Int
         /\ \A v \in Int : link.minus <= v /\ v <= link.plus =>
              Limits(link).lo <= link.direction * v /\ link.direction * v <= Limits(link).hi
<1> DEFINE a == link.direction * link.minus
           b == link.direction * link.plus
<1>1. /\ link.minus \in Int /\ link.plus \in Int /\ link.direction \in {-1, 1}
      /\ a = (IF link.direction = 1 THEN link.minus ELSE -link.minus)
      /\ b = (IF link.direction = 1 THEN link.plus ELSE -link.plus)
  BY DEF Links
<1>2. Limits(link).lo = Min({a, b}) /\ Limits(link).hi = Max({a, b})
  BY DEF Limits
<1>3. a \in Int /\ b \in Int
  BY <1>1
<1> HIDE DEF a, b
<1>4. Min({a, b}) \in {a, b} /\ Min({a, b}) <= a /\ Min({a, b}) <= b
  <2>1. \E x \in {a, b} : \A y \in {a, b} : x <= y BY <1>3
  <2> QED BY <2>1 DEF Min
<1>5. Max({a, b}) \in {a, b} /\ Max({a, b}) >= a /\ Max({a, b}) >= b
  <2>1. \E x \in {a, b} : \A y \in {a, b} : x >= y BY <1>3
  <2> QED BY <2>1 DEF Max
<1>6. ASSUME NEW v \in Int, link.minus <= v, v <= link.plus
      PROVE  Limits(link).lo <= link.direction * v /\ link.direction * v <= Limits(link).hi
  <2>1. link.direction * v = (IF link.direction = 1 THEN v ELSE -v) BY <1>1
  <2> QED BY <1>1, <1>2, <1>3, <1>4, <1>5, <1>6, <2>1
<1> QED BY <1>2, <1>3, <1>4, <1>5, <1>6

\* The worst cases that tolerance_stack sums up.
IsSum(sum, chain) ==
  sum = [i \in 0 .. Len(chain) |->
          IF i = 0 THEN [min |-> 0, max |-> 0]
          ELSE LET at == chain[i].direction * chain[i].nominal
               IN [min |-> sum[i - 1].min + at + Limits(chain[i]).lo,
                   max |-> sum[i - 1].max + at + Limits(chain[i]).hi]]

\* The gap that a choice of deviations leaves.
IsGap(g, chain, d) ==
  g = [i \in 0 .. Len(chain) |->
        IF i = 0 THEN 0 ELSE g[i - 1] + chain[i].direction * (chain[i].nominal + d[i])]

LEMMA SumExists ==
  ASSUME NEW chain \in Seq(Links)
  PROVE  \E sum : IsSum(sum, chain)
<1> DEFINE n == Len(chain)
           Kind == [min : Int, max : Int]
           base == [min |-> 0, max |-> 0]
           at(i) == chain[i].direction * chain[i].nominal
           to(s, i) == [min |-> s.min + at(i) + Limits(chain[i]).lo,
                        max |-> s.max + at(i) + Limits(chain[i]).hi]
           step == [x \in Kind \X (1 .. n) |-> to(x[1], x[2])]
<1>1. n \in Nat /\ base \in Kind
  OBVIOUS
<1>2. ASSUME NEW s \in Kind, NEW i \in 1 .. n PROVE to(s, i) \in Kind
  <2>1. chain[i] \in Links OBVIOUS
  <2>2. at(i) \in Int BY <2>1 DEF Links
  <2>3. Limits(chain[i]).lo \in Int /\ Limits(chain[i]).hi \in Int BY <2>1, LimitsHold
  <2> HIDE DEF at
  <2> QED BY <2>2, <2>3
<1>3. step \in [Kind \X (1 .. n) -> Kind]
  <2>1. ASSUME NEW x \in Kind \X (1 .. n) PROVE to(x[1], x[2]) \in Kind
    <3>1. x[1] \in Kind /\ x[2] \in 1 .. n OBVIOUS
    <3> HIDE DEF to, Kind
    <3> QED BY <3>1, <1>2
  <2> HIDE DEF to
  <2> QED BY <2>1
<1>4. PICK f \in [0 .. n -> Kind] : IsRepeated(f, n, base, step)
  <2> HIDE DEF step, Kind, base
  <2> QED BY <1>1, <1>3, Repeated, Zenon
<1>5. ASSUME NEW i \in 0 .. n PROVE f[i] = IF i = 0 THEN base ELSE to(f[i - 1], i)
  <2> HIDE DEF to, Kind, base
  <2>1. CASE i = 0 BY <1>4, <2>1 DEF IsRepeated
  <2>2. CASE i # 0
    <3>1. i \in 1 .. n /\ i - 1 \in 0 .. n BY <2>2, <1>1
    <3>2. f[i - 1] \in Kind BY <3>1
    <3>3. step[<<f[i - 1], i>>] = to(f[i - 1], i) BY <3>1, <3>2
    <3> HIDE DEF step
    <3> QED BY <1>4, <2>2, <3>3 DEF IsRepeated
  <2> QED BY <2>1, <2>2
<1>6. f = [i \in 0 .. n |-> IF i = 0 THEN base ELSE to(f[i - 1], i)]
  <2> HIDE DEF base, Kind, to, step
  <2>1. f = [i \in 0 .. n |-> f[i]] OBVIOUS
  <2> QED BY <2>1, <1>5
<1> HIDE DEF step
<1>7. IsSum(f, chain)
  BY <1>6, Zenon DEF IsSum
<1> QED BY <1>7

LEMMA GapExists ==
  ASSUME NEW chain \in Seq(Links), NEW d \in [DOMAIN chain -> -1 .. 1]
  PROVE  \E g : IsGap(g, chain, d)
<1> DEFINE n == Len(chain)
           term(i) == chain[i].direction * (chain[i].nominal + d[i])
           step == [x \in Int \X (1 .. n) |-> x[1] + term(x[2])]
<1>1. n \in Nat /\ 0 \in Int /\ DOMAIN chain = 1 .. n
  OBVIOUS
<1>2. ASSUME NEW i \in 1 .. n PROVE term(i) \in Int
  <2>1. chain[i] \in Links /\ d[i] \in Int BY <1>1
  <2>2. /\ chain[i].direction \in Int /\ chain[i].nominal \in Int BY <2>1 DEF Links
  <2> QED BY <2>1, <2>2
<1>3. step \in [Int \X (1 .. n) -> Int]
  <2>1. ASSUME NEW x \in Int \X (1 .. n) PROVE x[1] + term(x[2]) \in Int
    <3>1. x[1] \in Int /\ x[2] \in 1 .. n OBVIOUS
    <3>2. term(x[2]) \in Int
      <4> HIDE DEF term
      <4> QED BY <3>1, <1>2
    <3> HIDE DEF term
    <3> QED BY <3>1, <3>2
  <2> HIDE DEF term
  <2> QED BY <2>1
<1>4. PICK f \in [0 .. n -> Int] : IsRepeated(f, n, 0, step)
  <2> HIDE DEF step
  <2> QED BY <1>1, <1>3, Repeated, Zenon
<1>5. ASSUME NEW i \in 0 .. n PROVE f[i] = IF i = 0 THEN 0 ELSE f[i - 1] + term(i)
  <2> HIDE DEF term
  <2>1. CASE i = 0 BY <1>4, <2>1 DEF IsRepeated
  <2>2. CASE i # 0
    <3>1. i \in 1 .. n /\ i - 1 \in 0 .. n BY <2>2, <1>1
    <3>2. f[i - 1] \in Int BY <3>1
    <3>3. step[<<f[i - 1], i>>] = f[i - 1] + term(i) BY <3>1, <3>2
    <3> HIDE DEF step
    <3> QED BY <1>4, <2>2, <3>3 DEF IsRepeated
  <2> QED BY <2>1, <2>2
<1>6. f = [i \in 0 .. n |-> IF i = 0 THEN 0 ELSE f[i - 1] + term(i)]
  <2> HIDE DEF term, step
  <2>1. f = [i \in 0 .. n |-> f[i]] OBVIOUS
  <2> QED BY <2>1, <1>5
<1> HIDE DEF step
<1>7. IsGap(f, chain, d)
  BY <1>6, Zenon DEF IsGap
<1> QED BY <1>7

\* The gap is never outside the sums.
LEMMA GapWithinSum ==
  ASSUME NEW chain \in Seq(Links), NEW d \in [DOMAIN chain -> -1 .. 1],
         \A i \in DOMAIN chain : chain[i].minus <= d[i] /\ d[i] <= chain[i].plus,
         NEW sum, IsSum(sum, chain), NEW g, IsGap(g, chain, d)
  PROVE  LET n == Len(chain)
         IN /\ g[n] \in Int /\ sum[n].min \in Int /\ sum[n].max \in Int
            /\ sum[n].min <= g[n] /\ g[n] <= sum[n].max
<1> DEFINE n == Len(chain)
           P == {i \in 0 .. n : /\ g[i] \in Int /\ sum[i].min \in Int /\ sum[i].max \in Int
                                /\ sum[i].min <= g[i] /\ g[i] <= sum[i].max}
<1>1. n \in Nat /\ DOMAIN chain = 1 .. n
  OBVIOUS
<1>2. 0 \in P
  <2>1. 0 \in 0 .. n BY <1>1
  <2>2. sum[0] = [min |-> 0, max |-> 0] /\ g[0] = 0 BY <2>1 DEF IsSum, IsGap
  <2> QED BY <2>1, <2>2
<1>3. ASSUME NEW i \in 1 .. n, i - 1 \in P PROVE i \in P
  <2> DEFINE at == chain[i].direction * chain[i].nominal
             dev == chain[i].direction * d[i]
  <2>1. i \in 0 .. n /\ i # 0 BY <1>1
  <2>2. chain[i] \in Links /\ d[i] \in Int /\ chain[i].minus <= d[i] /\ d[i] <= chain[i].plus
    BY <1>1
  <2>3. /\ chain[i].direction \in {-1, 1} /\ chain[i].nominal \in Int BY <2>2 DEF Links
  <2>4. at \in Int /\ dev \in Int /\ chain[i].direction * (chain[i].nominal + d[i]) = at + dev
    BY <2>2, <2>3
  <2>5. /\ Limits(chain[i]).lo \in Int /\ Limits(chain[i]).hi \in Int
        /\ Limits(chain[i]).lo <= dev /\ dev <= Limits(chain[i]).hi
    BY <2>2, LimitsHold
  <2>6. sum[i] = [min |-> sum[i - 1].min + at + Limits(chain[i]).lo,
                  max |-> sum[i - 1].max + at + Limits(chain[i]).hi]
    BY <2>1 DEF IsSum
  <2>7. g[i] = g[i - 1] + (at + dev)
    BY <2>1, <2>4 DEF IsGap
  <2> HIDE DEF at, dev
  <2>8. /\ g[i - 1] \in Int /\ sum[i - 1].min \in Int /\ sum[i - 1].max \in Int
        /\ sum[i - 1].min <= g[i - 1] /\ g[i - 1] <= sum[i - 1].max
    BY <1>3
  <2>9. /\ sum[i].min = sum[i - 1].min + at + Limits(chain[i]).lo
        /\ sum[i].max = sum[i - 1].max + at + Limits(chain[i]).hi
    BY <2>6
  <2> DEFINE lo == Limits(chain[i]).lo
             hi == Limits(chain[i]).hi
             a == sum[i - 1].min
             b == sum[i - 1].max
             c == g[i - 1]
  <2>10. a \in Int /\ b \in Int /\ c \in Int /\ lo \in Int /\ hi \in Int
    BY <2>5, <2>8
  <2>11. a <= c /\ c <= b /\ lo <= dev /\ dev <= hi
    BY <2>5, <2>8
  <2>12. g[i] = c + (at + dev) /\ sum[i].min = a + at + lo /\ sum[i].max = b + at + hi
    BY <2>7, <2>9
  <2> HIDE DEF lo, hi, a, b, c
  <2>13. /\ c + (at + dev) \in Int /\ a + at + lo \in Int /\ b + at + hi \in Int
         /\ a + at + lo <= c + (at + dev) /\ c + (at + dev) <= b + at + hi
    BY <2>4, <2>10, <2>11
  <2> QED BY <2>1, <2>12, <2>13
<1>4. n \in P
  <2> HIDE DEF P
  <2>1. n \in 0 .. n BY <1>1
  <2>2. \A i \in 1 .. n : i - 1 \in P => i \in P BY <1>3
  <2> QED BY <1>1, <1>2, <2>1, <2>2, UpTo
<1> QED BY <1>4

\* tolerance_stack: its bounds hold of every choice of deviations, and so does its
\* kind of fit.
LEMMA StackHolds ==
  ASSUME NEW chain \in Seq(Links), NEW d \in [DOMAIN chain -> -1 .. 1],
         \A i \in DOMAIN chain : chain[i].minus <= d[i] /\ d[i] <= chain[i].plus
  PROVE  LET g[i \in 0 .. Len(chain)] ==
               IF i = 0 THEN 0
               ELSE g[i - 1] + chain[i].direction * (chain[i].nominal + d[i])
             gap == g[Len(chain)]
             is == ToleranceStack(chain)
         IN /\ is.min <= gap /\ gap <= is.max
            /\ is.fit = "clearance" => gap >= 0
            /\ is.fit = "interference" => gap <= 0
<1> DEFINE g == CHOOSE g : IsGap(g, chain, d)
           sum == CHOOSE sum : IsSum(sum, chain)
           n == Len(chain)
           mating == {chain[i].direction : i \in DOMAIN chain} = {1, -1}
           is == ToleranceStack(chain)
<1>1. IsGap(g, chain, d) /\ IsSum(sum, chain)
  BY GapExists, SumExists
<1>2. is = [min |-> sum[n].min, max |-> sum[n].max,
            fit |-> CASE ~mating -> "none"
                      [] mating /\ sum[n].min >= 0 -> "clearance"
                      [] mating /\ sum[n].min < 0 /\ sum[n].max <= 0 -> "interference"
                      [] OTHER -> "transition"]
  BY Zenon DEF ToleranceStack, IsSum
<1> HIDE DEF g, sum, mating, is
<1>3. /\ g[n] \in Int /\ sum[n].min \in Int /\ sum[n].max \in Int
      /\ sum[n].min <= g[n] /\ g[n] <= sum[n].max
  BY <1>1, GapWithinSum
<1>4. /\ is.min = sum[n].min /\ is.max = sum[n].max
      /\ is.fit = "clearance" => sum[n].min >= 0
      /\ is.fit = "interference" => sum[n].max <= 0
  BY <1>2
<1>5. /\ is.min <= g[n] /\ g[n] <= is.max
      /\ is.fit = "clearance" => g[n] >= 0
      /\ is.fit = "interference" => g[n] <= 0
  BY <1>3, <1>4
<1> QED BY <1>5, Zenon DEF g, is, IsGap

-----------------------------------------------------------------------------
(* Requirements *)

\* What is stored of goals a client may send is what they are migrated to.
LEMMA StoredForm ==
  ASSUME NEW g \in Goals \cup {{}}, NEW r \in Stored(g)
  PROVE  /\ r.form \in {"predicate", "assert"}
         /\ r.id \in Ids
         /\ \E q \in g : r = Migrate(q)
<1>1. PICK q \in g : r = Migrate(q)
  BY DEF Stored
<1>2. g \in Goals /\ q \in UNION Goals
  BY <1>1
<1>3. q.form \in {"predicate", "assert", "legacy"}
  BY <1>1, <1>2, GoalsAssumption
<1>4. q.id \in Ids
  BY <1>2 DEF Ids
<1>5. CASE q.form = "legacy"
  <2>1. r = [form |-> "predicate", id |-> q.id, enabled |-> q.enabled,
             quantity |-> LegacyMap(q)[1], op |-> LegacyMap(q)[2], bound |-> LegacyMap(q)[3]]
    BY <1>1, <1>5 DEF Migrate
  <2>2. r.form = "predicate" /\ r.id = q.id
    BY <2>1
  <2> QED BY <1>1, <1>4, <2>2
<1>6. CASE q.form # "legacy"
  <2>1. r = q
    BY <1>1, <1>6 DEF Migrate
  <2> QED BY <1>1, <1>3, <1>4, <1>6, <2>1
<1> QED BY <1>5, <1>6

\* An evaluation of one goal is a verdict or an exception.
LEMMA EvalOneIs ==
  ASSUME NEW r, NEW ctx, r.form \in {"predicate", "assert"}
  PROVE  EvalOne(r, ctx) \in Verdicts \cup {"raises"}
<1>1. \A b : Verdict(b) \in Verdicts
  BY DEF Verdict, Verdicts
<1>2. CASE r.form = "predicate"
  <2>1. EvalOne(r, ctx) = EvalPredicate(r, ctx) BY <1>2 DEF EvalOne
  <2> HIDE DEF Verdicts
  <2>2. EvalPredicate(r, ctx) \in Verdicts \cup {"raises"}
    <3>1. CASE ~Has(r.quantity, ctx) \/ ~BoundOk(r)
      BY <3>1 DEF EvalPredicate, Verdicts
    <3>2. CASE ~(~Has(r.quantity, ctx) \/ ~BoundOk(r)) /\ r.bound.of = Null
      BY <3>2 DEF EvalPredicate, Verdicts
    <3>3. CASE ~(~Has(r.quantity, ctx) \/ ~BoundOk(r)) /\ r.bound.of # Null
      <4> DEFINE m == Measured(r.quantity, ctx)
                 b == IF r.quantity = "size" THEN \A i \in 1 .. 3 : Compare(r.op, m[i], r.bound.of[i])
                      ELSE Compare(r.op, m, r.bound.of)
      <4>1. EvalPredicate(r, ctx) = Verdict(b) BY <3>3, Zenon DEF EvalPredicate
      <4> HIDE DEF b
      <4> QED BY <4>1, <1>1
    <3> QED BY <3>1, <3>2, <3>3
  <2> QED BY <2>1, <2>2
<1>3. CASE r.form = "assert"
  <2>1. EvalOne(r, ctx) = EvalAssert(r, ctx) BY <1>3 DEF EvalOne
  <2>2. EvalAssert(r, ctx) \in Verdicts
    <3>1. CASE ~Has(r.quantity, ctx) \/ r.bound.of = Null
      BY <3>1 DEF EvalAssert, Verdicts
    <3>2. CASE ~(~Has(r.quantity, ctx) \/ r.bound.of = Null)
      <4>1. EvalAssert(r, ctx) = Verdict(Compare(r.op, Measured(r.quantity, ctx), r.bound.of))
        BY <3>2, Zenon DEF EvalAssert
      <4> QED BY <4>1, <1>1
    <3> QED BY <3>1, <3>2
  <2> QED BY <2>1, <2>2
<1> QED BY <1>2, <1>3

\* What check_requirements answers is a result.
LEMMA EvaluateIsResult ==
  ASSUME NEW g \in Goals \cup {{}}, NEW ctx, ~Raises(Stored(g), ctx)
  PROVE  Evaluate(Stored(g), ctx) \in Results
<1> DEFINE rs == Stored(g)
           of(i) == CHOOSE r \in Enabled(rs) : r.id = i
           D == {r.id : r \in Enabled(rs)}
           f == Evaluate(rs, ctx)
<1>1. f = [i \in D |-> EvalOne(of(i), ctx)]
  BY Zenon DEF Evaluate
<1>2. \A r \in Enabled(rs) : r \in rs
  BY DEF Enabled
<1>3. D \subseteq Ids
  <2> HIDE DEF rs
  <2>1. \A r \in rs : r.id \in Ids
    <3> USE DEF rs
    <3> QED BY StoredForm
  <2> QED BY <1>2, <2>1
<1>4. ASSUME NEW i \in D PROVE f[i] \in Verdicts
  <2>1. \E r \in Enabled(rs) : r.id = i
    <3> HIDE DEF rs
    <3> QED BY <1>4
  <2> HIDE DEF D
  <2>2. of(i) \in Enabled(rs)
    BY <2>1
  <2> HIDE DEF of
  <2>3. of(i).form \in {"predicate", "assert"}
    BY <1>2, <2>2, StoredForm
  <2>4. EvalOne(of(i), ctx) \in Verdicts \cup {"raises"}
    BY <2>3, EvalOneIs
  <2>5. f[i] = EvalOne(of(i), ctx) /\ i \in DOMAIN f
    <3> HIDE DEF f
    <3> QED BY <1>1
  <2>6. f[i] # "raises"
    BY <2>5 DEF Raises
  <2> HIDE DEF f
  <2> QED BY <2>4, <2>5, <2>6
<1>5. f \in [D -> Verdicts]
  <2> HIDE DEF D, of, f
  <2>1. f = [i \in D |-> f[i]] BY <1>1
  <2> QED BY <2>1, <1>4
<1> HIDE DEF D, f
<1> QED BY <1>3, <1>5 DEF Results, f

\* A goal in the older form means what it is migrated to, on every model.
LEMMA MigrateMeans ==
  ASSUME NEW g \in Goals, NEW r \in g, r.form = "legacy", PredicateOk(Migrate(r)),
         NEW p \in Points \ Fails
  PROVE  EvalLegacy(r, Measure(p)) = EvalPredicate(Migrate(r), Measure(p))
<1> DEFINE ctx == Measure(p)
           q == Migrate(r)
           t == r.target.of
<1>1. /\ "mass" \in DOMAIN ctx /\ "dfmCritical" \in DOMAIN ctx
      /\ ctx["dfmCritical"] \in Nat
      /\ "overlaps" \in DOMAIN ctx => ctx["overlaps"] \in Nat
  BY MeasureAssumption
<1>2. /\ r.type \in {"max_mass", "min_mass", "max_size", "watertight", "printable", "no_interference"}
      /\ t = Null => r.target.shape = "scalar"
  BY GoalsAssumption DEF LegacyKey
<1>3. /\ q.form = "predicate" /\ q.quantity = LegacyMap(r)[1] /\ q.op = LegacyMap(r)[2]
      /\ q.bound = LegacyMap(r)[3]
  BY DEF Migrate
<1>4. BoundOk(q)
  BY DEF PredicateOk
<1>5. Scalar(0).of = 0 /\ Scalar(1).of = 1 /\ 0 # Null /\ 1 # Null
  BY NullAssumption DEF Scalar
<1> SUFFICES EvalLegacy(r, ctx) = EvalPredicate(q, ctx)
  OBVIOUS
<1> HIDE DEF ctx, q
<1>6. CASE r.type \in {"max_mass", "min_mass"}
  <2>1. /\ q.quantity = "mass" /\ q.op = (IF r.type = "max_mass" THEN "<=" ELSE ">=")
        /\ q.bound = r.target
    BY <1>3, <1>6 DEF LegacyMap
  <2>2. Has(q.quantity, ctx) /\ Measured(q.quantity, ctx) = ctx["mass"]
    BY <1>1, <2>1 DEF Has, Measured, ContextKey, Component
  <2>3. EvalPredicate(q, ctx) =
          IF t = Null THEN "raises" ELSE Verdict(Compare(q.op, ctx["mass"], t))
    BY <1>4, <2>1, <2>2 DEF EvalPredicate
  <2>4. EvalLegacy(r, ctx) =
          IF t = Null THEN "raises"
          ELSE IF r.type = "max_mass" THEN Verdict(ctx["mass"] <= t) ELSE Verdict(ctx["mass"] >= t)
    <3>1. CASE r.type = "max_mass" BY <1>1, <3>1 DEF EvalLegacy, LegacyKey
    <3>2. CASE r.type = "min_mass" BY <1>1, <3>2 DEF EvalLegacy, LegacyKey
    <3> QED BY <1>6, <3>1, <3>2
  <2> QED BY <1>6, <2>1, <2>3, <2>4 DEF Compare
<1>7. CASE r.type = "max_size"
  <2>1. q.quantity = "size" /\ q.op = "<=" /\ q.bound = r.target
    BY <1>3, <1>7 DEF LegacyMap
  <2>2. t # Null
    BY <1>2, <1>4, <2>1 DEF BoundOk
  <2>3. CASE "bbox" \notin DOMAIN ctx
    BY <1>7, <2>1, <2>3 DEF EvalLegacy, EvalPredicate, Has, LegacyKey, ContextKey
  <2>4. CASE "bbox" \in DOMAIN ctx
    <3>1. Has(q.quantity, ctx) /\ Measured(q.quantity, ctx) = ctx["bbox"]
      BY <2>1, <2>4 DEF Has, Measured, ContextKey, Component
    <3>2. EvalPredicate(q, ctx) = Verdict(\A i \in 1 .. 3 : ctx["bbox"][i] <= t[i])
      BY <1>4, <2>1, <2>2, <3>1 DEF EvalPredicate, Compare
    <3>3. EvalLegacy(r, ctx) = Verdict(\A i \in 1 .. 3 : ctx["bbox"][i] <= t[i])
      BY <1>7, <2>2, <2>4 DEF EvalLegacy, LegacyKey
    <3> QED BY <3>2, <3>3
  <2> QED BY <2>3, <2>4
<1>8. CASE r.type = "watertight"
  <2>1. q.quantity = "watertight" /\ q.op = "==" /\ q.bound.of = 1
    BY <1>3, <1>5, <1>8 DEF LegacyMap
  <2>2. CASE "manifold" \notin DOMAIN ctx
    BY <1>8, <2>1, <2>2 DEF EvalLegacy, EvalPredicate, Has, LegacyKey, ContextKey
  <2>3. CASE "manifold" \in DOMAIN ctx
    <3>1. Has(q.quantity, ctx) /\ Measured(q.quantity, ctx) = ctx["manifold"]
      BY <2>1, <2>3 DEF Has, Measured, ContextKey, Component
    <3>2. EvalPredicate(q, ctx) = Verdict(ctx["manifold"] = 1)
      BY <1>4, <1>5, <2>1, <3>1 DEF EvalPredicate, Compare
    <3>3. EvalLegacy(r, ctx) = Verdict(ctx["manifold"] = 1)
      BY <1>8, <2>3 DEF EvalLegacy, LegacyKey
    <3> QED BY <3>2, <3>3
  <2> QED BY <2>2, <2>3
<1>9. CASE r.type = "printable"
  <2>1. q.quantity = "dfm_critical" /\ q.op = "<=" /\ q.bound.of = 0
    BY <1>3, <1>5, <1>9 DEF LegacyMap
  <2>2. Has(q.quantity, ctx) /\ Measured(q.quantity, ctx) = ctx["dfmCritical"]
    BY <1>1, <2>1 DEF Has, Measured, ContextKey, Component
  <2>3. EvalPredicate(q, ctx) = Verdict(ctx["dfmCritical"] <= 0)
    BY <1>4, <1>5, <2>1, <2>2 DEF EvalPredicate, Compare
  <2>4. EvalLegacy(r, ctx) = Verdict(ctx["dfmCritical"] = 0)
    BY <1>1, <1>9 DEF EvalLegacy, LegacyKey
  <2> QED BY <1>1, <2>3, <2>4 DEF Verdict
<1>10. CASE r.type = "no_interference"
  <2>1. q.quantity = "overlaps" /\ q.op = "<=" /\ q.bound.of = 0
    BY <1>3, <1>5, <1>10 DEF LegacyMap
  <2>2. CASE "overlaps" \notin DOMAIN ctx
    BY <1>10, <2>1, <2>2 DEF EvalLegacy, EvalPredicate, Has, LegacyKey, ContextKey
  <2>3. CASE "overlaps" \in DOMAIN ctx
    <3>1. Has(q.quantity, ctx) /\ Measured(q.quantity, ctx) = ctx["overlaps"]
      BY <2>1, <2>3 DEF Has, Measured, ContextKey, Component
    <3>2. EvalPredicate(q, ctx) = Verdict(ctx["overlaps"] <= 0)
      BY <1>4, <1>5, <2>1, <3>1 DEF EvalPredicate, Compare
    <3>3. EvalLegacy(r, ctx) = Verdict(ctx["overlaps"] = 0)
      BY <1>10, <2>3 DEF EvalLegacy, LegacyKey
    <3> QED BY <1>1, <2>3, <3>2, <3>3 DEF Verdict
  <2> QED BY <2>2, <2>3
<1> QED BY <1>2, <1>6, <1>7, <1>8, <1>9, <1>10

-----------------------------------------------------------------------------
(* Finite searches *)

\* A finite set has an element whose value is the least.
LEMMA LeastOf ==
  ASSUME NEW S, IsFiniteSet(S), S # {}, NEW v \in [S -> Int]
  PROVE  \E x \in S : \A y \in S : v[x] <= v[y]
<1>1. PICK seq \in Seq(S) : \A s \in S : \E i \in 1 .. Len(seq) : seq[i] = s
  BY DEF IsFiniteSet
<1> DEFINE n == Len(seq)
           P == {k \in 0 .. n : k # 0 => \E i \in 1 .. k : \A j \in 1 .. k : v[seq[i]] <= v[seq[j]]}
<1>2. n \in Nat /\ \A i \in 1 .. n : seq[i] \in S /\ v[seq[i]] \in Int
  OBVIOUS
<1>3. 0 \in P
  BY <1>2
<1>4. ASSUME NEW k \in 1 .. n, k - 1 \in P PROVE k \in P
  <2>1. k \in 0 .. n /\ k \in 1 .. k /\ \A j \in 1 .. k : j = k \/ j \in 1 .. k - 1
    BY <1>2
  <2>2. CASE k = 1
    <3>1. \A j \in 1 .. k : v[seq[1]] <= v[seq[j]]
      BY <1>2, <2>2
    <3> QED BY <2>1, <2>2, <3>1
  <2>3. CASE k # 1
    <3>1. k - 1 # 0 /\ \A j \in 1 .. k - 1 : j \in 1 .. n /\ j \in 1 .. k
      BY <2>3, <1>2
    <3>2. PICK i \in 1 .. k - 1 : \A j \in 1 .. k - 1 : v[seq[i]] <= v[seq[j]]
      BY <1>4, <3>1
    <3>3. CASE v[seq[i]] <= v[seq[k]]
      <4>1. \A j \in 1 .. k : v[seq[i]] <= v[seq[j]] BY <2>1, <3>2, <3>3
      <4> QED BY <2>1, <3>1, <4>1
    <3>4. CASE ~(v[seq[i]] <= v[seq[k]])
      <4>1. \A j \in 1 .. k - 1 : v[seq[k]] <= v[seq[j]]
        BY <1>2, <3>1, <3>2, <3>4
      <4>2. \A j \in 1 .. k : v[seq[k]] <= v[seq[j]] BY <1>2, <2>1, <4>1
      <4> QED BY <2>1, <4>2
    <3> QED BY <3>3, <3>4
  <2> QED BY <2>2, <2>3
<1>5. n \in P
  <2> HIDE DEF P
  <2>1. n \in 0 .. n BY <1>2
  <2>2. \A k \in 1 .. n : k - 1 \in P => k \in P BY <1>4
  <2> QED BY <1>2, <1>3, <2>1, <2>2, UpTo
<1>6. n # 0
  BY <1>1, <1>2
<1>7. PICK i \in 1 .. n : \A j \in 1 .. n : v[seq[i]] <= v[seq[j]]
  BY <1>5, <1>6
<1> QED BY <1>1, <1>2, <1>7

\* And one whose value is the greatest: for each objective there is a best one.
LEMMA BestOf ==
  ASSUME NEW S, IsFiniteSet(S), S # {}, NEW v \in [S -> Int], NEW objective
  PROVE  \E x \in S : \A y \in S : Better(objective, v[x], v[y])
<1>1. CASE objective = "min_mass"
  BY <1>1, LeastOf DEF Better
<1>2. CASE objective # "min_mass"
  <2> DEFINE w == [x \in S |-> -v[x]]
  <2>1. w \in [S -> Int] OBVIOUS
  <2>2. \E x \in S : \A y \in S : w[x] <= w[y]
    <3> HIDE DEF w
    <3> QED BY <2>1, LeastOf
  <2> QED BY <1>2, <2>2 DEF Better
<1> QED BY <1>1, <1>2

\* The functions from a number of indices into a finite set are finitely many.
LEMMA FunctionsFinite ==
  ASSUME NEW n \in Nat, NEW S, IsFiniteSet(S)
  PROVE  IsFiniteSet([1 .. n -> S])
<1> DEFINE P == {k \in 0 .. n : IsFiniteSet([1 .. k -> S])}
<1>1. 0 \in P
  <2> DEFINE none == [i \in 1 .. 0 |-> i]
             T == [1 .. 0 -> S]
  <2>1. T \in SUBSET {none} OBVIOUS
  <2> HIDE DEF none, T
  <2>2. IsFiniteSet({none}) BY FS_Singleton
  <2>3. IsFiniteSet(T) BY <2>1, <2>2, FS_Subset
  <2> USE DEF T
  <2> QED BY <2>3
<1>2. ASSUME NEW k \in 1 .. n, k - 1 \in P PROVE k \in P
  <2> DEFINE F == [1 .. k - 1 -> S]
             G == [1 .. k -> S]
             more(x) == [i \in 1 .. k |-> IF i = k THEN x[2] ELSE x[1][i]]
             f == [x \in F \X S |-> more(x)]
  <2>1. k \in 0 .. n /\ k \in 1 .. k /\ \A i \in 1 .. k : i = k \/ i \in 1 .. k - 1
    OBVIOUS
  <2>2. IsFiniteSet(F \X S) BY <1>2, FS_Product
  <2>3. \A x \in F \X S : more(x) \in G
    <3> SUFFICES ASSUME NEW x \in F \X S PROVE more(x) \in G
      OBVIOUS
    <3>1. x[1] \in F /\ x[2] \in S OBVIOUS
    <3> QED BY <2>1, <3>1
  <2>4. \A g \in G : \E x \in F \X S : more(x) = g
    <3> SUFFICES ASSUME NEW g \in G PROVE \E x \in F \X S : more(x) = g
      OBVIOUS
    <3> DEFINE h == [i \in 1 .. k - 1 |-> g[i]]
    <3>1. h \in F /\ g[k] \in S /\ <<h, g[k]>> \in F \X S BY <2>1
    <3>2. more(<<h, g[k]>>) = g
      <4>1. \A i \in 1 .. k : (IF i = k THEN g[k] ELSE h[i]) = g[i] BY <2>1
      <4> HIDE DEF h
      <4>2. more(<<h, g[k]>>) = [i \in 1 .. k |-> IF i = k THEN g[k] ELSE h[i]] OBVIOUS
      <4>3. g = [i \in 1 .. k |-> g[i]] OBVIOUS
      <4> QED BY <4>1, <4>2, <4>3
    <3> HIDE DEF h, more, F
    <3> QED BY <3>1, <3>2
  <2>5. f \in Surjection(F \X S, G)
    <3> HIDE DEF more, F, G
    <3>1. f \in [F \X S -> G] BY <2>3
    <3>2. \A g \in G : \E x \in F \X S : f[x] = g BY <2>4
    <3> HIDE DEF f
    <3> QED BY <3>1, <3>2 DEF Surjection
  <2>6. IsFiniteSet(G)
    <3> HIDE DEF f, F, G
    <3> QED BY <2>2, <2>5, FS_Surjection
  <2> QED BY <2>1, <2>6
<1>3. n \in P
  <2> HIDE DEF P
  <2>1. n \in 0 .. n OBVIOUS
  <2>2. \A k \in 1 .. n : k - 1 \in P => k \in P BY <1>2
  <2> QED BY <1>1, <2>1, <2>2, UpTo
<1> QED BY <1>3

\* A part of a whole, in whole numbers, is no more than the whole.
LEMMA PartOfWhole ==
  ASSUME NEW a \in Nat, NEW k \in Nat \ {0}, NEW i \in 0 .. k
  PROVE  (a * i) \div k \in 0 .. a
<1> DEFINE q == (a * i) \div k
<1>1. a * i \in Nat /\ a * i <= a * k
  OBVIOUS
<1>2. q \in Int /\ k * q <= a * i /\ a * i < k * q + k
  BY <1>1
<1>3. q >= 0
  BY <1>1, <1>2
<1>4. q <= a
  BY <1>1, <1>2
<1> QED BY <1>2, <1>3, <1>4

\* The samples of an axis are a number of samples.
LEMMA PerAxisIsNumber ==
  ASSUME NEW budget \in Nat, NEW n \in Nat
  PROVE  PerAxis(budget, n) \in Nat
<1>1. CASE n = 1
  <2> DEFINE T == {budget, 12}
  <2>1. \E x \in T : \A y \in T : x <= y OBVIOUS
  <2>2. Min(T) \in T
    <3> HIDE DEF T
    <3> QED BY <2>1 DEF Min
  <2>3. PerAxis(budget, n) = Min(T) BY <1>1 DEF PerAxis
  <2> QED BY <2>2, <2>3
<1>2. CASE n # 1
  <2> DEFINE K == {k \in 1 .. budget : k ^ n <= budget}
             T == {2} \cup K
             v == [x \in T |-> x]
  <2>1. K \subseteq 1 .. budget BY Zenon
  <2> HIDE DEF K
  <2>2. IsFiniteSet(T)
    <3>1. IsFiniteSet(1 .. budget) BY FS_Interval
    <3>2. IsFiniteSet(K) BY <2>1, <3>1, FS_Subset
    <3>3. IsFiniteSet({2}) BY FS_Singleton
    <3> QED BY <3>2, <3>3, FS_Union
  <2>3. T \subseteq Nat /\ T # {} BY <2>1
  <2>4. v \in [T -> Int] /\ \A x \in T : v[x] = x
    <3> HIDE DEF T
    <3> QED BY <2>3
  <2>5. \E x \in T : \A y \in T : Better("max_mass", v[x], v[y])
    <3>1. v \in [T -> Int] /\ T # {} BY <2>3, <2>4
    <3> HIDE DEF T, v
    <3> QED BY <2>2, <3>1, BestOf, Zenon
  <2>6. \E x \in T : \A y \in T : x >= y
    <3> HIDE DEF T, v
    <3> QED BY <2>4, <2>5 DEF Better
  <2>7. Max(T) \in T
    <3> HIDE DEF T
    <3> QED BY <2>6 DEF Max
  <2>8. PerAxis(budget, n) = Max(T) BY <1>2, Zenon DEF PerAxis, K
  <2> HIDE DEF T
  <2> QED BY <2>3, <2>7, <2>8
<1> QED BY <1>1, <1>2

\* A candidate samples a point of the parameters' ranges.
LEMMA SampleIsPoint ==
  ASSUME NEW per \in Nat, NEW c \in [1 .. Axes -> 0 .. per - 1]
  PROVE  Sample(c, per) \in Points
<1> DEFINE lo == Min(Values)
           hi == Max(Values)
<1>1. Values = lo .. hi /\ Values \subseteq Int /\ Values # {} /\ IsFiniteSet(Values)
  BY AxesAssumption
<1>2. lo \in Values /\ hi \in Values
  <2> DEFINE v == [x \in Values |-> x]
  <2>1. v \in [Values -> Int] BY <1>1
  <2>2. (\E x \in Values : \A y \in Values : Better("min_mass", v[x], v[y]))
        /\ (\E x \in Values : \A y \in Values : Better("max_mass", v[x], v[y]))
    <3> HIDE DEF v
    <3> QED BY <1>1, <2>1, BestOf
  <2>3. (\E x \in Values : \A y \in Values : x <= y) /\ (\E x \in Values : \A y \in Values : x >= y)
    BY <2>2 DEF Better
  <2> QED BY <2>3 DEF Min, Max
<1> HIDE DEF lo, hi
<1>3. lo \in Int /\ hi \in Int /\ lo <= hi
  <2>1. lo \in Int /\ hi \in Int BY <1>1, <1>2
  <2>2. lo \in lo .. hi BY <1>1, <1>2
  <2> QED BY <2>1, <2>2
<1>4. ASSUME NEW k \in 1 .. Axes PROVE Linspace(lo, hi, per, c[k]) \in Values
  <2>1. CASE per <= 1
    <3>1. Linspace(lo, hi, per, c[k]) = lo BY <2>1 DEF Linspace
    <3> QED BY <1>2, <3>1
  <2>2. CASE ~(per <= 1)
    <3> DEFINE a == hi - lo
               m == per - 1
               q == (a * c[k]) \div m
    <3>1. a \in Nat /\ m \in Nat \ {0} /\ c[k] \in 0 .. m BY <1>3, <2>2
    <3>2. Linspace(lo, hi, per, c[k]) = lo + q BY <2>2 DEF Linspace
    <3>3. q \in 0 .. a
      <4> HIDE DEF a, m
      <4> QED BY <3>1, PartOfWhole
    <3> HIDE DEF q
    <3>4. lo + q \in lo .. hi BY <1>3, <3>1, <3>3
    <3> QED BY <1>1, <3>2, <3>4
  <2> QED BY <2>1, <2>2
<1>5. Sample(c, per) = [k \in 1 .. Axes |-> Linspace(lo, hi, per, c[k])]
  BY DEF Sample, lo, hi
<1> QED BY <1>4, <1>5 DEF Points

\* pick_feasible: what it picks passes, and nothing that passes is better.
LEMMA PickFeasibleIsBest ==
  ASSUME NEW m, IsFiniteSet(DOMAIN m), NEW preds, NEW objective, NEW per,
         \A c \in DOMAIN m : m[c]["mass"] \in Int /\ Place(c, per) \in Nat,
         PickFeasible(m, preds, objective, per) # Null
  PROVE  LET c == PickFeasible(m, preds, objective, per)
         IN /\ c \in DOMAIN m /\ Passes(m[c], preds)
            /\ \A d \in DOMAIN m : Passes(m[d], preds) =>
                 Better(objective, m[c]["mass"], m[d]["mass"])
<1> DEFINE F == {c \in DOMAIN m : Passes(m[c], preds)}
           best == {c \in F : \A d \in F : Better(objective, m[c]["mass"], m[d]["mass"])}
           v == [c \in F |-> m[c]["mass"]]
           places == {Place(c, per) : c \in best}
           pick == CHOOSE c \in best : \A d \in best : Place(c, per) <= Place(d, per)
<1>1. PickFeasible(m, preds, objective, per) = IF F = {} THEN Null ELSE pick
  BY Zenon DEF PickFeasible
<1>2. F # {} /\ PickFeasible(m, preds, objective, per) = pick
  BY <1>1
<1>3. F \subseteq DOMAIN m /\ IsFiniteSet(F)
  <2>1. F \in SUBSET DOMAIN m OBVIOUS
  <2> HIDE DEF F
  <2> QED BY <2>1, FS_Subset
<1>4. v \in [F -> Int] /\ \A c \in F : v[c] = m[c]["mass"]
  <2> HIDE DEF F
  <2> QED BY <1>3
<1>5. best # {}
  <2>1. \E c \in F : \A d \in F : Better(objective, v[c], v[d])
    <3> HIDE DEF F, v
    <3> QED BY <1>2, <1>3, <1>4, BestOf
  <2> HIDE DEF F, v
  <2> QED BY <2>1, <1>4
<1>6. best \subseteq F
  OBVIOUS
<1> HIDE DEF F
<1>7. \E c \in best : \A d \in best : Place(c, per) <= Place(d, per)
  <2> HIDE DEF best
  <2>1. places \subseteq Nat /\ places # {}
    BY <1>3, <1>5, <1>6
  <2>2. \E p \in places : \A q \in places : p <= q
    <3> HIDE DEF places
    <3> QED BY <2>1, LeastNumber
  <2> QED BY <2>2
<1>8. pick \in best
  <2> HIDE DEF best
  <2> QED BY <1>7
<1> HIDE DEF pick
<1> QED BY <1>2, <1>3, <1>8 DEF F

\* explore.pick_best: what it picks fits, nothing that fits is better, and it picks
\* something when something fits.
Fits(variant, maxSize) ==
  /\ \A i \in 1 .. 3 : variant["bbox"][i] <= maxSize[i]
  /\ variant["dfmCritical"] = 0
LEMMA PickBestIsBest ==
  ASSUME NEW m, IsFiniteSet(DOMAIN m), Null \notin DOMAIN m, NEW objective, NEW maxSize,
         \A c \in DOMAIN m : m[c]["mass"] \in Int
  PROVE  LET c == PickBest(m, objective, maxSize, TRUE)
         IN IF c = Null THEN \A d \in DOMAIN m : ~Fits(m[d], maxSize)
            ELSE /\ c \in DOMAIN m /\ Fits(m[c], maxSize)
                 /\ \A d \in DOMAIN m : Fits(m[d], maxSize) =>
                      Better(objective, m[c]["mass"], m[d]["mass"])
<1> DEFINE F == {c \in DOMAIN m : Fits(m[c], maxSize)}
           v == [c \in F |-> m[c]["mass"]]
           pick == CHOOSE c \in F : \A d \in F : Better(objective, m[c]["mass"], m[d]["mass"])
<1>1. PickBest(m, objective, maxSize, TRUE) = IF F = {} THEN Null ELSE pick
  <2> DEFINE G == {w \in DOMAIN m :
                     /\ \A i \in 1 .. 3 : m[w]["bbox"][i] <= maxSize[i]
                     /\ TRUE => m[w]["dfmCritical"] = 0}
  <2>1. PickBest(m, objective, maxSize, TRUE) =
          IF G = {} THEN Null
          ELSE CHOOSE c \in G : \A d \in G : Better(objective, m[c]["mass"], m[d]["mass"])
    BY Zenon DEF PickBest
  <2>2. G = F BY DEF Fits
  <2> QED BY <2>1, <2>2
<1>2. F \subseteq DOMAIN m /\ IsFiniteSet(F)
  <2>1. F \in SUBSET DOMAIN m OBVIOUS
  <2> HIDE DEF F
  <2> QED BY <2>1, FS_Subset
<1>3. CASE F = {}
  BY <1>1, <1>3
<1>4. CASE F # {}
  <2>1. v \in [F -> Int] /\ \A c \in F : v[c] = m[c]["mass"]
    <3> HIDE DEF F
    <3> QED BY <1>2
  <2> HIDE DEF F, v
  <2>2. \E c \in F : \A d \in F : Better(objective, v[c], v[d])
    BY <1>2, <1>4, <2>1, BestOf
  <2>3. \E c \in F : \A d \in F : Better(objective, m[c]["mass"], m[d]["mass"])
    BY <2>1, <2>2
  <2>4. pick \in F /\ \A d \in F : Better(objective, m[pick]["mass"], m[d]["mass"])
    BY <2>3
  <2>5. pick # Null /\ PickBest(m, objective, maxSize, TRUE) = pick
    BY <1>1, <1>2, <1>4, <2>4
  <2> HIDE DEF pick
  <2> QED BY <1>2, <2>4, <2>5 DEF F
<1> QED BY <1>3, <1>4

-----------------------------------------------------------------------------
(* The inductive invariant *)

ModelOK == built \in BOOLEAN /\ params \in Points \ Fails /\ kept \in BOOLEAN

GoalsOK == asked \in Goals \cup {{}} /\ reqs = Stored(asked)

\* The last evaluation is one of what it says it was of.
Evaluated ==
  /\ results = Null <=> basis = Null
  /\ basis # Null => results = Evaluate(basis.reqs, Context(basis.reqs, basis.params, basis.built))
EvaluatedOK == results \in Results \cup {Null} /\ basis \in Bases \cup {Null} /\ Evaluated

BriefOK ==
  /\ brief \in Briefs \cup {Null}
  /\ brief # Null => /\ Loaded(brief).revision \in 0 .. MaxRevision /\ Valid(Loaded(brief).items)
                     /\ Loaded(brief).items \subseteq Items
                     /\ brief.schema = 1 => Cardinality(Loaded(brief).items) = Len(brief.entries)

\* A client has read no revision that is still to come, and the one that is current
\* it has read as it is, unless a brief without revisions came in between.
SeenCurrent ==
  seen # Null =>
    /\ brief # Null
    /\ ~replaced => /\ seen.revision \in Nat /\ seen.revision <= Revision
                    /\ seen.revision = Revision => seen = Loaded(brief)
SeenOK == replaced \in BOOLEAN /\ SeenCurrent

Invariant == ModelOK /\ GoalsOK /\ EvaluatedOK /\ BriefOK /\ SeenOK

\* What is a conjunct of TypeOK and no longer one here is in the others.
LEMMA InvariantImpliesType == Invariant => TypeOK
<1> SUFFICES ASSUME Invariant PROVE TypeOK
  OBVIOUS
<1>1. \A r \in reqs : r.form \in {"predicate", "assert"}
  BY StoredForm DEF Invariant, GoalsOK
<1> QED BY <1>1 DEF Invariant, ModelOK, GoalsOK, EvaluatedOK, BriefOK, SeenOK, TypeOK

\* A brief of schema 2 is loaded as it is.
LEMMA LoadedNew ==
  ASSUME NEW r, NEW items
  PROVE  LET b == [schema |-> 2, revision |-> r, items |-> items] IN Loaded(b) = b
BY DEF Loaded

\* A brief of schema 1 is loaded with an id for each of its entries.
LEMMA LoadedOld ==
  ASSUME NEW e \in OldBriefs
  PROVE  /\ OldBrief(e) \in Briefs /\ OldBrief(e) # Null /\ OldBrief(e).schema = 1
         /\ OldBrief(e).entries = e
         /\ Loaded(OldBrief(e)).revision = 0 /\ Valid(Loaded(OldBrief(e)).items)
         /\ Loaded(OldBrief(e)).items \subseteq Items
         /\ Cardinality(Loaded(OldBrief(e)).items) = Len(e)
<1> DEFINE names == [i \in DOMAIN e |-> e[i].name]
           ids == C!MigratedIds(names)
           items == {MigratedItem(e[i], ids[i]) : i \in DOMAIN ids}
           n == Len(e)
<1>1. OldBrief(e) \in Briefs /\ OldBrief(e) # Null /\ OldBrief(e).schema = 1 /\ OldBrief(e).entries = e
  <2>1. OldBrief(e) \in Briefs BY DEF Briefs
  <2> QED BY <2>1, NullAssumption DEF OldBrief
<1>2. Loaded(OldBrief(e)) = [schema |-> 2, revision |-> 0, items |-> items]
  <2>1. OldBrief(e).schema # 2 BY <1>1
  <2>2. Loaded(OldBrief(e)) =
          LET ids1 == C!MigratedIds([i \in DOMAIN OldBrief(e).entries |-> OldBrief(e).entries[i].name])
          IN [schema |-> 2, revision |-> 0,
              items |-> {MigratedItem(OldBrief(e).entries[i], ids1[i]) : i \in DOMAIN ids1}]
    BY <1>1, <2>1, Zenon DEF Loaded
  <2> QED BY <1>1, <2>2
<1>3. /\ n \in Nat /\ DOMAIN e = 1 .. n /\ names \in Seq(Seq(STRING)) /\ Len(names) = n
      /\ \A i, j \in 1 .. n + 1 : Numeral(i) \in STRING /\ (Numeral(i) = Numeral(j) => i = j)
  BY BriefsAssumption
<1>4. /\ ids \in Seq(Seq(STRING)) /\ Len(ids) = n
      /\ \A i, j \in 1 .. n : ids[i] = ids[j] => i = j
  <2> HIDE DEF names, n
  <2> QED BY <1>3, MigratedIdsDiffer
<1>5. DOMAIN ids = 1 .. n
  <2> HIDE DEF ids
  <2> QED BY <1>4
<1>6. ASSUME NEW i \in 1 .. n PROVE MigratedItem(e[i], ids[i]).id = ids[i]
  BY DEF MigratedItem
<1>7. Valid(items)
  <2> HIDE DEF ids
  <2> QED BY <1>4, <1>5, <1>6 DEF Valid
<1>8. Cardinality(items) = n
  <2> DEFINE f == [i \in 1 .. n |-> MigratedItem(e[i], ids[i])]
  <2>1. f \in [1 .. n -> items] /\ \A x \in items : \E i \in 1 .. n : f[i] = x
    <3> HIDE DEF ids
    <3> QED BY <1>5
  <2>2. \A i, j \in 1 .. n : f[i] = f[j] => i = j
    <3> HIDE DEF ids
    <3>1. \A i \in 1 .. n : f[i].id = ids[i] BY <1>6
    <3> HIDE DEF f
    <3> QED BY <1>4, <3>1
  <2> HIDE DEF f, items
  <2>3. f \in Bijection(1 .. n, items)
    BY <2>1, <2>2 DEF Bijection, Injection, Surjection, IsInjective
  <2>4. IsFiniteSet(1 .. n) /\ Cardinality(1 .. n) = n
    <3>1. n \in Nat BY <1>3
    <3> HIDE DEF n
    <3> QED BY <3>1, FS_Interval
  <2>5. ExistsBijection(1 .. n, items)
    BY <2>3 DEF ExistsBijection
  <2> HIDE DEF n
  <2> QED BY <2>4, <2>5, FS_Bijection
<1>9. items \subseteq Items
  <2> HIDE DEF items
  <2>1. Loaded(OldBrief(e)).items = items BY <1>2
  <2>2. \A d \in OldBriefs : Loaded(OldBrief(d)).items \subseteq Items
    BY DEF Items
  <2> QED BY <2>1, <2>2
<1> HIDE DEF items
<1> QED BY <1>1, <1>2, <1>7, <1>8, <1>9

\* An evaluation is written with what it was of.
LEMMA WriteStateKeeps ==
  ASSUME ModelOK, GoalsOK, ~Unanswerable, WriteState
  PROVE  EvaluatedOK'
<1> DEFINE new == [reqs |-> reqs, params |-> params, built |-> built]
<1>1. results' = Evaluate(reqs, Context(reqs, params, built)) /\ basis' = new
  BY DEF WriteState, Answer
<1>2. results' \in Results
  <2>1. Answer \in Results
    BY EvaluateIsResult DEF GoalsOK, Unanswerable, Answer
  <2> QED BY <2>1 DEF WriteState
<1>3. new \in Bases
  <2>1. reqs \subseteq {Migrate(r) : r \in UNION Goals}
    <3> SUFFICES ASSUME NEW r \in reqs PROVE r \in {Migrate(q) : q \in UNION Goals}
      OBVIOUS
    <3>1. PICK q \in asked : r = Migrate(q) BY StoredForm DEF GoalsOK
    <3>2. q \in UNION Goals BY <3>1 DEF GoalsOK
    <3> QED BY <3>1, <3>2
  <2> QED BY <2>1 DEF ModelOK, Bases
<1>4. results' # Null /\ basis' # Null
  BY <1>1, <1>2, <1>3, NullAssumption
<1>5. basis'.reqs = reqs /\ basis'.params = params /\ basis'.built = built
  BY <1>1
<1> HIDE DEF new
<1>6. results' = Evaluate(basis'.reqs, Context(basis'.reqs, basis'.params, basis'.built))
  BY <1>1, <1>5
<1> QED BY <1>1, <1>2, <1>3, <1>4, <1>6 DEF EvaluatedOK, Evaluated

\* A brief of schema 2 that is written is the next revision.
LEMMA WrittenKeeps ==
  ASSUME BriefOK, SeenOK, Revision < MaxRevision, NEW items \in SUBSET Items, Valid(items),
         brief' = Written(items), UNCHANGED editing
  PROVE  BriefOK' /\ SeenOK'
<1>1. MaxRevision \in Nat
  BY AxesAssumption
<1>2. Revision \in 0 .. MaxRevision
  BY <1>1 DEF Revision, BriefOK
<1>3. Revision + 1 \in 1 .. MaxRevision /\ Revision + 1 \in 0 .. MaxRevision
  BY <1>1, <1>2
<1>4. /\ brief' = [schema |-> 2, revision |-> Revision + 1, items |-> items]
      /\ Loaded(brief') = brief'
  BY LoadedNew DEF Written
<1>5. brief' \in [schema : {2}, revision : 1 .. MaxRevision, items : SUBSET Items]
  BY <1>3, <1>4
<1>6. brief' \in Briefs /\ brief' # Null
  BY <1>5, NullAssumption DEF Briefs
<1>7. brief'.schema = 2 /\ brief'.revision = Revision + 1 /\ brief'.items = items
  BY <1>4
<1>8. Loaded(brief)' = brief' /\ Revision' = Revision + 1
  BY <1>4, <1>6, <1>7 DEF Revision
<1>9. BriefOK'
  BY <1>3, <1>4, <1>6, <1>7 DEF BriefOK
<1>10. SeenOK'
  <2>1. seen' = seen /\ replaced' = replaced BY DEF editing
  <2>2. seen # Null /\ ~replaced => seen.revision \in Nat /\ seen.revision < Revision + 1
    BY <1>2 DEF SeenOK, SeenCurrent
  <2>3. seen # Null /\ ~replaced => seen.revision <= Revision + 1 /\ seen.revision # Revision + 1
    BY <1>2, <2>2
  <2> QED BY <1>6, <1>8, <2>1, <2>2, <2>3 DEF SeenOK, SeenCurrent
<1> QED BY <1>9, <1>10

LEMMA InvariantInit == Init => Invariant
<1> SUFFICES ASSUME Init PROVE Invariant
  OBVIOUS
<1>1. reqs = Stored(asked)
  BY DEF Init, Stored
<1> QED BY <1>1 DEF Init, Invariant, ModelOK, GoalsOK, EvaluatedOK, Evaluated, BriefOK, SeenOK, SeenCurrent

\* What is left alone keeps its part of the invariant.
LEMMA Unchanged ==
  ASSUME Invariant
  PROVE  /\ UNCHANGED model => ModelOK'
         /\ UNCHANGED goals => GoalsOK'
         /\ UNCHANGED evaluated => EvaluatedOK'
         /\ UNCHANGED brief => BriefOK'
         /\ UNCHANGED <<brief, editing>> => SeenOK'
<1>1. UNCHANGED model => ModelOK'
  BY DEF Invariant, ModelOK, model
<1>2. UNCHANGED goals => GoalsOK'
  BY DEF Invariant, GoalsOK, goals
<1>3. UNCHANGED evaluated => EvaluatedOK'
  BY DEF Invariant, EvaluatedOK, Evaluated, evaluated
<1>4. UNCHANGED brief => BriefOK'
  BY DEF Invariant, BriefOK
<1>5. UNCHANGED <<brief, editing>> => SeenOK'
  <2> SUFFICES ASSUME brief' = brief, seen' = seen, replaced' = replaced PROVE SeenOK'
    BY DEF editing
  <2>1. Revision' = Revision BY DEF Revision
  <2> QED BY <2>1 DEF Invariant, SeenOK, SeenCurrent
<1> QED BY <1>1, <1>2, <1>3, <1>4, <1>5

\* An update's items are ones a brief can have.
LEMMA PatchedIsItems ==
  ASSUME BriefOK, brief # Null, NEW item \in Upserts
  PROVE  Patched(item) \in SUBSET Items
<1>1. item \in Items
  BY DEF Items
<1> QED BY <1>1 DEF Patched, BriefOK

\* What converge_to_spec proposes of the ranges is a point that can be built.
LEMMA ConvergeIsPoint ==
  ASSUME NEW budget \in Budgets, NEW c \in DOMAIN Measures(budget)
  PROVE  /\ PerAxis(budget, Axes) \in Nat
         /\ c \in [1 .. Axes -> 0 .. PerAxis(budget, Axes) - 1]
         /\ Sample(c, PerAxis(budget, Axes)) \in Points \ Fails
<1> DEFINE per == PerAxis(budget, Axes)
<1>1. per \in Nat
  BY AxesAssumption, PerAxisIsNumber
<1>2. DOMAIN Measures(budget) = {d \in CandidateGrid(Axes, budget) : Sample(d, per) \notin Fails}
  BY DEF Measures
<1>3. c \in [1 .. Axes -> 0 .. per - 1]
  BY <1>2 DEF CandidateGrid
<1> HIDE DEF per
<1>4. Sample(c, per) \in Points
  BY <1>1, <1>3, SampleIsPoint
<1>5. Sample(c, per) \notin Fails
  BY <1>2
<1> QED BY <1>1, <1>3, <1>4, <1>5 DEF per

\* What is measured of the candidates: a mass at least, and what the goals need.
LEMMA MeasuresAre ==
  ASSUME NEW budget \in Budgets
  PROVE  /\ IsFiniteSet(DOMAIN Measures(budget))
         /\ \E keys : /\ "mass" \in keys
                      /\ \A c \in DOMAIN Measures(budget) :
                           Measures(budget)[c] = Restricted(Measure(Sample(c, PerAxis(budget, Axes))), keys)
         /\ \A c \in DOMAIN Measures(budget) :
              /\ Measures(budget)[c]["mass"] = Measure(Sample(c, PerAxis(budget, Axes)))["mass"]
              /\ Measures(budget)[c]["mass"] \in Int
              /\ Place(c, PerAxis(budget, Axes)) \in Nat
<1> DEFINE per == PerAxis(budget, Axes)
           m == Measures(budget)
           gated == {ContextKey[q] : q \in {x \in {"dfm_critical", "min_wall", "min_clearance"} :
                                              Needs(Predicates, x)}}
           keys == {"mass", "bbox"} \cup gated
<1>1. m = [c \in {d \in CandidateGrid(Axes, budget) : Sample(d, per) \notin Fails} |->
             Restricted(Measure(Sample(c, per)), keys)]
  BY Zenon DEF Measures
<1> HIDE DEF gated
<1>2. "mass" \in keys
  OBVIOUS
<1> HIDE DEF keys
<1>3. per \in Nat /\ Axes \in Nat
  BY AxesAssumption, PerAxisIsNumber
<1>4. \A c \in DOMAIN m : c \in [1 .. Axes -> 0 .. per - 1] /\ Sample(c, per) \in Points \ Fails
  BY ConvergeIsPoint
<1> HIDE DEF per, m
<1>5. IsFiniteSet(DOMAIN m)
  <2>1. IsFiniteSet(0 .. per - 1) BY <1>3, FS_Interval
  <2>2. IsFiniteSet([1 .. Axes -> 0 .. per - 1]) BY <1>3, <2>1, FunctionsFinite
  <2>3. DOMAIN m \in SUBSET [1 .. Axes -> 0 .. per - 1] BY <1>4
  <2> QED BY <2>2, <2>3, FS_Subset
<1>6. \A c \in DOMAIN m : m[c] = Restricted(Measure(Sample(c, per)), keys)
  BY <1>1
<1>7. ASSUME NEW c \in DOMAIN m
      PROVE  m[c]["mass"] = Measure(Sample(c, per))["mass"] /\ m[c]["mass"] \in Int /\ Place(c, per) \in Nat
  <2>1. "mass" \in DOMAIN Measure(Sample(c, per)) /\ Measure(Sample(c, per))["mass"] \in Int
    BY <1>4, MeasureAssumption
  <2>2. m[c]["mass"] = Measure(Sample(c, per))["mass"]
    BY <1>2, <1>6, <2>1 DEF Restricted
  <2>3. c \in [1 .. Axes -> Nat]
    BY <1>3, <1>4
  <2>4. Place(c, per) \in Nat
    BY <1>3, <2>3, PlaceIsNumber
  <2> QED BY <2>1, <2>2, <2>4
<1> QED BY <1>2, <1>5, <1>6, <1>7 DEF m, per

\* Each operation keeps the invariant.
LEMMA InvariantNext == Invariant /\ [Next]_vars => Invariant'
<1> SUFFICES ASSUME Invariant, [Next]_vars PROVE Invariant'
  OBVIOUS
<1> USE DEF Invariant
<1>1. ASSUME NEW p \in Points, SetParams(p) PROVE Invariant'
  <2>1. ModelOK' BY <1>1 DEF SetParams, ModelOK
  <2> QED BY <1>1, <2>1, Unchanged DEF SetParams
<1>2. CASE EditSource
  <2>1. ModelOK' BY <1>2 DEF EditSource, ModelOK
  <2> QED BY <1>2, <2>1, Unchanged DEF EditSource
<1>3. CASE RestartUnbuilt
  <2>1. ModelOK' BY <1>3 DEF RestartUnbuilt, ModelOK
  <2> QED BY <1>3, <2>1, Unchanged DEF RestartUnbuilt
<1>4. ASSUME NEW g \in Goals, SetRequirements(g) PROVE Invariant'
  <2>1. GoalsOK' BY <1>4 DEF SetRequirements, GoalsOK
  <2> QED BY <1>4, <2>1, Unchanged DEF SetRequirements
<1>5. CASE CheckRequirements
  <2>1. EvaluatedOK' BY <1>5, WriteStateKeeps DEF CheckRequirements
  <2> QED BY <1>5, <2>1, Unchanged DEF CheckRequirements
<1>6. CASE CheckRaises
  BY <1>6, Unchanged DEF CheckRaises
<1>7. CASE GetConformance
  <2>1. EvaluatedOK' BY <1>7, WriteStateKeeps DEF GetConformance
  <2> QED BY <1>7, <2>1, Unchanged DEF GetConformance
<1>8. ASSUME NEW e \in OldBriefs, ProposeOld(e) PROVE Invariant'
  <2>1. brief' = OldBrief(e) /\ seen' = seen /\ replaced' = (seen # Null)
    BY <1>8 DEF ProposeOld
  <2>2. MaxRevision \in Nat /\ 0 \in 0 .. MaxRevision BY AxesAssumption
  <2>3. BriefOK' BY <2>1, <2>2, LoadedOld DEF BriefOK
  <2>4. SeenOK' BY <2>1, LoadedOld DEF SeenOK, SeenCurrent
  <2> QED BY <1>8, <2>3, <2>4, Unchanged DEF ProposeOld
<1>9. CASE ReadBrief
  <2>1. /\ brief # Null /\ brief' = brief /\ seen' = Loaded(brief) /\ replaced' = FALSE
    BY <1>9 DEF ReadBrief
  <2>2. Revision = Loaded(brief).revision /\ Revision' = Revision /\ Loaded(brief)' = Loaded(brief)
    BY <2>1 DEF Revision
  <2>3. MaxRevision \in Nat BY AxesAssumption
  <2>4. Revision \in Nat BY <2>1, <2>2, <2>3 DEF BriefOK
  <2>5. /\ seen'.revision = Revision' /\ Revision' \in Nat /\ Revision' <= Revision'
        /\ seen' = Loaded(brief)' /\ brief' # Null
    BY <2>1, <2>2, <2>4
  <2>6. SeenCurrent' BY <2>5 DEF SeenCurrent
  <2>7. SeenOK' BY <2>1, <2>6 DEF SeenOK
  <2> QED BY <1>9, <2>7, Unchanged DEF ReadBrief
<1>10. ASSUME NEW i \in Upserts, UpdateBrief(i) PROVE Invariant'
  <2>1. Patched(i) \in SUBSET Items BY <1>10, PatchedIsItems DEF UpdateBrief
  <2>2. BriefOK' /\ SeenOK' BY <1>10, <2>1, WrittenKeeps DEF UpdateBrief
  <2> QED BY <1>10, <2>2, Unchanged DEF UpdateBrief
<1>11. ASSUME NEW i \in Upserts, UpdateRefused(i) PROVE Invariant'
  BY <1>11, Unchanged DEF UpdateRefused
<1>12. ASSUME NEW b \in NewBriefs, OtherWrites(b) PROVE Invariant'
  <2>1. b \in SUBSET Items BY DEF Items
  <2>2. BriefOK' /\ SeenOK' BY <1>12, <2>1, WrittenKeeps DEF OtherWrites
  <2> QED BY <1>12, <2>2, Unchanged DEF OtherWrites
<1>13. ASSUME NEW o, NEW b \in Budgets, NEW a \in BOOLEAN, Converge(o, b, a) PROVE Invariant'
  <2> DEFINE per == PerAxis(b, Axes)
             m == Measures(b)
             best == PickFeasible(m, Addressable(Predicates, m), o, per)
  <2>1. /\ ~Unanswerable /\ WriteState /\ UNCHANGED <<built, goals, brief, editing>>
        /\ params' = (IF best # Null /\ a THEN Sample(best, per) ELSE params)
        /\ kept' = (kept \/ (best # Null /\ a))
    BY <1>13 DEF Converge
  <2>2. EvaluatedOK' BY <2>1, WriteStateKeeps
  <2>3. best # Null => best \in DOMAIN m
    BY MeasuresAre, PickFeasibleIsBest
  <2>4. best # Null => Sample(best, per) \in Points \ Fails
    <3> HIDE DEF best
    <3> QED BY <2>3, ConvergeIsPoint
  <2>5. ModelOK'
    <3> HIDE DEF best, per
    <3>1. kept' \in BOOLEAN BY <2>1 DEF ModelOK
    <3> QED BY <2>1, <2>4, <3>1 DEF ModelOK
  <2> QED BY <2>1, <2>2, <2>5, Unchanged
<1>14. ASSUME NEW x \in 1 .. Axes, NEW o, NEW s \in Boxes, Optimize(x, o, s) PROVE Invariant'
  BY <1>14, Unchanged DEF Optimize
<1>15. ASSUME NEW m \in Motions, CheckMotion(m) PROVE Invariant'
  BY <1>15, Unchanged DEF CheckMotion
<1>16. ASSUME NEW c \in Chains, CheckStack(c) PROVE Invariant'
  BY <1>16, Unchanged DEF CheckStack
<1>17. CASE UNCHANGED vars
  BY <1>17, Unchanged DEF vars
<1> HIDE DEF Invariant
<1> QED
  BY <1>1, <1>2, <1>3, <1>4, <1>5, <1>6, <1>7, <1>8, <1>9, <1>10, <1>11, <1>12, <1>13, <1>14,
     <1>15, <1>16, <1>17 DEF Next

-----------------------------------------------------------------------------
(* What the answers say *)

Objectives == {"min_mass", "max_mass"}

\* An answer of a kind is the answer of one operation.
LEMMA ReplyOf ==
  ASSUME Next, reply' # Null
  PROVE  /\ reply'.kind = "check" => CheckRequirements
         /\ reply'.kind = "conformance" => GetConformance
         /\ reply'.kind = "updated" => \E i \in Upserts : UpdateBrief(i)
         /\ reply'.kind = "converge" =>
              \E o \in Objectives, b \in Budgets, a \in BOOLEAN : Converge(o, b, a)
         /\ reply'.kind = "optimize" =>
              \E o \in Objectives, x \in 1 .. Axes, s \in Boxes : Optimize(x, o, s)
         /\ reply'.kind = "motion" => \E m \in Motions : CheckMotion(m)
         /\ reply'.kind = "stack" => \E c \in Chains : CheckStack(c)
<1>1. ASSUME NEW p \in Points, SetParams(p) PROVE FALSE
  BY <1>1 DEF SetParams
<1>2. CASE EditSource \/ RestartUnbuilt
  BY <1>2 DEF EditSource, RestartUnbuilt
<1>3. ASSUME NEW g \in Goals, SetRequirements(g) PROVE FALSE
  BY <1>3 DEF SetRequirements
<1>4. CheckRequirements => reply'.kind = "check"
  BY DEF CheckRequirements
<1>5. CheckRaises => reply'.kind = "error"
  BY DEF CheckRaises
<1>6. GetConformance => reply'.kind = "conformance"
  BY DEF GetConformance
<1>7. ASSUME NEW e \in OldBriefs, ProposeOld(e) PROVE FALSE
  BY <1>7 DEF ProposeOld
<1>8. CASE ReadBrief
  BY <1>8 DEF ReadBrief
<1>9. ASSUME NEW i \in Upserts
      PROVE  /\ UpdateBrief(i) => reply'.kind = "updated"
             /\ UpdateRefused(i) => reply'.kind = "conflict"
  BY DEF UpdateBrief, UpdateRefused
<1>10. ASSUME NEW b \in NewBriefs, OtherWrites(b) PROVE FALSE
  BY <1>10 DEF OtherWrites
<1>11. ASSUME NEW o, NEW b, NEW a, Converge(o, b, a) PROVE reply'.kind = "converge"
  <2> DEFINE m == Measures(b)
             best == PickFeasible(m, Addressable(Predicates, m), o, PerAxis(b, Axes))
  <2>1. reply' = [kind |-> "converge", objective |-> o, apply |-> a,
                  best |-> IF best = Null THEN Null ELSE Sample(best, PerAxis(b, Axes)),
                  tried |-> {Sample(c, PerAxis(b, Axes)) : c \in DOMAIN m},
                  used |-> Addressable(Predicates, m)]
    BY <1>11, Zenon DEF Converge
  <2> HIDE DEF best, m
  <2> QED BY <2>1
<1>12. ASSUME NEW x, NEW o, NEW s, Optimize(x, o, s) PROVE reply'.kind = "optimize"
  <2> DEFINE at(v) == [params EXCEPT ![x] = v]
             variants == [v \in {w \in Values : at(w) \notin Fails} |-> Measure(at(v))]
  <2>1. reply' = [kind |-> "optimize", axis |-> x, objective |-> o, limit |-> s,
                  best |-> PickBest(variants, o, s, TRUE)]
    BY <1>12, Zenon DEF Optimize
  <2> HIDE DEF variants
  <2> QED BY <2>1
<1>13. ASSUME NEW m, CheckMotion(m) PROVE reply'.kind = "motion"
  BY <1>13 DEF CheckMotion
<1>14. ASSUME NEW c, CheckStack(c) PROVE reply'.kind = "stack"
  BY <1>14 DEF CheckStack
<1> DEFINE kind == reply'.kind
<1>15. CASE CheckRequirements BY <1>4, <1>15
<1>16. CASE CheckRaises BY <1>5, <1>16
<1>17. CASE GetConformance BY <1>6, <1>17
<1>18. ASSUME NEW i \in Upserts, UpdateBrief(i) \/ UpdateRefused(i)
       PROVE  kind = "conflict" \/ (kind = "updated" /\ \E j \in Upserts : UpdateBrief(j))
  BY <1>9, <1>18
<1>19. ASSUME NEW o \in Objectives, NEW b \in Budgets, NEW a \in BOOLEAN, Converge(o, b, a)
       PROVE  kind = "converge" /\ \E o1 \in Objectives, b1 \in Budgets, a1 \in BOOLEAN : Converge(o1, b1, a1)
  BY <1>11, <1>19
<1>20. ASSUME NEW o \in Objectives, NEW x \in 1 .. Axes, NEW s \in Boxes, Optimize(x, o, s)
       PROVE  kind = "optimize" /\ \E o1 \in Objectives, x1 \in 1 .. Axes, s1 \in Boxes : Optimize(x1, o1, s1)
  BY <1>12, <1>20
<1>21. ASSUME NEW m \in Motions, CheckMotion(m)
       PROVE  kind = "motion" /\ \E m1 \in Motions : CheckMotion(m1)
  BY <1>13, <1>21
<1>22. ASSUME NEW c \in Chains, CheckStack(c)
       PROVE  kind = "stack" /\ \E c1 \in Chains : CheckStack(c1)
  BY <1>14, <1>22
<1> HIDE DEF kind
<1>23. \/ EditSource \/ RestartUnbuilt \/ CheckRequirements \/ CheckRaises \/ GetConformance \/ ReadBrief
       \/ kind = "conflict"
       \/ kind = "updated" /\ \E j \in Upserts : UpdateBrief(j)
       \/ kind = "converge" /\ \E o1 \in Objectives, b1 \in Budgets, a1 \in BOOLEAN : Converge(o1, b1, a1)
       \/ kind = "optimize" /\ \E o1 \in Objectives, x1 \in 1 .. Axes, s1 \in Boxes : Optimize(x1, o1, s1)
       \/ kind = "motion" /\ \E m1 \in Motions : CheckMotion(m1)
       \/ kind = "stack" /\ \E c1 \in Chains : CheckStack(c1)
  BY <1>1, <1>3, <1>7, <1>10, <1>18, <1>19, <1>20, <1>21, <1>22 DEF Next, Objectives
<1> QED
  BY <1>2, <1>8, <1>15, <1>16, <1>17, <1>23 DEF kind

\* A check reports as regressed what its two evaluations say.
LEMMA RegressionsStep ==
  Invariant /\ RegressionsAreTrue /\ [Next]_vars => RegressionsAreTrue'
<1> SUFFICES ASSUME Invariant, RegressionsAreTrue, [Next]_vars PROVE RegressionsAreTrue'
  OBVIOUS
<1>1. CASE UNCHANGED vars
  <2>1. reqs' = reqs /\ params' = params /\ built' = built /\ reply' = reply
    BY <1>1 DEF vars, model, goals
  <2>2. Answer' = Answer
    BY <2>1 DEF Answer
  <2> QED BY <2>1, <2>2 DEF RegressionsAreTrue
<1>2. CASE Next
  <2> SUFFICES ASSUME reply' # Null, reply'.kind = "check", NEW i \in DOMAIN reply'.deltas
               PROVE  reply'.deltas[i] = "regressed" <=>
                        /\ reply'.last # Null /\ Answer'[i] = "fail"
                        /\ LET then == Evaluate(reply'.last.reqs,
                                         Context(reply'.last.reqs, reply'.last.params, reply'.last.built))
                           IN i \in DOMAIN then /\ then[i] = "pass"
    BY DEF RegressionsAreTrue
  <2>1. CheckRequirements
    BY <1>2, ReplyOf
  <2>2. /\ reply' = [kind |-> "check", deltas |-> Deltas, last |-> basis]
        /\ reqs' = reqs /\ params' = params /\ built' = built
    BY <2>1 DEF CheckRequirements, model, goals
  <2>3. Answer' = Answer
    BY <2>2 DEF Answer
  <2>4. reply'.deltas = DiffResults(results, Answer) /\ reply'.last = basis
    BY <2>2 DEF Deltas
  <2>5. /\ results = Null <=> basis = Null
        /\ basis # Null => results = Evaluate(basis.reqs, Context(basis.reqs, basis.params, basis.built))
    BY DEF Invariant, EvaluatedOK, Evaluated
  <2>6. reply'.deltas[i] = "regressed" <=>
          results # Null /\ i \in DOMAIN results /\ results[i] = "pass" /\ Answer[i] = "fail"
    BY <2>4 DEF DiffResults
  <2> QED BY <2>3, <2>4, <2>5, <2>6
<1> QED BY <1>1, <1>2

\* An accepted update goes onto the brief that its client has read.
LEMMA UpdatesStep ==
  Invariant /\ BriefUpdatesKept /\ [Next]_vars => BriefUpdatesKept'
<1> SUFFICES ASSUME Invariant, BriefUpdatesKept, [Next]_vars PROVE BriefUpdatesKept'
  OBVIOUS
<1>1. CASE UNCHANGED vars
  BY <1>1 DEF vars, editing, BriefUpdatesKept
<1>2. CASE Next
  <2> SUFFICES ASSUME reply' # Null, reply'.kind = "updated", ~replaced' PROVE reply'.onto = seen'.items
    BY DEF BriefUpdatesKept
  <2>1. PICK i \in Upserts : UpdateBrief(i)
    BY <1>2, ReplyOf
  <2>2. /\ seen # Null /\ seen.revision = Revision
        /\ reply' = [kind |-> "updated", onto |-> Loaded(brief).items]
        /\ seen' = seen /\ replaced' = replaced
    BY <2>1 DEF UpdateBrief, editing
  <2>3. seen = Loaded(brief)
    BY <2>2 DEF Invariant, SeenOK, SeenCurrent
  <2> QED BY <2>2, <2>3
<1> QED BY <1>1, <1>2

\* Goals keep their meaning because migration does.
LEMMA MeaningHolds == Invariant => MigrationKeepsMeaning
<1> SUFFICES ASSUME Invariant, NEW r \in asked, r.form = "legacy", PredicateOk(Migrate(r)),
                    NEW p \in Points \ Fails
             PROVE  EvalLegacy(r, Measure(p)) = EvalPredicate(Migrate(r), Measure(p))
  BY DEF MigrationKeepsMeaning
<1>1. asked \in Goals
  BY DEF Invariant, GoalsOK
<1> QED BY <1>1, MigrateMeans

\* What StackBoundsGap says of one chain.
StackHeld(chain, is) ==
  LET deviations == {d \in [DOMAIN chain -> -1 .. 1] :
                       \A i \in DOMAIN chain : chain[i].minus <= d[i] /\ d[i] <= chain[i].plus}
      gap(d) == LET g[i \in 0 .. Len(chain)] ==
                      IF i = 0 THEN 0
                      ELSE g[i - 1] + chain[i].direction * (chain[i].nominal + d[i])
                IN g[Len(chain)]
  IN /\ \A d \in deviations : is.min <= gap(d) /\ gap(d) <= is.max
     /\ is.fit = "clearance" => \A d \in deviations : gap(d) >= 0
     /\ is.fit = "interference" => \A d \in deviations : gap(d) <= 0
LEMMA StackHeldBy ==
  ASSUME NEW chain \in Seq(Links)
  PROVE  StackHeld(chain, ToleranceStack(chain))
BY StackHolds, Zenon DEF StackHeld

\* A motion and a stack are answered as their sweeps and sums are.
LEMMA ChecksStep ==
  ClearThroughIsClear /\ StackBoundsGap /\ [Next]_vars => ClearThroughIsClear' /\ StackBoundsGap'
<1> SUFFICES ASSUME ClearThroughIsClear, StackBoundsGap, [Next]_vars
             PROVE  ClearThroughIsClear' /\ StackBoundsGap'
  OBVIOUS
<1>1. CASE UNCHANGED vars
  <2>1. reply' = reply BY <1>1 DEF vars
  <2>2. ClearThroughIsClear' BY <2>1 DEF ClearThroughIsClear
  <2>3. StackBoundsGap <=> (reply # Null /\ reply.kind = "stack" => StackHeld(reply.chain, reply.is))
    BY Zenon DEF StackBoundsGap, StackHeld
  <2>4. StackBoundsGap' <=>
          (reply' # Null /\ reply'.kind = "stack" => StackHeld(reply'.chain, reply'.is))
    BY Zenon DEF StackBoundsGap, StackHeld
  <2>5. StackBoundsGap' BY <2>1, <2>3, <2>4
  <2> QED BY <2>2, <2>5
<1>2. ASSUME Next PROVE ClearThroughIsClear'
  <2> SUFFICES ASSUME reply' # Null, reply'.kind = "motion"
               PROVE  /\ \A i \in 1 .. reply'.is.through : reply'.poses[i] = "clear"
                      /\ reply'.is.through < Len(reply'.poses) =>
                           reply'.poses[reply'.is.through + 1] # "clear"
    BY DEF ClearThroughIsClear
  <2>1. PICK m \in Motions : CheckMotion(m)
    BY <1>2, ReplyOf
  <2>2. reply'.poses = m /\ reply'.is = Sweep(m)
    BY <2>1 DEF CheckMotion
  <2>3. m \in Seq(Pose)
    BY ChecksAssumption DEF Pose
  <2> QED BY <2>2, <2>3, SweepIsClear
<1>3. ASSUME Next PROVE StackBoundsGap'
  <2> SUFFICES ASSUME reply' # Null, reply'.kind = "stack" PROVE StackHeld(reply'.chain, reply'.is)
    BY Zenon DEF StackBoundsGap, StackHeld
  <2>1. PICK c \in Chains : CheckStack(c)
    BY <1>3, ReplyOf
  <2>2. reply'.chain = c /\ reply'.is = ToleranceStack(c)
    BY <2>1 DEF CheckStack
  <2>3. StackHeld(c, ToleranceStack(c))
    BY ChecksAssumption, StackHeldBy DEF Links
  <2> QED BY <2>2, <2>3
<1> QED BY <1>1, <1>2, <1>3

OpenStatus == {"fail", "unknown"}

\* Evidence that is not open is the truth of the item.
LEMMA EvidenceIsTrue ==
  ASSUME NEW i, i.section # "references", Evidence(i, Report) \notin OpenStatus
  PROVE  Satisfied(i)
<1> USE DEF OpenStatus, Verdict
<1>1. CASE i.section = "parts"
  BY <1>1 DEF Evidence, PartEvidence, Satisfied
<1>2. CASE i.section = "dimensions"
  BY <1>2 DEF Evidence, DimensionEvidence, Satisfied
<1>3. CASE i.section = "interfaces"
  BY <1>3 DEF Evidence, InterfaceEvidence, Satisfied
<1>4. CASE i.section = "requirements"
  <2>1. "results" \notin DOMAIN Report
    BY DEF Report
  <2> QED BY <1>4, <2>1 DEF Evidence, C!RequirementEvidence
<1>5. CASE i.section = "assumptions"
  BY <1>5 DEF Evidence, Satisfied
<1>6. CASE i.section = "manufacturing"
  BY <1>6 DEF Evidence, Satisfied
<1>7. CASE i.section = "obligations"
  BY <1>7 DEF Evidence, Satisfied
<1>8. CASE i.section \notin {"parts", "dimensions", "interfaces", "requirements", "assumptions",
                             "manufacturing", "obligations", "references"}
  BY <1>8 DEF Evidence
<1> QED BY <1>1, <1>2, <1>3, <1>4, <1>5, <1>6, <1>7, <1>8

\* aggregate_readiness: ready is without an open finding.
LEMMA ReadyHasNoneOpen ==
  ASSUME NEW findings, C!Level(findings) = "ready", NEW f \in findings
  PROVE  f.status \notin OpenStatus
<1> DEFINE open == {x \in findings : x.status \in C!Open}
<1>1. open = {}
  BY DEF C!Level
<1> QED BY <1>1 DEF C!Open, OpenStatus

\* evaluate: what it says of a brief without an open finding.
LEMMA ReadyHolds ==
  ASSUME C!Level(Findings) = "ready"
  PROVE  /\ brief # Null
         /\ \A i \in Loaded(brief).items : i.applicable => Satisfied(i)
         /\ \A r \in DOMAIN References :
              \/ References[r].status = "pass"
              \/ \E i \in Loaded(brief).items : i.section = "references" /\ i.id = r /\ ~i.applicable
<1> DEFINE b == Loaded(brief)
           evidence == [i \in b.items |-> Evidence(i, Report)]
           declared == C!Section(b, "references")
           severe(required) == IF required THEN "blocking" ELSE "warning"
           said(i) == IF i.id \in DOMAIN References THEN References[i.id].status ELSE "unknown"
           of(i) == [C!Finding(i, said(i)) EXCEPT !.severity =
                       severe(i.severity \in C!Blocking \/
                         (i.id \in DOMAIN References /\ References[i.id].required))]
           missing == {x \in DOMAIN References : \A i \in declared : i.id # x}
           lone(r) == [id |-> <<"references", r>>, status |-> References[r].status,
                       severity |-> severe(References[r].required)]
<1>1. brief # Null
  <2> SUFFICES ASSUME brief = Null PROVE FALSE
    OBVIOUS
  <2>1. Loaded(brief) = Null BY DEF Loaded
  <2>2. C!NoBrief \in Findings BY <2>1 DEF Findings, C!Findings
  <2>3. C!NoBrief.status = "unknown" BY DEF C!NoBrief
  <2> QED BY <2>2, <2>3, ReadyHasNoneOpen DEF OpenStatus
<1>2. CASE b = Null
  <2>1. C!NoBrief \in Findings BY <1>2 DEF Findings, C!Findings
  <2>2. C!NoBrief.status = "unknown" BY DEF C!NoBrief
  <2> QED BY <2>1, <2>2, ReadyHasNoneOpen DEF OpenStatus
<1>3. CASE b # Null
  <2>1. /\ \A i \in b.items \ declared : C!Finding(i, evidence[i]) \in Findings
        /\ \A f \in C!ReferenceFindings(b, References) : f \in Findings
    <3>1. Findings = C!Findings(b, evidence, IF built THEN "pass" ELSE "fail", References)
      BY <1>3 DEF Findings
    <3> HIDE DEF evidence, b
    <3> QED BY <1>3, <3>1 DEF C!Findings
  <2>2. \A i \in declared : of(i) \in C!ReferenceFindings(b, References)
    BY DEF C!ReferenceFindings
  <2>3. \A r \in missing : lone(r) \in C!ReferenceFindings(b, References)
    BY DEF C!ReferenceFindings
  <2>4. \A i \in declared : of(i).status = C!Status(said(i), i.applicable)
    BY DEF C!Finding
  <2>5. \A r \in missing : lone(r).status = References[r].status
    OBVIOUS
  <2>6. \A i : i \in declared <=> i \in b.items /\ i.section = "references"
    BY DEF C!Section
  <2>7. \A i \in b.items : evidence[i] = Evidence(i, Report)
    OBVIOUS
  <2>8. \A i \in b.items : C!Finding(i, evidence[i]).status = C!Status(Evidence(i, Report), i.applicable)
    BY DEF C!Finding
  <2> HIDE DEF b, evidence, declared, of, lone
  <2>9. ASSUME NEW i \in b.items, i.applicable, i \notin declared PROVE Satisfied(i)
    <3>1. C!Status(Evidence(i, Report), i.applicable) \notin OpenStatus
      BY <2>1, <2>8, <2>9, ReadyHasNoneOpen
    <3>2. Evidence(i, Report) \notin OpenStatus
      BY <2>9, <3>1 DEF C!Status
    <3> QED BY <2>6, <2>9, <3>2, EvidenceIsTrue
  <2>10. ASSUME NEW i \in declared, i.applicable
         PROVE  i.id \in DOMAIN References /\ References[i.id].status = "pass"
    <3>1. said(i) \notin OpenStatus
      <4>1. C!Status(said(i), i.applicable) \notin OpenStatus
        <5> HIDE DEF said
        <5> QED BY <2>1, <2>2, <2>4, ReadyHasNoneOpen
      <4> QED BY <2>10, <4>1 DEF C!Status
    <3>2. i.id \in DOMAIN References /\ References[i.id].status \notin OpenStatus
      BY <3>1 DEF OpenStatus
    <3>3. References[i.id].status \in Verdicts
      BY <3>2, BriefsAssumption
    <3> QED BY <3>2, <3>3 DEF Verdicts, OpenStatus
  <2>11. ASSUME NEW i \in b.items, i.applicable PROVE Satisfied(i)
    <3>1. CASE i \in declared
      BY <2>6, <2>10, <2>11, <3>1 DEF Satisfied
    <3>2. CASE i \notin declared
      BY <2>9, <2>11, <3>2
    <3> QED BY <3>1, <3>2
  <2>12. ASSUME NEW r \in DOMAIN References
         PROVE  \/ References[r].status = "pass"
                \/ \E i \in b.items : i.section = "references" /\ i.id = r /\ ~i.applicable
    <3>1. CASE r \in missing
      <4>1. References[r].status \notin OpenStatus
        <5> HIDE DEF missing
        <5> QED BY <2>1, <2>3, <2>5, <3>1, ReadyHasNoneOpen
      <4>2. References[r].status \in Verdicts
        BY BriefsAssumption
      <4> QED BY <4>1, <4>2 DEF Verdicts, OpenStatus
    <3>2. CASE r \notin missing
      <4>1. PICK i \in declared : i.id = r
        BY <3>2
      <4>2. CASE i.applicable BY <4>1, <4>2, <2>10
      <4>3. CASE ~i.applicable BY <4>1, <4>3, <2>6
      <4> QED BY <4>2, <4>3
    <3> QED BY <3>1, <3>2
  <2> QED BY <1>1, <2>11, <2>12 DEF b
<1> QED BY <1>2, <1>3

\* "ready" is earned when it is said, and stays so while nothing happens.
LEMMA ReadyStep == ReadyIsEarned /\ [Next]_vars => ReadyIsEarned'
<1> SUFFICES ASSUME ReadyIsEarned, [Next]_vars PROVE ReadyIsEarned'
  OBVIOUS
<1> DEFINE Earned == /\ brief # Null
                     /\ \A i \in Loaded(brief).items : i.applicable => Satisfied(i)
                     /\ \A r \in DOMAIN References :
                          \/ References[r].status = "pass"
                          \/ \E i \in Loaded(brief).items :
                               i.section = "references" /\ i.id = r /\ ~i.applicable
<1>1. ASSUME built' = built, params' = params, kept' = kept, reqs' = reqs, brief' = brief, Earned
      PROVE  Earned'
  <2>1. \A i : Satisfied(i)' <=> Satisfied(i)
    BY <1>1 DEF Satisfied, WithinTolerance, Answer
  <2> QED BY <1>1, <2>1
<1>2. CASE UNCHANGED vars
  <2>1. /\ built' = built /\ params' = params /\ kept' = kept /\ reqs' = reqs /\ brief' = brief
        /\ reply' = reply
    BY <1>2 DEF vars, model, goals
  <2>2. ReadyIsEarned <=> (reply # Null /\ reply.kind = "conformance" /\ reply.level = "ready" => Earned)
    BY Zenon DEF ReadyIsEarned
  <2> HIDE DEF Earned
  <2>3. reply' # Null /\ reply'.kind = "conformance" /\ reply'.level = "ready" => Earned'
    BY <2>1, <2>2, <1>1
  <2> QED BY <2>3 DEF ReadyIsEarned, Earned
<1>3. CASE Next
  <2> SUFFICES ASSUME reply' # Null, reply'.kind = "conformance", reply'.level = "ready" PROVE Earned'
    BY DEF ReadyIsEarned
  <2>1. GetConformance
    BY <1>3, ReplyOf
  <2>2. /\ reply' = [kind |-> "conformance", level |-> C!Level(Findings), findings |-> Findings]
        /\ built' = built /\ params' = params /\ kept' = kept /\ reqs' = reqs /\ brief' = brief
    BY <2>1 DEF GetConformance, model, goals
  <2>3. C!Level(Findings) = "ready"
    BY <2>2
  <2>4. Earned
    BY <2>3, ReadyHolds
  <2> QED BY <1>1, <2>2, <2>4
<1> QED BY <1>2, <1>3

\* What passes of a restricted measurement passes of the whole one.
LEMMA PassesOfWhole ==
  ASSUME NEW r, NEW keys, NEW ctx
  PROVE  /\ EvalPredicate(r, Restricted(ctx, keys)) = "pass" =>
              EvalPredicate(r, ctx) = "pass" /\ ContextKey[r.quantity] \in keys
         /\ EvalPredicate(r, ctx) = "pass" /\ ContextKey[r.quantity] \in keys =>
              EvalPredicate(r, Restricted(ctx, keys)) = "pass"
<1> DEFINE part == Restricted(ctx, keys)
           key == ContextKey[r.quantity]
<1>1. part = [k \in DOMAIN ctx \cap keys |-> ctx[k]]
  BY DEF Restricted
<1>2. \A c : EvalPredicate(r, c) = "pass" => Has(r.quantity, c)
  BY DEF EvalPredicate
<1>3. key \in keys => (Has(r.quantity, part) <=> Has(r.quantity, ctx))
  BY <1>1 DEF Has
<1>4. Has(r.quantity, part) => key \in keys /\ Has(r.quantity, ctx)
  BY <1>1 DEF Has
<1>5. Has(r.quantity, part) => Measured(r.quantity, part) = Measured(r.quantity, ctx)
  BY <1>1 DEF Has, Measured
<1> HIDE DEF part, key
<1>6. Has(r.quantity, part) /\ Has(r.quantity, ctx) => EvalPredicate(r, part) = EvalPredicate(r, ctx)
  <2> SUFFICES ASSUME Has(r.quantity, part), Has(r.quantity, ctx)
               PROVE  EvalPredicate(r, part) = EvalPredicate(r, ctx)
    OBVIOUS
  <2>1. Measured(r.quantity, part) = Measured(r.quantity, ctx)
    BY <1>5
  <2> QED BY <2>1 DEF EvalPredicate
<1> QED BY <1>2, <1>3, <1>4, <1>6 DEF part, key

\* converge_to_spec keeps its promise when it answers.
LEMMA ConvergeStep ==
  Invariant /\ ConvergesToSpec /\ [Next]_vars => ConvergesToSpec'
<1> SUFFICES ASSUME Invariant, ConvergesToSpec, [Next]_vars PROVE ConvergesToSpec'
  OBVIOUS
<1>1. CASE UNCHANGED vars
  <2>1. reply' = reply /\ params' = params BY <1>1 DEF vars, model
  <2> QED BY <2>1 DEF ConvergesToSpec
<1>2. CASE Next
  <2> SUFFICES ASSUME reply' # Null, reply'.kind = "converge", reply'.best # Null
               PROVE  LET meets(p) == \A r \in reply'.used : r.enabled => EvalPredicate(r, Measure(p)) = "pass"
                      IN /\ meets(reply'.best)
                         /\ \A p \in reply'.tried : meets(p) =>
                              Better(reply'.objective, Measure(reply'.best)["mass"], Measure(p)["mass"])
                         /\ reply'.apply => params' = reply'.best
    BY Zenon DEF ConvergesToSpec
  <2>1. PICK o \in Objectives, b \in Budgets, a \in BOOLEAN : Converge(o, b, a)
    BY <1>2, ReplyOf
  <2> DEFINE per == PerAxis(b, Axes)
             m == Measures(b)
             used == Addressable(Predicates, m)
             best == PickFeasible(m, used, o, per)
             at(c) == Sample(c, per)
             meets(p) == \A r \in used : r.enabled => EvalPredicate(r, Measure(p)) = "pass"
  <2>2. /\ reply' = [kind |-> "converge", objective |-> o, apply |-> a,
                     best |-> IF best = Null THEN Null ELSE at(best),
                     tried |-> {at(c) : c \in DOMAIN m}, used |-> used]
        /\ params' = IF best # Null /\ a THEN at(best) ELSE params
    BY <2>1, Zenon DEF Converge
  <2>3. used \subseteq Predicates
    BY DEF Addressable
  <2>4. ASSUME NEW r \in used PROVE \A ctx : EvalOne(r, ctx) = EvalPredicate(r, ctx)
    <3>1. r \in reqs /\ r.form # "assert"
      <4> HIDE DEF used
      <4> QED BY <2>3 DEF Predicates
    <3>2. r.form \in {"predicate", "assert"}
      BY <3>1, StoredForm DEF Invariant, GoalsOK
    <3> QED BY <3>1, <3>2 DEF EvalOne
  <2>5. PICK keys : "mass" \in keys /\ \A c \in DOMAIN m : m[c] = Restricted(Measure(at(c)), keys)
    BY MeasuresAre
  <2>6. \A c \in DOMAIN m : m[c]["mass"] = Measure(at(c))["mass"]
    BY MeasuresAre
  <2>7. IsFiniteSet(DOMAIN m) /\ \A c \in DOMAIN m : m[c]["mass"] \in Int /\ Place(c, per) \in Nat
    BY MeasuresAre
  <2> HIDE DEF m, used, per
  <2>8. best # Null /\ reply'.best = at(best)
    <3> HIDE DEF best, at
    <3> QED BY <2>2
  <2>9. /\ best \in DOMAIN m /\ Passes(m[best], used)
        /\ \A d \in DOMAIN m : Passes(m[d], used) => Better(o, m[best]["mass"], m[d]["mass"])
    BY <2>7, <2>8, PickFeasibleIsBest
  <2> HIDE DEF best, at
  <2>10. \A r \in used : r.enabled =>
           EvalPredicate(r, Measure(at(best))) = "pass" /\ ContextKey[r.quantity] \in keys
    <3> SUFFICES ASSUME NEW r \in used, r.enabled
                 PROVE  EvalPredicate(r, Measure(at(best))) = "pass" /\ ContextKey[r.quantity] \in keys
      OBVIOUS
    <3>1. EvalOne(r, m[best]) = "pass" BY <2>9 DEF Passes, Enabled
    <3>2. EvalPredicate(r, Restricted(Measure(at(best)), keys)) = "pass"
      BY <2>4, <2>5, <2>9, <3>1
    <3> QED BY <3>2, PassesOfWhole
  <2>11. ASSUME NEW d \in DOMAIN m, meets(at(d))
         PROVE  Better(o, Measure(at(best))["mass"], Measure(at(d))["mass"])
    <3>1. \A r \in Enabled(used) : EvalOne(r, m[d]) = "pass"
      <4> SUFFICES ASSUME NEW r \in used, r.enabled PROVE EvalOne(r, m[d]) = "pass"
        BY DEF Enabled
      <4>1. EvalPredicate(r, Measure(at(d))) = "pass" BY <2>11
      <4>2. EvalPredicate(r, Restricted(Measure(at(d)), keys)) = "pass"
        BY <2>10, <4>1, PassesOfWhole
      <4> QED BY <2>4, <2>5, <4>2
    <3>2. Passes(m[d], used)
      BY <2>9, <3>1 DEF Passes
    <3> QED BY <2>6, <2>9, <3>2
  <2>12. /\ reply'.objective = o /\ reply'.apply = a /\ reply'.used = used
         /\ reply'.tried = {at(c) : c \in DOMAIN m}
    BY <2>2
  <2>13. meets(at(best))
    BY <2>10
  <2>14. \A p \in reply'.tried : meets(p) => Better(o, Measure(at(best))["mass"], Measure(p)["mass"])
    <3> HIDE DEF meets
    <3> QED BY <2>11, <2>12
  <2>15. reply'.apply => params' = reply'.best
    BY <2>2, <2>8, <2>12
  <2> QED BY <2>8, <2>12, <2>13, <2>14, <2>15
<1> QED BY <1>1, <1>2

\* optimize answers with the best value of its parameter, if there is one.
LEMMA OptimizeStep ==
  Invariant /\ OptimumIsBest /\ [Next]_vars => OptimumIsBest'
<1> SUFFICES ASSUME Invariant, OptimumIsBest, [Next]_vars PROVE OptimumIsBest'
  OBVIOUS
<1>1. CASE UNCHANGED vars
  <2>1. reply' = reply /\ params' = params BY <1>1 DEF vars, model
  <2> QED BY <2>1 DEF OptimumIsBest
<1>2. CASE Next
  <2> SUFFICES ASSUME reply' # Null, reply'.kind = "optimize"
               PROVE  LET at(v) == [params' EXCEPT ![reply'.axis] = v]
                          fits(v) == at(v) \notin Fails /\ Measure(at(v))["dfmCritical"] = 0
                                     /\ \A i \in 1 .. 3 : Measure(at(v))["bbox"][i] <= reply'.limit[i]
                      IN IF reply'.best = Null THEN \A v \in Values : ~fits(v)
                         ELSE /\ fits(reply'.best)
                              /\ \A v \in Values : fits(v) =>
                                   Better(reply'.objective, Measure(at(reply'.best))["mass"],
                                          Measure(at(v))["mass"])
    BY Zenon DEF OptimumIsBest
  <2>1. PICK o \in Objectives, x \in 1 .. Axes, s \in Boxes : Optimize(x, o, s)
    BY <1>2, ReplyOf
  <2> DEFINE at(v) == [params EXCEPT ![x] = v]
             m == [v \in {w \in Values : at(w) \notin Fails} |-> Measure(at(v))]
             best == PickBest(m, o, s, TRUE)
             fits(v) == at(v) \notin Fails /\ Measure(at(v))["dfmCritical"] = 0
                        /\ \A i \in 1 .. 3 : Measure(at(v))["bbox"][i] <= s[i]
  <2>2. /\ reply' = [kind |-> "optimize", axis |-> x, objective |-> o, limit |-> s, best |-> best]
        /\ params' = params
    BY <2>1, Zenon DEF Optimize, model
  <2>3. \A v \in Values : at(v) \in Points
    BY DEF Invariant, ModelOK, Points
  <2>4. \A v \in DOMAIN m : v \in Values /\ at(v) \notin Fails /\ m[v] = Measure(at(v))
    OBVIOUS
  <2>5. \A v \in Values : at(v) \notin Fails => v \in DOMAIN m
    OBVIOUS
  <2>6. IsFiniteSet(DOMAIN m) /\ Null \notin DOMAIN m
    <3>1. DOMAIN m \in SUBSET Values OBVIOUS
    <3> HIDE DEF m
    <3> QED BY <3>1, AxesAssumption, NullAssumption, FS_Subset
  <2> HIDE DEF m, at
  <2>7. \A v \in DOMAIN m : m[v]["mass"] \in Int
    BY <2>3, <2>4, MeasureAssumption
  <2>8. IF best = Null THEN \A d \in DOMAIN m : ~Fits(m[d], s)
        ELSE /\ best \in DOMAIN m /\ Fits(m[best], s)
             /\ \A d \in DOMAIN m : Fits(m[d], s) => Better(o, m[best]["mass"], m[d]["mass"])
    BY <2>6, <2>7, PickBestIsBest
  <2>9. \A v \in Values : fits(v) <=> v \in DOMAIN m /\ Fits(m[v], s)
    BY <2>4, <2>5 DEF Fits
  <2> HIDE DEF best, fits
  <2>10. IF best = Null THEN \A v \in Values : ~fits(v)
         ELSE /\ fits(best)
              /\ \A v \in Values : fits(v) =>
                   Better(o, Measure(at(best))["mass"], Measure(at(v))["mass"])
    BY <2>4, <2>8, <2>9
  <2>11. /\ reply'.axis = x /\ reply'.objective = o /\ reply'.limit = s /\ reply'.best = best
    BY <2>2
  <2> QED BY <2>2, <2>10, <2>11 DEF at, fits
<1> QED BY <1>1, <1>2

-----------------------------------------------------------------------------
(* Theorems *)

\* The invariant holds in every reachable state.
LEMMA InvariantHolds == Spec => []Invariant
<1>1. Init => Invariant
  BY InvariantInit
<1>2. Invariant /\ [Next]_vars => Invariant'
  BY InvariantNext
<1> QED
  BY <1>1, <1>2, PTL DEF Spec

\* Readiness: "ready" is said of a design that has a brief, each of whose
\* applicable items holds of the model of that moment (conformance.py, evaluate).
THEOREM Readiness == Spec => []ReadyIsEarned
<1>1. Init => ReadyIsEarned
  BY DEF Init, ReadyIsEarned
<1>2. ReadyIsEarned /\ [Next]_vars => ReadyIsEarned'
  BY ReadyStep
<1> QED
  BY <1>1, <1>2, PTL DEF Spec

\* Intent: an accepted update goes onto the brief its client has read, and a goal is
\* stored with its meaning (build_brief.py, update_build_brief; requirements.py,
\* migrate_legacy).
THEOREM Intent == Spec => []IntentKept
<1>1. Init => BriefUpdatesKept
  BY DEF Init, BriefUpdatesKept
<1>2. Invariant /\ BriefUpdatesKept /\ [Next]_vars => BriefUpdatesKept'
  BY UpdatesStep
<1>3. Spec => []BriefUpdatesKept
  BY <1>1, <1>2, InvariantHolds, PTL DEF Spec
<1>4. Invariant /\ BriefUpdatesKept => IntentKept
  BY InvariantImpliesType, MeaningHolds DEF IntentKept
<1> QED
  BY <1>3, <1>4, InvariantHolds, PTL

\* Regressions: what is reported as regressed is what the last evaluation, of
\* whatever goals and model, met and this one does not (analysis.py,
\* check_requirements).
THEOREM Regressions == Spec => []RegressionsAreTrue
<1>1. Init => RegressionsAreTrue
  BY DEF Init, RegressionsAreTrue
<1>2. Invariant /\ RegressionsAreTrue /\ [Next]_vars => RegressionsAreTrue'
  BY RegressionsStep
<1> QED
  BY <1>1, <1>2, InvariantHolds, PTL DEF Spec

\* Answers: what the searches and the checks say holds of every candidate, pose and
\* deviation that was asked about (exploration.py, validation.py).
THEOREM Answers == Spec => []AnswersHold
<1>1. Init => AnswersHold
  BY DEF Init, AnswersHold, ConvergesToSpec, OptimumIsBest, ClearThroughIsClear, StackBoundsGap
<1>2. Invariant /\ AnswersHold /\ [Next]_vars => AnswersHold'
  BY ConvergeStep, OptimizeStep, ChecksStep DEF AnswersHold
<1> QED
  BY <1>1, <1>2, InvariantHolds, PTL DEF Spec
===============================================================================
