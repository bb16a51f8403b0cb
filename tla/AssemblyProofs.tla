---------------------------- MODULE AssemblyProofs ----------------------------
(***************************************************************************)
(* Proofs about Assembly: its four invariants, for any parts, skeletons,   *)
(* wirings, sub-assemblies and imports, and any number of calls and edits  *)
(* by hand.  Sound is the inductive invariant.  Of the files it says that  *)
(* the ids of a manifest are apart, that every entry has its source, that  *)
(* the wiring is in step and that the imports are apart; of the session,   *)
(* that the tree it published last is such a tree, that the tree builds at *)
(* the session's parameter, and where the objects in memory come from.     *)
(*                                                                         *)
(* Kept, FlattenSeq and NodeIds are recursive functions: what each returns *)
(* is shown here from the step that it repeats (Repeated), which is shown  *)
(* to have a function by going up the numbers (UpTo).                      *)
(***************************************************************************)
EXTENDS Assembly, FiniteSetTheorems, SequenceTheorems, WellFoundedInduction, TLAPS

-----------------------------------------------------------------------------
(* Numbers and recursion *)

\* A set of numbers has a least one.
LEMMA LeastNumber ==
  ASSUME NEW Numbers, Numbers \subseteq Nat, Numbers # {}
  PROVE  \E n \in Numbers : \A m \in Numbers : n <= m
<1> DEFINE R == {ss \in Nat \X Nat : ss[1] < ss[2]}
<1>1. IsWellFoundedOn(R, Nat)
  BY NatLessThanWellFounded DEF OpToRel
<1>2. PICK n \in Numbers : \A m \in Numbers : ~(<<m, n>> \in R)
  BY <1>1, WFMin
<1>3. ASSUME NEW m \in Numbers PROVE n <= m
  <2>1. m \in Nat /\ n \in Nat OBVIOUS
  <2>2. ~(m < n) BY <1>2, <2>1
  <2> QED BY <2>1, <2>2
<1> QED BY <1>3

\* What holds of 0 and is passed on from each number to the next holds up to n.
LEMMA UpTo ==
  ASSUME NEW n \in Nat, NEW P, 0 \in P, \A k \in 1 .. n : k - 1 \in P => k \in P
  PROVE  \A k \in 0 .. n : k \in P
<1> DEFINE Bad == (0 .. n) \ P
<1>1. SUFFICES ASSUME Bad # {} PROVE FALSE
  OBVIOUS
<1>2. PICK k \in Bad : \A m \in Bad : k <= m
  <2>1. Bad \subseteq Nat OBVIOUS
  <2> HIDE DEF Bad
  <2> QED BY <1>1, <2>1, LeastNumber
<1>3. k \in 1 .. n /\ k - 1 \in 0 .. n /\ ~(k <= k - 1)
  OBVIOUS
<1>4. k - 1 \in P
  BY <1>2, <1>3
<1> QED BY <1>2, <1>3, <1>4

\* A step on a type has the function that repeats it.
IsRepeated(f, n, base, step) ==
  f = [k \in 0 .. n |-> IF k = 0 THEN base ELSE step[<<f[k - 1], k>>]]
LEMMA Repeated ==
  ASSUME NEW n \in Nat, NEW Kind, NEW base \in Kind, NEW step \in [Kind \X (1 .. n) -> Kind]
  PROVE  \E f \in [0 .. n -> Kind] : IsRepeated(f, n, base, step)
<1> DEFINE Is(f, m) == /\ f \in [0 .. m -> Kind] /\ f[0] = base
                       /\ \A k \in 1 .. m : f[k] = step[<<f[k - 1], k>>]
           P == {m \in 0 .. n : \E f : Is(f, m)}
<1>1. 0 \in P
  <2> DEFINE g == [k \in 0 .. 0 |-> base]
  <2>1. g \in [0 .. 0 -> Kind] /\ g[0] = base /\ \A k \in 1 .. 0 : g[k] = step[<<g[k - 1], k>>]
    OBVIOUS
  <2>2. Is(g, 0) /\ 0 \in 0 .. n
    <3> HIDE DEF g
    <3> QED BY <2>1
  <2> QED BY <2>2, Zenon
<1>2. ASSUME NEW m \in 1 .. n, m - 1 \in P PROVE m \in P
  <2>1. PICK f : Is(f, m - 1)
    BY <1>2
  <2> DEFINE g == [k \in 0 .. m |-> IF k = m THEN step[<<f[m - 1], m>>] ELSE f[k]]
  <2>2. m - 1 \in 0 .. m - 1 /\ m \in Nat /\ m # 0 /\ 0 \in 0 .. m - 1 /\ 0 \in 0 .. m
    OBVIOUS
  <2>3. f[m - 1] \in Kind
    BY <2>1, <2>2
  <2>4. step[<<f[m - 1], m>>] \in Kind
    BY <2>3
  <2>5. g \in [0 .. m -> Kind]
    <3>1. ASSUME NEW k \in 0 .. m PROVE g[k] \in Kind
      <4>1. k = m \/ k \in 0 .. m - 1 BY <2>2
      <4> QED BY <2>1, <2>4, <4>1
    <3> QED BY <3>1
  <2>6. g[0] = base
    BY <2>1, <2>2
  <2>7. ASSUME NEW k \in 1 .. m PROVE g[k] = step[<<g[k - 1], k>>]
    <3>1. k - 1 \in 0 .. m - 1 /\ k - 1 # m /\ k - 1 \in 0 .. m /\ k \in 0 .. m BY <2>2
    <3>2. g[k - 1] = f[k - 1] BY <3>1
    <3>3. CASE k = m BY <3>2, <3>3, <3>1
    <3>4. CASE k # m
      <4>1. k \in 1 .. m - 1 BY <3>4, <2>2
      <4> QED BY <2>1, <3>1, <3>2, <3>4, <4>1
    <3> QED BY <3>3, <3>4
  <2>8. Is(g, m)
    <3> HIDE DEF g
    <3> QED BY <2>5, <2>6, <2>7
  <2>9. m \in 0 .. n OBVIOUS
  <2> HIDE DEF g, Is
  <2> QED BY <2>8, <2>9, Zenon
<1>3. n \in P
  <2> HIDE DEF P
  <2>1. n \in 0 .. n OBVIOUS
  <2> QED BY <1>1, <1>2, <2>1, UpTo
<1>4. PICK f : Is(f, n)
  BY <1>3
<1>5. ASSUME NEW k \in 0 .. n PROVE f[k] = IF k = 0 THEN base ELSE step[<<f[k - 1], k>>]
  <2>1. k = 0 \/ k \in 1 .. n OBVIOUS
  <2> QED BY <1>4, <2>1
<1>6. f = [k \in 0 .. n |-> f[k]]
  BY <1>4
<1> QED BY <1>4, <1>5, <1>6 DEF IsRepeated

\* With more candidates than names in use, one candidate is free.
LEMMA OneIsFree ==
  ASSUME NEW used, IsFiniteSet(used), NEW m \in Nat, Cardinality(used) < m,
         NEW cand, \A i, j \in 1 .. m : cand[i] = cand[j] => i = j
  PROVE  \E i \in 1 .. m : cand[i] \notin used
<1> SUFFICES ASSUME \A i \in 1 .. m : cand[i] \in used PROVE FALSE
  OBVIOUS
<1> DEFINE f == [i \in 1 .. m |-> cand[i]]
<1>1. IsFiniteSet(1 .. m) /\ Cardinality(1 .. m) = m
  BY FS_Interval
<1>2. f \in [1 .. m -> used]
  OBVIOUS
<1>3. \E i, j \in 1 .. m : i # j /\ f[i] = f[j]
  <2> HIDE DEF f
  <2> QED BY <1>1, <1>2, FS_PigeonHole, FS_CardinalityType
<1> QED BY <1>3

-----------------------------------------------------------------------------
(* Sequences *)

\* No element comes twice.
Apart1(s) == \A i, j \in DOMAIN s : s[i] = s[j] => i = j

\* An appended element is the last one, and new when it was not there.
LEMMA Appended ==
  ASSUME NEW T, NEW s \in Seq(T), NEW x \in T
  PROVE  /\ Append(s, x) \in Seq(T) /\ Len(Append(s, x)) = Len(s) + 1
         /\ ToSet(Append(s, x)) = ToSet(s) \cup {x}
         /\ Apart1(s) /\ x \notin ToSet(s) => Apart1(Append(s, x))
<1> DEFINE t == Append(s, x)
           n == Len(s)
<1>1. /\ t \in Seq(T) /\ Len(t) = n + 1 /\ n \in Nat
      /\ \A i \in 1 .. n : t[i] = s[i]
      /\ t[n + 1] = x
  BY AppendProperties
<1>2. DOMAIN s = 1 .. n /\ DOMAIN t = 1 .. (n + 1)
  BY <1>1
<1> HIDE DEF t, n
<1>3. \A i \in 1 .. (n + 1) : i \in 1 .. n \/ i = n + 1
  BY <1>1
<1>4. ToSet(t) = ToSet(s) \cup {x}
  <2>1. ASSUME NEW i \in DOMAIN t PROVE t[i] \in ToSet(s) \cup {x}
    BY <1>1, <1>2, <1>3 DEF ToSet
  <2>2. ASSUME NEW i \in DOMAIN s PROVE s[i] \in ToSet(t)
    <3>1. i \in DOMAIN t /\ t[i] = s[i] BY <1>1, <1>2
    <3> QED BY <3>1 DEF ToSet
  <2>3. x \in ToSet(t)
    <3>1. n + 1 \in DOMAIN t BY <1>1, <1>2
    <3> QED BY <3>1, <1>1 DEF ToSet
  <2> QED BY <2>1, <2>2, <2>3 DEF ToSet
<1>5. ASSUME Apart1(s), x \notin ToSet(s) PROVE Apart1(t)
  <2>1. \A i \in 1 .. n : s[i] # x BY <1>2, <1>5 DEF ToSet
  <2>2. ASSUME NEW i \in 1 .. (n + 1), NEW j \in 1 .. (n + 1), t[i] = t[j] PROVE i = j
    BY <1>1, <1>2, <1>3, <1>5, <2>1, <2>2 DEF Apart1
  <2> QED BY <1>2, <2>2 DEF Apart1
<1> QED BY <1>1, <1>4, <1>5 DEF t, n

\* Kept keeps what it is told to and no more, each element as often as it was there.
LEMMA KeptHolds ==
  ASSUME NEW T, NEW s \in Seq(T), NEW S
  PROVE  /\ Kept(s, S) \in Seq(T)
         /\ ToSet(Kept(s, S)) = ToSet(s) \cap S
         /\ Apart1(s) => Apart1(Kept(s, S))
<1> DEFINE n == Len(s)
           Kind == Seq(T)
           to(x, i) == IF s[i] \in S THEN Append(x, s[i]) ELSE x
           IsKept(f) == f = [i \in 0 .. n |-> IF i = 0 THEN <<>>
                                            ELSE IF s[i] \in S THEN Append(f[i - 1], s[i]) ELSE f[i - 1]]
           kept == CHOOSE f : IsKept(f)
           step == [x \in Kind \X (1 .. n) |-> to(x[1], x[2])]
<1>1. n \in Nat /\ DOMAIN s = 1 .. n /\ \A i \in 1 .. n : s[i] \in T
  OBVIOUS
<1>2. Kept(s, S) = kept[n]
  BY DEF Kept
<1>3. ASSUME NEW x \in Kind, NEW i \in 1 .. n PROVE to(x, i) \in Kind
  BY <1>1, Appended
<1>4. step \in [Kind \X (1 .. n) -> Kind]
  <2>1. ASSUME NEW x \in Kind \X (1 .. n) PROVE to(x[1], x[2]) \in Kind
    <3>1. x[1] \in Kind /\ x[2] \in 1 .. n OBVIOUS
    <3> HIDE DEF to, Kind
    <3> QED BY <3>1, <1>3
  <2> HIDE DEF to
  <2> QED BY <2>1
<1>5. PICK f \in [0 .. n -> Kind] : IsRepeated(f, n, <<>>, step)
  <2> HIDE DEF step
  <2>1. <<>> \in Kind OBVIOUS
  <2> HIDE DEF Kind, n
  <2> QED BY <1>1, <1>4, <2>1, Repeated, Zenon
<1>6. ASSUME NEW i \in 0 .. n PROVE f[i] = IF i = 0 THEN <<>> ELSE to(f[i - 1], i)
  <2> HIDE DEF to, Kind
  <2>1. CASE i = 0 BY <1>5, <2>1 DEF IsRepeated
  <2>2. CASE i # 0
    <3>1. i \in 1 .. n /\ i - 1 \in 0 .. n BY <2>2, <1>1
    <3>2. f[i - 1] \in Kind BY <3>1
    <3>3. step[<<f[i - 1], i>>] = to(f[i - 1], i) BY <3>1, <3>2
    <3> HIDE DEF step
    <3> QED BY <1>5, <2>2, <3>3 DEF IsRepeated
  <2> QED BY <2>1, <2>2
<1>7. IsKept(f)
  <2> HIDE DEF step, Kind, n
  <2>1. f = [i \in 0 .. n |-> f[i]] OBVIOUS
  <2> QED BY <2>1, <1>6
<1>8. IsKept(kept)
  <2> HIDE DEF IsKept
  <2> QED BY <1>7
<1>9. ASSUME NEW i \in 0 .. n PROVE kept[i] = IF i = 0 THEN <<>> ELSE to(kept[i - 1], i)
  <2> HIDE DEF kept, n
  <2> QED BY <1>8
<1> HIDE DEF kept, IsKept, step
<1> DEFINE Before(i) == {s[j] : j \in 1 .. i}
           Sound(i) == /\ kept[i] \in Kind /\ ToSet(kept[i]) = Before(i) \cap S
                       /\ Apart1(s) => Apart1(kept[i])
           P == {i \in 0 .. n : Sound(i)}
<1>10. 0 \in P
  <2>1. kept[0] = <<>> /\ 0 \in 0 .. n BY <1>1, <1>9
  <2>2. Before(0) = {} OBVIOUS
  <2>3. <<>> \in Kind /\ ToSet(<<>>) = {} /\ Apart1(<<>>) BY DEF ToSet, Apart1
  <2>4. Sound(0)
    <3> HIDE DEF Before, Kind
    <3> QED BY <2>1, <2>2, <2>3
  <2> HIDE DEF Sound
  <2> QED BY <2>1, <2>4
<1>11. ASSUME NEW i \in 1 .. n, i - 1 \in P PROVE i \in P
  <2>1. i \in 0 .. n /\ i # 0 BY <1>1
  <2>2. kept[i] = to(kept[i - 1], i) BY <1>9, <2>1
  <2>3. Before(i) = Before(i - 1) \cup {s[i]}
    <3>1. \A j \in 1 .. i : j \in 1 .. i - 1 \/ j = i BY <1>1
    <3>2. \A j \in 1 .. i - 1 : j \in 1 .. i BY <1>1
    <3>3. i \in 1 .. i BY <1>1
    <3> QED BY <3>1, <3>2, <3>3
  <2> DEFINE x == kept[i - 1]
  <2>4. /\ x \in Kind /\ ToSet(x) = Before(i - 1) \cap S
        /\ Apart1(s) => Apart1(x)
    <3>1. Sound(i - 1)
      <4> HIDE DEF Sound
      <4> QED BY <1>11
    <3> QED BY <3>1
  <2>5. kept[i] = IF s[i] \in S THEN Append(x, s[i]) ELSE x
    BY <2>2
  <2>6. Apart1(s) => s[i] \notin Before(i - 1)
    <3>1. \A j \in 1 .. i - 1 : j \in DOMAIN s /\ i \in DOMAIN s /\ j # i BY <1>1
    <3> QED BY <3>1 DEF Apart1
  <2>7. s[i] \in T BY <1>1
  <2> HIDE DEF x, Before
  <2>8. CASE s[i] \notin S
    <3>1. kept[i] = x BY <2>5, <2>8
    <3>2. Before(i) \cap S = Before(i - 1) \cap S BY <2>3, <2>8
    <3> QED BY <2>1, <2>4, <3>1, <3>2
  <2>9. CASE s[i] \in S
    <3>1. kept[i] = Append(x, s[i]) BY <2>5, <2>9
    <3>2. /\ Append(x, s[i]) \in Seq(T)
          /\ ToSet(Append(x, s[i])) = ToSet(x) \cup {s[i]}
          /\ Apart1(x) /\ s[i] \notin ToSet(x) => Apart1(Append(x, s[i]))
      BY <2>4, <2>7, Appended
    <3>3. Before(i) \cap S = ToSet(x) \cup {s[i]} BY <2>3, <2>4, <2>9
    <3>4. Apart1(s) => s[i] \notin ToSet(x) BY <2>4, <2>6
    <3> QED BY <2>1, <2>4, <3>1, <3>2, <3>3, <3>4
  <2> QED BY <2>8, <2>9
<1>12. n \in P
  <2> HIDE DEF P
  <2>1. n \in 0 .. n BY <1>1
  <2>2. \A i \in 1 .. n : i - 1 \in P => i \in P BY <1>11
  <2>3. \A i \in 0 .. n : i \in P BY <1>1, <1>10, <2>2, UpTo
  <2> QED BY <2>1, <2>3
<1>13. Before(n) = ToSet(s)
  BY <1>1 DEF ToSet
<1>14. /\ kept[n] \in Kind /\ ToSet(kept[n]) = Before(n) \cap S
       /\ Apart1(s) => Apart1(kept[n])
  <2>1. Sound(n)
    <3> HIDE DEF Sound
    <3> QED BY <1>12
  <2> QED BY <2>1
<1> HIDE DEF Before, P
<1> QED BY <1>2, <1>13, <1>14

\* What is joined has the elements of both.
LEMMA Joined ==
  ASSUME NEW T, NEW s \in Seq(T), NEW t \in Seq(T)
  PROVE  ToSet(s \o t) = ToSet(s) \cup ToSet(t)
<1>1. /\ s \o t \in Seq(T) /\ Len(s \o t) = Len(s) + Len(t)
      /\ \A i \in 1 .. Len(s) + Len(t) :
           (s \o t)[i] = IF i <= Len(s) THEN s[i] ELSE t[i - Len(s)]
  BY ConcatProperties
<1> DEFINE u == s \o t
<1>2. /\ DOMAIN u = 1 .. Len(s) + Len(t) /\ DOMAIN s = 1 .. Len(s) /\ DOMAIN t = 1 .. Len(t)
      /\ Len(s) \in Nat /\ Len(t) \in Nat
  BY <1>1
<1> HIDE DEF u
<1>3. ASSUME NEW i \in DOMAIN u PROVE u[i] \in ToSet(s) \cup ToSet(t)
  <2>1. i <= Len(s) => i \in DOMAIN s /\ u[i] = s[i] BY <1>1, <1>2 DEF u
  <2>2. ~(i <= Len(s)) => i - Len(s) \in DOMAIN t /\ u[i] = t[i - Len(s)] BY <1>1, <1>2 DEF u
  <2> QED BY <2>1, <2>2 DEF ToSet
<1>4. ASSUME NEW i \in DOMAIN s PROVE s[i] \in ToSet(u)
  <2>1. i \in DOMAIN u /\ u[i] = s[i] BY <1>1, <1>2 DEF u
  <2> QED BY <2>1 DEF ToSet
<1>5. ASSUME NEW i \in DOMAIN t PROVE t[i] \in ToSet(u)
  <2>1. i + Len(s) \in DOMAIN u /\ u[i + Len(s)] = t[i] BY <1>1, <1>2 DEF u
  <2> QED BY <2>1 DEF ToSet
<1>6. ToSet(u) = ToSet(s) \cup ToSet(t)
  BY <1>3, <1>4, <1>5 DEF ToSet
<1> QED BY <1>6 DEF u

\* FlattenSeq has the elements of all the sequences.
LEMMA FlattenHolds ==
  ASSUME NEW T, NEW ss \in Seq(Seq(T))
  PROVE  /\ FlattenSeq(ss) \in Seq(T)
         /\ ToSet(FlattenSeq(ss)) = UNION {ToSet(ss[i]) : i \in DOMAIN ss}
<1> DEFINE n == Len(ss)
           Kind == Seq(T)
           IsFlat(f) == f = [i \in 1 .. n |-> IF i = 1 THEN ss[i] ELSE f[i - 1] \o ss[i]]
           flat == CHOOSE f : IsFlat(f)
           step == [x \in Kind \X (1 .. n) |-> x[1] \o ss[x[2]]]
<1>1. n \in Nat /\ DOMAIN ss = 1 .. n /\ \A i \in 1 .. n : ss[i] \in Kind
  OBVIOUS
<1>2. CASE n = 0
  <2>1. FlattenSeq(ss) = ss BY <1>2 DEF FlattenSeq
  <2>2. ss = <<>> BY <1>2
  <2> QED BY <2>1, <2>2 DEF ToSet
<1>3. CASE n # 0
  <2>1. FlattenSeq(ss) = flat[n]
    BY <1>3 DEF FlattenSeq
  <2>2. step \in [Kind \X (1 .. n) -> Kind]
    <3>1. ASSUME NEW x \in Kind \X (1 .. n) PROVE x[1] \o ss[x[2]] \in Kind
      <4>1. x[1] \in Kind /\ ss[x[2]] \in Kind BY <1>1
      <4> QED BY <4>1
    <3> QED BY <3>1
  <2>3. PICK f \in [0 .. n -> Kind] : IsRepeated(f, n, <<>>, step)
    <3> HIDE DEF step
    <3>1. <<>> \in Kind OBVIOUS
    <3> HIDE DEF Kind, n
    <3> QED BY <1>1, <2>2, <3>1, Repeated, Zenon
  <2>4. f[0] = <<>>
    <3> HIDE DEF step, Kind
    <3>1. 0 \in 0 .. n BY <1>1
    <3> QED BY <2>3, <3>1 DEF IsRepeated
  <2>5. ASSUME NEW i \in 1 .. n PROVE f[i] = f[i - 1] \o ss[i]
    <3>1. i \in 0 .. n /\ i - 1 \in 0 .. n /\ i # 0 BY <1>1
    <3>2. f[i - 1] \in Kind BY <3>1
    <3>3. step[<<f[i - 1], i>>] = f[i - 1] \o ss[i] BY <3>1, <3>2
    <3> HIDE DEF step, Kind
    <3> QED BY <2>3, <3>1, <3>3 DEF IsRepeated
  <2> DEFINE g == [i \in 1 .. n |-> f[i]]
  <2>6. IsFlat(g)
    <3>1. ASSUME NEW i \in 1 .. n PROVE g[i] = IF i = 1 THEN ss[i] ELSE g[i - 1] \o ss[i]
      <4>1. CASE i = 1
        <5>1. i - 1 = 0 /\ g[i] = f[i] BY <4>1
        <5>2. f[i] = <<>> \o ss[i]
          <6> HIDE DEF g
          <6> QED BY <2>4, <2>5, <5>1
        <5>3. <<>> \o ss[i] = ss[i]
          <6>1. ss[i] \in Seq(T) BY <1>1
          <6> QED BY <6>1, ConcatEmptySeq
        <5> HIDE DEF g
        <5> QED BY <4>1, <5>1, <5>2, <5>3
      <4>2. CASE i # 1
        <5>1. i - 1 \in 1 .. n BY <1>1, <4>2
        <5>2. g[i - 1] = f[i - 1] /\ g[i] = f[i] BY <5>1
        <5> QED BY <2>5, <4>2, <5>2
      <4> QED BY <4>1, <4>2
    <3> HIDE DEF n
    <3>2. g = [i \in 1 .. n |-> g[i]] OBVIOUS
    <3> HIDE DEF g
    <3> QED BY <3>1, <3>2
  <2>7. IsFlat(flat)
    <3> HIDE DEF IsFlat
    <3> QED BY <2>6
  <2>8. ASSUME NEW i \in 1 .. n PROVE flat[i] = IF i = 1 THEN ss[i] ELSE flat[i - 1] \o ss[i]
    <3> HIDE DEF flat, n
    <3> QED BY <2>7
  <2> HIDE DEF flat, IsFlat, step, g
  <2> DEFINE Upto(i) == UNION {ToSet(ss[j]) : j \in 1 .. i}
             Sound(i) == i # 0 => flat[i] \in Kind /\ ToSet(flat[i]) = Upto(i)
             P == {i \in 0 .. n : Sound(i)}
  <2>9. 0 \in P
    BY <1>1
  <2>10. ASSUME NEW i \in 1 .. n, i - 1 \in P PROVE i \in P
    <3>1. Sound(i - 1)
      <4> HIDE DEF Sound
      <4> QED BY <2>10
    <3>2. Upto(i) = Upto(i - 1) \cup ToSet(ss[i])
      <4>1. \A j \in 1 .. i : j \in 1 .. i - 1 \/ j = i BY <1>1
      <4>2. \A j \in 1 .. i - 1 : j \in 1 .. i BY <1>1
      <4>3. i \in 1 .. i BY <1>1
      <4> QED BY <4>1, <4>2, <4>3
    <3>3. ss[i] \in Seq(T) BY <1>1
    <3>4. flat[i] \in Kind /\ ToSet(flat[i]) = Upto(i)
      <4>1. CASE i = 1
        <5>1. Upto(0) = {} OBVIOUS
        <5> HIDE DEF Upto
        <5>2. Upto(i) = ToSet(ss[i])
          <6>1. i - 1 = 0 BY <4>1
          <6> QED BY <3>2, <5>1, <6>1
        <5> QED BY <2>8, <3>3, <4>1, <5>2
      <4>2. CASE i # 1
        <5> HIDE DEF Upto
        <5>1. i - 1 # 0 /\ i - 1 \in 1 .. n BY <1>1, <4>2
        <5>2. flat[i - 1] \in Seq(T) /\ ToSet(flat[i - 1]) = Upto(i - 1) BY <3>1, <5>1
        <5>3. flat[i] = flat[i - 1] \o ss[i] BY <2>8, <4>2
        <5>4. flat[i - 1] \o ss[i] \in Seq(T) BY <3>3, <5>2
        <5>5. ToSet(flat[i - 1] \o ss[i]) = ToSet(flat[i - 1]) \cup ToSet(ss[i])
          BY <3>3, <5>2, Joined
        <5> QED BY <3>2, <5>2, <5>3, <5>4, <5>5
      <4> QED BY <4>1, <4>2
    <3>5. i \in 0 .. n BY <1>1
    <3> HIDE DEF Upto, Kind
    <3> QED BY <3>4, <3>5
  <2>11. n \in P
    <3> HIDE DEF P
    <3>1. n \in 0 .. n BY <1>1
    <3>2. \A i \in 1 .. n : i - 1 \in P => i \in P BY <2>10
    <3>3. \A i \in 0 .. n : i \in P BY <1>1, <2>9, <3>2, UpTo
    <3> QED BY <3>1, <3>3
  <2>12. flat[n] \in Kind /\ ToSet(flat[n]) = Upto(n)
    <3>1. Sound(n)
      <4> HIDE DEF Sound
      <4> QED BY <2>11
    <3> QED BY <1>3, <3>1
  <2> QED BY <1>1, <2>1, <2>12
<1> QED BY <1>2, <1>3

-----------------------------------------------------------------------------
(* Manifests *)

\* No two entries of a manifest have the same id.
IdsApart(tree) ==
  \A i, j \in DOMAIN tree.children : tree.children[i].id = tree.children[j].id => i = j

\* The entries of a manifest are as many as their ids.
LEMMA IdsCounted ==
  ASSUME NEW tree, tree.children \in Seq(Entries), IdsApart(tree)
  PROVE  Cardinality(Ids(tree)) = Len(tree.children) /\ IsFiniteSet(Ids(tree))
<1> DEFINE n == Len(tree.children)
           f == [i \in 1 .. n |-> tree.children[i].id]
<1>1. n \in Nat /\ DOMAIN tree.children = 1 .. n
  OBVIOUS
<1>2. IsFiniteSet(1 .. n) /\ Cardinality(1 .. n) = n
  BY <1>1, FS_Interval
<1>3. Ids(tree) = {tree.children[i].id : i \in 1 .. n}
  BY <1>1 DEF Ids, ToSet
<1>4. f \in Bijection(1 .. n, Ids(tree))
  <2>1. f \in [1 .. n -> Ids(tree)] BY <1>3
  <2>2. \A x \in Ids(tree) : \E i \in 1 .. n : f[i] = x BY <1>3
  <2>3. \A i, j \in 1 .. n : f[i] = f[j] => i = j BY <1>1 DEF IdsApart
  <2> HIDE DEF f, n
  <2>4. f \in Injection(1 .. n, Ids(tree)) BY <2>1, <2>3 DEF Injection, IsInjective
  <2>5. f \in Surjection(1 .. n, Ids(tree)) BY <2>1, <2>2 DEF Surjection
  <2> QED BY <2>4, <2>5 DEF Bijection
<1>5. ExistsBijection(1 .. n, Ids(tree))
  BY <1>4 DEF ExistsBijection
<1> HIDE DEF n, f
<1> QED BY <1>2, <1>5, FS_Bijection DEF n

\* A child is found by its id, and what is found has the id.
LEMMA ChildIsFound ==
  ASSUME NEW tree, IdsApart(tree)
  PROVE  /\ \A c \in ToSet(tree.children) : Has(tree, c.id) /\ Child(tree, c.id) = c
         /\ \A id : Has(tree, id) => /\ Child(tree, id) \in ToSet(tree.children)
                                     /\ Child(tree, id).id = id
<1>1. ASSUME NEW i \in DOMAIN tree.children
      PROVE  /\ Has(tree, tree.children[i].id)
             /\ Child(tree, tree.children[i].id) = tree.children[i]
  <2> DEFINE id == tree.children[i].id
  <2>1. Positions(tree, id) = {i} BY DEF Positions, IdsApart
  <2>2. (CHOOSE j \in {i} : TRUE) = i OBVIOUS
  <2> QED BY <2>1, <2>2 DEF Has, Child
<1>2. ASSUME NEW id, Has(tree, id)
      PROVE  Child(tree, id) \in ToSet(tree.children) /\ Child(tree, id).id = id
  <2>1. Positions(tree, id) # {} BY <1>2 DEF Has
  <2>2. (CHOOSE j \in Positions(tree, id) : TRUE) \in Positions(tree, id) BY <2>1
  <2> HIDE DEF Positions
  <2>3. PICK j : j \in Positions(tree, id) /\ Child(tree, id) = tree.children[j] BY <2>2 DEF Child
  <2>4. j \in DOMAIN tree.children /\ tree.children[j].id = id BY <2>3 DEF Positions
  <2> QED BY <2>3, <2>4 DEF ToSet
<1> QED BY <1>1, <1>2 DEF ToSet

\* Sources and entries, by the children alone.
LEMMA SourcedByChildren ==
  ASSUME NEW tree, IdsApart(tree)
  PROVE  Sourced(tree) <=>
           \A id \in PartIds :
             /\ tree.parts[id] # Null <=> \E c \in ToSet(tree.children) : c.id = id /\ IsPart(c)
             /\ tree.nodes[id] # Null <=> \E c \in ToSet(tree.children) : c.id = id /\ ~IsPart(c)
<1>1. ASSUME NEW id \in PartIds
      PROVE  /\ (Has(tree, id) /\ IsPart(Child(tree, id))) <=>
                \E c \in ToSet(tree.children) : c.id = id /\ IsPart(c)
             /\ (Has(tree, id) /\ ~IsPart(Child(tree, id))) <=>
                \E c \in ToSet(tree.children) : c.id = id /\ ~IsPart(c)
  <2> HIDE DEF Has, Child, IsPart
  <2> QED BY ChildIsFound
<1> QED BY <1>1 DEF Sourced

\* upsert_child replaces the entry with its id, or adds one.
LEMMA UpsertHolds ==
  ASSUME NEW tree, tree \in Trees, IdsApart(tree), NEW entry \in Entries
  PROVE  /\ Upsert(tree, entry) \in Trees /\ IdsApart(Upsert(tree, entry))
         /\ ToSet(Upsert(tree, entry).children) =
              {c \in ToSet(tree.children) : c.id # entry.id} \cup {entry}
         /\ Upsert(tree, entry) = [tree EXCEPT !.children = Upsert(tree, entry).children]
<1> DEFINE s == tree.children
           n == Len(s)
           r == [i \in DOMAIN s |-> IF s[i].id = entry.id THEN entry ELSE s[i]]
           new == Upsert(tree, entry)
<1>1. s \in Seq(Entries) /\ n \in Nat /\ DOMAIN s = 1 .. n /\ \A i \in 1 .. n : s[i] \in Entries
  BY DEF Trees
<1>2. CASE Has(tree, entry.id)
  <2>1. new = [tree EXCEPT !.children = r] /\ new.children = r
    BY <1>2 DEF Upsert, Trees
  <2>2. r \in Seq(Entries) /\ DOMAIN r = 1 .. n
    BY <1>1
  <2>3. \A i \in 1 .. n : r[i].id = s[i].id BY <1>1
  <2>4. IdsApart(new) BY <1>1, <2>1, <2>2, <2>3 DEF IdsApart
  <2>5. ToSet(r) = {c \in ToSet(s) : c.id # entry.id} \cup {entry}
    <3>1. PICK i \in 1 .. n : s[i].id = entry.id BY <1>1, <1>2 DEF Has, Positions
    <3>2. r[i] = entry BY <1>1, <3>1
    <3>3. entry \in ToSet(r) BY <2>2, <3>2 DEF ToSet
    <3>4. ASSUME NEW j \in 1 .. n PROVE r[j] \in {c \in ToSet(s) : c.id # entry.id} \cup {entry}
      BY <1>1 DEF ToSet
    <3>5. ASSUME NEW j \in 1 .. n, s[j].id # entry.id PROVE s[j] \in ToSet(r)
      <4>1. r[j] = s[j] BY <1>1, <3>5
      <4> QED BY <2>2, <4>1 DEF ToSet
    <3> HIDE DEF r
    <3> QED BY <1>1, <2>2, <3>3, <3>4, <3>5 DEF ToSet
  <2>6. new \in Trees BY <2>1, <2>2 DEF Trees
  <2> QED BY <2>1, <2>4, <2>5, <2>6
<1>3. CASE ~Has(tree, entry.id)
  <2>1. new = [tree EXCEPT !.children = Append(s, entry)] /\ new.children = Append(s, entry)
    BY <1>3 DEF Upsert, Trees
  <2>2. Append(s, entry) \in Seq(Entries) /\ ToSet(Append(s, entry)) = ToSet(s) \cup {entry}
    BY <1>1, Appended
  <2>3. /\ \A i \in 1 .. n : Append(s, entry)[i] = s[i] /\ s[i].id # entry.id
        /\ Append(s, entry)[n + 1] = entry /\ DOMAIN Append(s, entry) = 1 .. (n + 1)
    <3>1. \A i \in 1 .. n : s[i].id # entry.id BY <1>1, <1>3 DEF Has, Positions
    <3> QED BY <1>1, <3>1, AppendProperties
  <2>4. IdsApart(new)
    <3>1. \A i \in 1 .. (n + 1) : i \in 1 .. n \/ i = n + 1 BY <1>1
    <3>2. \A i, j \in 1 .. n : s[i].id = s[j].id => i = j BY <1>1 DEF IdsApart
    <3>3. ASSUME NEW i \in 1 .. (n + 1), NEW j \in 1 .. (n + 1), 
                 Append(s, entry)[i].id = Append(s, entry)[j].id PROVE i = j
      <4> HIDE DEF s, n
      <4> QED BY <2>3, <3>1, <3>2, <3>3
    <3> QED BY <2>1, <2>3, <3>3 DEF IdsApart
  <2>5. \A c \in ToSet(s) : c.id # entry.id BY <1>1, <2>3 DEF ToSet
  <2>6. new \in Trees BY <2>1, <2>2 DEF Trees
  <2> QED BY <2>1, <2>2, <2>4, <2>5, <2>6
<1> QED BY <1>2, <1>3

\* remove_child takes the entry away.
LEMMA WithoutHolds ==
  ASSUME NEW tree, tree \in Trees, IdsApart(tree), NEW id
  PROVE  /\ Without(tree, id) \in Trees /\ IdsApart(Without(tree, id))
         /\ ToSet(Without(tree, id).children) = {c \in ToSet(tree.children) : c.id # id}
         /\ Without(tree, id) = [tree EXCEPT !.children = Without(tree, id).children]
<1> DEFINE s == tree.children
           S == {c \in ToSet(s) : c.id # id}
           new == Without(tree, id)
<1>1. s \in Seq(Entries) BY DEF Trees
<1>2. Kept(s, S) \in Seq(Entries) /\ ToSet(Kept(s, S)) = ToSet(s) \cap S
  BY <1>1, KeptHolds
<1>3. Apart1(s) BY DEF Apart1, IdsApart
<1>4. Apart1(Kept(s, S)) BY <1>1, <1>3, KeptHolds
<1>5. new = [tree EXCEPT !.children = Kept(s, S)] /\ new.children = Kept(s, S)
  BY DEF Without, Trees
<1>6. \A c, d \in ToSet(s) : c.id = d.id => c = d BY DEF IdsApart, ToSet
<1> DEFINE t == Kept(s, S)
<1>7. IdsApart(new)
  <2>1. \A i \in DOMAIN t : t[i] \in ToSet(s) BY <1>2 DEF ToSet
  <2> HIDE DEF t, s
  <2>2. \A i, j \in DOMAIN t : t[i].id = t[j].id => t[i] = t[j] BY <1>6, <2>1
  <2>3. \A i, j \in DOMAIN t : t[i].id = t[j].id => i = j BY <1>4, <2>2 DEF Apart1, t
  <2> QED BY <1>5, <2>3 DEF IdsApart, t
<1>8. new \in Trees BY <1>2, <1>5 DEF Trees
<1> QED BY <1>2, <1>5, <1>7, <1>8

\* Reversed children are the same children.
LEMMA ReverseHolds ==
  ASSUME NEW tree, tree \in Trees, IdsApart(tree)
  PROVE  LET new == [tree EXCEPT !.children = Reverse(@)]
         IN /\ new \in Trees /\ IdsApart(new)
            /\ ToSet(new.children) = ToSet(tree.children)
<1> DEFINE s == tree.children
           n == Len(s)
           new == [tree EXCEPT !.children = Reverse(@)]
<1>1. s \in Seq(Entries) /\ n \in Nat /\ DOMAIN s = 1 .. n /\ \A i \in 1 .. n : s[i] \in Entries
  BY DEF Trees
<1>2. Reverse(s) = [i \in 1 .. n |-> s[(n - i) + 1]]
  BY DEF Reverse
<1>3. new.children = Reverse(s) BY DEF Trees
<1>4. \A i \in 1 .. n : (n - i) + 1 \in 1 .. n BY <1>1
<1>5. Reverse(s) \in Seq(Entries) /\ DOMAIN Reverse(s) = 1 .. n BY <1>1, <1>2, <1>4
<1>6. new \in Trees BY <1>5 DEF Trees
<1> DEFINE r == Reverse(s)
<1>7. \A i \in 1 .. n : r[i] = s[(n - i) + 1] BY <1>2
<1> HIDE DEF r, new
<1>8. IdsApart(new)
  <2>1. \A i, j \in 1 .. n : s[i].id = s[j].id => i = j BY <1>1 DEF IdsApart
  <2> HIDE DEF s, n
  <2>2. ASSUME NEW i \in 1 .. n, NEW j \in 1 .. n, r[i].id = r[j].id PROVE i = j
    <3>1. (n - i) + 1 = (n - j) + 1 BY <1>4, <1>7, <2>1, <2>2
    <3> QED BY <1>1, <3>1
  <2> QED BY <1>3, <1>5, <2>2 DEF IdsApart, r
<1>9. ToSet(r) = ToSet(s)
  <2>1. ASSUME NEW i \in 1 .. n PROVE s[i] \in ToSet(r)
    <3>1. (n - i) + 1 \in 1 .. n /\ (n - ((n - i) + 1)) + 1 = i BY <1>1
    <3>2. r[(n - i) + 1] = s[i] BY <1>7, <3>1
    <3> QED BY <1>5, <3>1, <3>2 DEF ToSet, r
  <2>2. ASSUME NEW i \in 1 .. n PROVE r[i] \in ToSet(s)
    BY <1>1, <1>4, <1>7 DEF ToSet
  <2>3. DOMAIN r = 1 .. n BY <1>5 DEF r
  <2> QED BY <1>1, <2>1, <2>2, <2>3 DEF ToSet
<1> QED BY <1>3, <1>6, <1>8, <1>9 DEF r, new

-----------------------------------------------------------------------------
(* Imports *)

\* The suffix that keeps a file or an id apart is found.
LEMMA ApartIsFresh ==
  ASSUME NEW stem \in DOMAIN Cad, NEW used, IsFiniteSet(used)
  PROVE  Apart(stem, used) \in Files /\ Apart(stem, used) \notin used
<1> DEFINE c == Cardinality(used)
           Free == {n \in 0 .. c : <<stem, n>> \notin used}
           cand == [i \in 1 .. c + 1 |-> <<stem, i - 1>>]
           First(n) == <<stem, n>> \notin used /\ \A m \in 0 .. n - 1 : <<stem, m>> \in used
<1>1. c \in Nat BY FS_CardinalityType
<1>2. Free # {}
  <2>1. \A i, j \in 1 .. c + 1 : cand[i] = cand[j] => i = j BY <1>1
  <2> HIDE DEF cand
  <2>2. c + 1 \in Nat /\ Cardinality(used) < c + 1 BY <1>1
  <2> HIDE DEF c
  <2>3. PICK i \in 1 .. c + 1 : cand[i] \notin used BY <2>1, <2>2, OneIsFree
  <2>4. cand[i] = <<stem, i - 1>> /\ i - 1 \in 0 .. c BY <1>1, <2>3 DEF cand
  <2> QED BY <2>3, <2>4
<1>3. PICK n \in Free : \A m \in Free : n <= m
  <2>1. Free \subseteq Nat OBVIOUS
  <2> HIDE DEF Free
  <2> QED BY <1>2, <2>1, LeastNumber
<1>4. n \in 0 .. c /\ First(n)
  <2>1. ASSUME NEW m \in 0 .. n - 1, <<stem, m>> \notin used PROVE FALSE
    <3>1. m \in 0 .. c /\ m < n BY <1>1
    <3>2. m \in Free BY <2>1, <3>1
    <3>3. n \in Nat /\ m \in Nat OBVIOUS
    <3> QED BY <1>3, <3>1, <3>2, <3>3
  <2> QED BY <2>1
<1> DEFINE k == CHOOSE m \in 0 .. c : First(m)
<1>5. k \in 0 .. c /\ First(k)
  <2> HIDE DEF First, c
  <2> QED BY <1>4
<1>6. Apart(stem, used) = <<stem, k>> BY DEF Apart
<1> HIDE DEF k
<1> QED BY <1>1, <1>5, <1>6 DEF Files

\* ImportsApart, of a tree.
ImportsSound(tree) ==
  LET entries == ToSet(tree.imports)
  IN /\ \A e \in entries : e.path \in tree.assets
     /\ \A e, f \in entries : e.id = f.id \/ e.path = f.path => e = f
     /\ Cardinality(entries) = Len(tree.imports)

\* As many elements as places: none comes twice.
LEMMA CountedApart ==
  ASSUME NEW T, NEW s \in Seq(T)
  PROVE  IsFiniteSet(ToSet(s)) /\ (Cardinality(ToSet(s)) = Len(s) <=> Apart1(s))
<1> DEFINE n == Len(s)
<1>1. n \in Nat /\ DOMAIN s = 1 .. n /\ s \in [1 .. n -> ToSet(s)] BY DEF ToSet
<1>2. IsFiniteSet(1 .. n) /\ Cardinality(1 .. n) = n BY <1>1, FS_Interval
<1>3. s \in Surjection(1 .. n, ToSet(s)) BY <1>1 DEF Surjection, ToSet
<1> HIDE DEF n
<1>4. IsFiniteSet(ToSet(s)) /\ (Cardinality(ToSet(s)) = n <=> s \in Injection(1 .. n, ToSet(s)))
  BY <1>2, <1>3, FS_Surjection
<1>5. s \in Injection(1 .. n, ToSet(s)) <=> Apart1(s)
  BY <1>1 DEF Injection, IsInjective, Apart1
<1> QED BY <1>4, <1>5 DEF n

\* imports_manifest.add puts an entry with an id and a file of its own.
LEMMA AddedHolds ==
  ASSUME NEW tree, tree \in Trees, ImportsSound(tree), IsFiniteSet(tree.assets),
         NEW stem \in DOMAIN Cad, NEW required \in BOOLEAN
  PROVE  LET new == [tree EXCEPT !.assets = Staged(@, stem),
                                 !.imports = Added(@, tree.assets, stem, required)]
         IN new \in Trees /\ ImportsSound(new) /\ IsFiniteSet(new.assets)
<1> DEFINE s == tree.imports
           a == tree.assets
           ids == {s[i].id : i \in DOMAIN s}
           e == [id |-> Apart(stem, ids), path |-> Apart(stem, a), required |-> required]
           b == a \cup {Apart(stem, a)}
           new == [tree EXCEPT !.assets = Staged(@, stem),
                               !.imports = Added(@, tree.assets, stem, required)]
<1>1. s \in Seq(ImportEntries) /\ a \subseteq Files /\ Len(s) \in Nat /\ DOMAIN s = 1 .. Len(s)
  BY DEF Trees
<1>2. IsFiniteSet(ids)
  <2> DEFINE f == [i \in 1 .. Len(s) |-> s[i].id]
  <2>1. f \in Surjection(1 .. Len(s), ids) BY <1>1 DEF Surjection
  <2> HIDE DEF f, ids
  <2> QED BY <1>1, <2>1, FS_Interval, FS_Surjection
<1>3. Apart(stem, ids) \in Files /\ Apart(stem, ids) \notin ids BY <1>2, ApartIsFresh
<1>4. Apart(stem, a) \in Files /\ Apart(stem, a) \notin a BY ApartIsFresh
<1>5. e \in ImportEntries BY <1>3, <1>4 DEF ImportEntries
<1>6. new.assets = b /\ new.imports = Append(s, e) /\ new = [tree EXCEPT !.assets = b, !.imports = Append(s, e)]
  BY DEF Trees, Staged, Added
<1> HIDE DEF e
<1>7. /\ Append(s, e) \in Seq(ImportEntries) /\ Len(Append(s, e)) = Len(s) + 1
      /\ ToSet(Append(s, e)) = ToSet(s) \cup {e}
      /\ Apart1(s) /\ e \notin ToSet(s) => Apart1(Append(s, e))
  BY <1>1, <1>5, Appended
<1>8. b \subseteq Files /\ IsFiniteSet(b) /\ a \subseteq b /\ e.path \in b
  BY <1>1, <1>4, FS_AddElement DEF e
<1>9. new \in Trees
  <2> HIDE DEF b, s, ids
  <2> QED BY <1>6, <1>7, <1>8 DEF Trees
<1>10. \A f \in ToSet(s) : f.id # e.id /\ f.path # e.path
  <2>1. \A f \in ToSet(s) : f.id \in ids BY DEF ToSet
  <2>2. \A f \in ToSet(s) : f.path \in a BY DEF ImportsSound
  <2> QED BY <1>3, <1>4, <2>1, <2>2 DEF e
<1>11. Apart1(Append(s, e))
  <2>1. Apart1(s) BY <1>1, CountedApart DEF ImportsSound
  <2> QED BY <1>7, <1>10, <2>1
<1>12. Cardinality(ToSet(Append(s, e))) = Len(Append(s, e)) BY <1>7, <1>11, CountedApart
<1>13. ImportsSound(new)
  <2>1. \A f \in ToSet(s) \cup {e} : f.path \in b BY <1>8 DEF ImportsSound
  <2>2. \A f, g \in ToSet(s) \cup {e} : f.id = g.id \/ f.path = g.path => f = g
    BY <1>10 DEF ImportsSound
  <2> HIDE DEF new, s, b
  <2> QED BY <1>6, <1>7, <1>12, <2>1, <2>2 DEF ImportsSound
<1> QED BY <1>6, <1>8, <1>9, <1>13

\* imports_manifest.remove takes entries only.
LEMMA RemovedHolds ==
  ASSUME NEW tree, tree \in Trees, ImportsSound(tree), NEW id
  PROVE  LET new == [tree EXCEPT !.imports = Removed(@, id)]
         IN new \in Trees /\ ImportsSound(new)
<1> DEFINE s == tree.imports
           S == {e \in ToSet(s) : e.id # id}
           new == [tree EXCEPT !.imports = Removed(@, id)]
<1>1. s \in Seq(ImportEntries) BY DEF Trees
<1>2. /\ Kept(s, S) \in Seq(ImportEntries) /\ ToSet(Kept(s, S)) = ToSet(s) \cap S
      /\ Apart1(s) => Apart1(Kept(s, S))
  BY <1>1, KeptHolds
<1>3. new.imports = Kept(s, S) /\ new = [tree EXCEPT !.imports = Kept(s, S)] /\ new.assets = tree.assets
  BY DEF Trees, Removed
<1>4. Apart1(s) BY <1>1, CountedApart DEF ImportsSound
<1>5. Cardinality(ToSet(Kept(s, S))) = Len(Kept(s, S)) BY <1>2, <1>4, CountedApart
<1>6. new \in Trees BY <1>2, <1>3 DEF Trees
<1>7. \A e \in ToSet(Kept(s, S)) : e \in ToSet(s) BY <1>2
<1>8. ImportsSound(new)
  <2> DEFINE t == Kept(s, S)
  <2> HIDE DEF new, t
  <2>1. \A e \in ToSet(t) : e.path \in new.assets BY <1>3, <1>7 DEF ImportsSound, t
  <2>2. \A e, f \in ToSet(t) : e.id = f.id \/ e.path = f.path => e = f
    BY <1>7 DEF ImportsSound, t
  <2> QED BY <1>3, <1>5, <2>1, <2>2 DEF ImportsSound, t
<1> QED BY <1>6, <1>8

\* stage_import adds a file and no more.
LEMMA StagedHolds ==
  ASSUME NEW tree, tree \in Trees, ImportsSound(tree), IsFiniteSet(tree.assets),
         NEW stem \in DOMAIN Cad
  PROVE  LET new == [tree EXCEPT !.assets = Staged(@, stem)]
         IN new \in Trees /\ ImportsSound(new) /\ IsFiniteSet(new.assets)
<1> DEFINE a == tree.assets
           b == a \cup {Apart(stem, a)}
           new == [tree EXCEPT !.assets = Staged(@, stem)]
<1>1. Apart(stem, a) \in Files BY ApartIsFresh
<1>2. new.assets = b /\ new.imports = tree.imports /\ new = [tree EXCEPT !.assets = b]
  BY DEF Trees, Staged
<1>3. b \subseteq Files /\ IsFiniteSet(b) /\ a \subseteq b BY <1>1, FS_AddElement DEF Trees
<1>4. new \in Trees
  <2> HIDE DEF b
  <2> QED BY <1>2, <1>3 DEF Trees
<1>5. ImportsSound(new)
  <2> HIDE DEF b, new
  <2> QED BY <1>2, <1>3 DEF ImportsSound
<1> QED BY <1>2, <1>3, <1>4, <1>5

-----------------------------------------------------------------------------
(* The trees that the calls make *)

TreeSound(tree) == tree \in Trees /\ IdsApart(tree) /\ Sourced(tree)

\* What an entry's replacement leaves of the one-to-one relation of entries and sources.
LEMMA UpsertSourced ==
  ASSUME NEW tree, NEW before, TreeSound(before), NEW entry \in Entries,
         tree \in Trees, tree.children = before.children,
         \A id \in PartIds \ {entry.id} : /\ tree.parts[id] = before.parts[id]
                                         /\ tree.nodes[id] = before.nodes[id],
         tree.parts[entry.id] # Null <=> IsPart(entry),
         tree.nodes[entry.id] # Null <=> ~IsPart(entry)
  PROVE  TreeSound(Upsert(tree, entry))
<1> DEFINE new == Upsert(tree, entry)
           S == ToSet(before.children)
<1>1. IdsApart(before) /\ IdsApart(tree) BY DEF TreeSound, IdsApart
<1>2. /\ new \in Trees /\ IdsApart(new)
      /\ ToSet(new.children) = {c \in S : c.id # entry.id} \cup {entry}
      /\ new = [tree EXCEPT !.children = new.children]
  BY <1>1, UpsertHolds
<1>3. new.parts = tree.parts /\ new.nodes = tree.nodes
  <2> HIDE DEF new
  <2> QED BY <1>2 DEF Trees
<1> HIDE DEF new
<1>4. ASSUME NEW id \in PartIds
      PROVE  /\ tree.parts[id] # Null <=> \E c \in ToSet(new.children) : c.id = id /\ IsPart(c)
             /\ tree.nodes[id] # Null <=> \E c \in ToSet(new.children) : c.id = id /\ ~IsPart(c)
  <2> HIDE DEF S
  <2>1. CASE id = entry.id
    <3>1. \A c \in ToSet(new.children) : c.id = id <=> c = entry BY <1>2, <2>1
    <3> HIDE DEF IsPart
    <3> QED BY <1>2, <2>1, <3>1
  <2>2. CASE id # entry.id
    <3>1. \A c : c.id = id => (c \in ToSet(new.children) <=> c \in S) BY <1>2, <2>2
    <3>2. /\ before.parts[id] # Null <=> \E c \in S : c.id = id /\ IsPart(c)
          /\ before.nodes[id] # Null <=> \E c \in S : c.id = id /\ ~IsPart(c)
      BY <1>1, SourcedByChildren DEF TreeSound, S
    <3>3. tree.parts[id] = before.parts[id] /\ tree.nodes[id] = before.nodes[id] BY <2>2
    <3> HIDE DEF IsPart
    <3> QED BY <3>1, <3>2, <3>3
  <2> QED BY <2>1, <2>2
<1>5. Sourced(new)
  <2> HIDE DEF IsPart
  <2> QED BY <1>2, <1>3, <1>4, SourcedByChildren
<1> QED BY <1>2, <1>5 DEF TreeSound, new

\* Deleted takes an entry with its source.
LEMMA DeletedSound ==
  ASSUME NEW tree, TreeSound(tree), NEW id \in PartIds, Has(tree, id)
  PROVE  /\ TreeSound(Deleted(tree, id))
         /\ ToSet(Deleted(tree, id).children) = {c \in ToSet(tree.children) : c.id # id}
         /\ Deleted(tree, id).imports = tree.imports /\ Deleted(tree, id).assets = tree.assets
<1> DEFINE new == Deleted(tree, id)
           mid == Without(tree, id)
           kids == {c \in ToSet(tree.children) : c.id # id}
           old == Child(tree, id)
<1>1. tree \in Trees /\ IdsApart(tree) /\ Sourced(tree) BY DEF TreeSound
<1>2. /\ mid \in Trees /\ IdsApart(mid) /\ ToSet(mid.children) = kids
      /\ mid = [tree EXCEPT !.children = mid.children]
  BY <1>1, WithoutHolds
<1>3. old \in ToSet(tree.children) /\ old.id = id BY <1>1, ChildIsFound
<1> HIDE DEF mid
<1>4. /\ mid.parts = tree.parts /\ mid.nodes = tree.nodes /\ mid.imports = tree.imports
      /\ mid.assets = tree.assets
  BY <1>1, <1>2 DEF Trees
<1>5. new = IF IsPart(old) THEN [mid EXCEPT !.parts[id] = Null] ELSE [mid EXCEPT !.nodes[id] = Null]
  BY DEF Deleted, mid
<1> HIDE DEF old, new
<1>6. /\ new \in Trees /\ new.children = mid.children /\ new.imports = mid.imports
      /\ new.assets = mid.assets
      /\ IsPart(old) => new.parts = [mid.parts EXCEPT ![id] = Null] /\ new.nodes = mid.nodes
      /\ ~IsPart(old) => new.nodes = [mid.nodes EXCEPT ![id] = Null] /\ new.parts = mid.parts
  BY <1>2, <1>5 DEF Trees, Sources, IsPart
<1>7. mid.parts \in Sources /\ mid.nodes \in [PartIds -> Nodes \cup {Null}] BY <1>2 DEF Trees
<1>8. IdsApart(new) BY <1>2, <1>6 DEF IdsApart
<1>9. ASSUME NEW k \in PartIds
      PROVE  /\ new.parts[k] # Null <=> \E c \in kids : c.id = k /\ IsPart(c)
             /\ new.nodes[k] # Null <=> \E c \in kids : c.id = k /\ ~IsPart(c)
  <2>1. /\ tree.parts[k] # Null <=> \E c \in ToSet(tree.children) : c.id = k /\ IsPart(c)
        /\ tree.nodes[k] # Null <=> \E c \in ToSet(tree.children) : c.id = k /\ ~IsPart(c)
    BY <1>1, SourcedByChildren
  <2>2. \A c \in ToSet(tree.children) : c.id = id => c = old BY <1>1, <1>3, ChildIsFound DEF old
  <2>3. CASE k = id
    <3>1. \A c \in kids : c.id # k BY <2>3
    <3>2. IsPart(old) => new.parts[k] = Null /\ new.nodes[k] = Null
      <4> HIDE DEF IsPart
      <4> QED BY <1>4, <1>6, <1>7, <2>1, <2>2, <2>3 DEF Sources
    <3>3. ~IsPart(old) => new.parts[k] = Null /\ new.nodes[k] = Null
      <4> HIDE DEF IsPart
      <4> QED BY <1>4, <1>6, <1>7, <2>1, <2>2, <2>3 DEF Sources
    <3> HIDE DEF IsPart
    <3> QED BY <3>1, <3>2, <3>3
  <2>4. CASE k # id
    <3>1. new.parts[k] = tree.parts[k] /\ new.nodes[k] = tree.nodes[k]
      BY <1>4, <1>6, <1>7, <2>4 DEF Sources
    <3>2. \A c : c.id = k => (c \in kids <=> c \in ToSet(tree.children)) BY <2>4
    <3> HIDE DEF IsPart, kids
    <3> QED BY <2>1, <3>1, <3>2
  <2> QED BY <2>3, <2>4
<1>10. Sourced(new)
  <2> HIDE DEF IsPart, kids
  <2> QED BY <1>2, <1>6, <1>8, <1>9, SourcedByChildren
<1> QED BY <1>2, <1>4, <1>6, <1>8, <1>10 DEF TreeSound, new

\* Entries in other places, with the sources as they were.
LEMMA RewiredSound ==
  ASSUME NEW tree, TreeSound(tree), NEW entry \in Entries, NEW c \in ToSet(tree.children),
         entry.id = c.id, entry.kind = c.kind
  PROVE  TreeSound(Upsert(tree, entry))
<1>1. tree \in Trees /\ IdsApart(tree) /\ c \in Entries BY DEF TreeSound, Trees, ToSet
<1>2. c.id \in PartIds BY <1>1 DEF Entries
<1>3. /\ tree.parts[c.id] # Null <=> \E d \in ToSet(tree.children) : d.id = c.id /\ IsPart(d)
      /\ tree.nodes[c.id] # Null <=> \E d \in ToSet(tree.children) : d.id = c.id /\ ~IsPart(d)
  BY <1>1, <1>2, SourcedByChildren DEF TreeSound
<1>4. \A d \in ToSet(tree.children) : d.id = c.id => d = c BY <1>1, ChildIsFound
<1>5. IsPart(entry) <=> IsPart(c) BY DEF IsPart
<1>6. /\ tree.parts[entry.id] # Null <=> IsPart(entry)
      /\ tree.nodes[entry.id] # Null <=> ~IsPart(entry)
  <2> HIDE DEF IsPart
  <2> QED BY <1>3, <1>4, <1>5
<1> QED BY <1>1, <1>6, UpsertSourced

\* What a call leaves of the other entries' wiring.
LEMMA UpsertAttach ==
  ASSUME NEW tree, tree \in Trees, IdsApart(tree), NEW others, AttachFirst(tree, others),
         NEW entry \in Entries,
         entry.id \notin others /\ entry.occurrences # Null =>
           entry.attach = entry.occurrences[1].frame
  PROVE  AttachFirst(Upsert(tree, entry), others)
<1>1. ToSet(Upsert(tree, entry).children) = {c \in ToSet(tree.children) : c.id # entry.id} \cup {entry}
  BY UpsertHolds
<1> QED BY <1>1 DEF AttachFirst

-----------------------------------------------------------------------------
(* The invariant of the files and of what the session says of them *)

\* Objects that a build of sound files made, or a registry of references.
Origin(objects) ==
  \/ \E tree \in Trees, v \in Values :
       TreeSound(tree) /\ Builds(tree, v) /\ objects = Objects(tree, v)
  \/ \E imports \in Seq(ImportEntries) : objects = ReferenceObjects(imports)

FilesSound ==
  /\ TreeSound(live) /\ AttachFirst(live, rewired)
  /\ ImportsSound(live) /\ IsFiniteSet(live.assets)
SessionSound ==
  /\ DOMAIN selected = {"tree", "objects"} /\ TreeSound(selected.tree)
  /\ DOMAIN memory = {"value", "objects", "composed", "status"}
  /\ memory.value \in Values /\ memory.composed \in BOOLEAN
  /\ memory.composed => Builds(selected.tree, memory.value)
  /\ Origin(memory.objects)
  /\ ~stray /\ memory.composed => Builds(live, memory.value)
  /\ ModelIsItsFiles /\ StatusIsManifest
CountsSound == stray \in BOOLEAN /\ rewired \subseteq PartIds /\ edits \in 0 .. MaxEdits
Sound == FilesSound /\ SessionSound /\ CountsSound

\* The files that a call may publish: the imports are left alone.
Candidate(tree) ==
  /\ TreeSound(tree) /\ AttachFirst(tree, rewired)
  /\ tree.imports = live.imports /\ tree.assets = live.assets

\* The invariant gives the type and the properties.
LEMMA SoundGives ==
  ASSUME Sound
  PROVE  TypeOK /\ SessionIsItsFiles /\ ManifestsSound
<1>1. live.children \in Seq(Entries) /\ IdsApart(live) BY DEF Sound, FilesSound, TreeSound, Trees
<1>2. Cardinality(Ids(live)) = Len(live.children) BY <1>1, IdsCounted
<1>3. TypeOK
  BY <1>2 DEF Sound, FilesSound, SessionSound, CountsSound, TreeSound, TypeOK
<1>4. SessionIsItsFiles
  BY <1>3 DEF Sound, SessionSound, SessionIsItsFiles
<1>5. ManifestsSound
  BY DEF Sound, FilesSound, TreeSound, ManifestsSound, AttachIsFirst, SourcesHaveEntries, ImportsApart,
         ImportsSound
<1> QED BY <1>3, <1>4, <1>5

\* The workspace as it is is a candidate.
LEMMA LiveIsCandidate ==
  ASSUME Sound PROVE Candidate(live)
BY DEF Sound, FilesSound, Candidate

LEMMA OpensSound ==
  ASSUME Init PROVE Sound
<1> DEFINE v == DescribedAt(live)
<1>1. /\ live \in Opened /\ Builds(live, v)
      /\ selected = [tree |-> live, objects |-> Objects(live, v)]
      /\ memory = [value |-> v, objects |-> selected.objects, composed |-> TRUE, status |-> {}]
      /\ stray = FALSE /\ rewired = {} /\ edits = 0
  BY DEF Init
<1>2. /\ live \in Trees /\ live.imports = <<>> /\ IsFiniteSet(live.assets)
      /\ Cardinality(Ids(live)) = Len(live.children)
      /\ AttachFirst(live, {}) /\ Sourced(live)
  BY <1>1, OpenedAssumption
<1>3. IdsApart(live)
  <2> DEFINE n == Len(live.children)
             f == [i \in 1 .. n |-> live.children[i].id]
  <2>1. n \in Nat /\ DOMAIN live.children = 1 .. n BY <1>2 DEF Trees
  <2>2. Ids(live) = {live.children[i].id : i \in 1 .. n} BY <2>1 DEF Ids, ToSet
  <2>3. f \in Surjection(1 .. n, Ids(live)) BY <2>2 DEF Surjection
  <2>4. IsFiniteSet(1 .. n) /\ Cardinality(1 .. n) = n BY <2>1, FS_Interval
  <2>5. f \in Injection(1 .. n, Ids(live))
    <3> HIDE DEF f, n
    <3>1. Cardinality(Ids(live)) = n BY <1>2 DEF n
    <3> QED BY <2>3, <2>4, <3>1, FS_Surjection
  <2>6. \A i, j \in 1 .. n : f[i] = f[j] => i = j BY <2>5 DEF Injection, IsInjective
  <2> QED BY <2>1, <2>6 DEF IdsApart
<1>4. v \in Values
  <2>1. live.skeleton \in Published \cup {Null} BY <1>2 DEF Trees
  <2> QED BY <2>1, ComposeAssumption DEF DescribedAt, Published
<1>5. ImportsSound(live)
  <2>1. ToSet(live.imports) = {} /\ Len(live.imports) = 0 BY <1>2 DEF ToSet
  <2> QED BY <2>1, FS_EmptySet DEF ImportsSound
<1>6. StatusOf(live.imports) = {} BY <1>2 DEF StatusOf
<1> HIDE DEF v
<1>7. FilesSound BY <1>1, <1>2, <1>3, <1>5 DEF FilesSound, TreeSound
<1>8. SessionSound
  <2>1. TreeSound(live) BY <1>2, <1>3 DEF TreeSound
  <2>2. Origin(Objects(live, v)) BY <1>1, <1>2, <1>4, <2>1 DEF Origin
  <2>3. memory.objects = Objects(live, v) BY <1>1
  <2> QED
    BY <1>1, <1>4, <1>6, <2>1, <2>2, <2>3 DEF SessionSound, ModelIsItsFiles, StatusIsManifest
<1>9. CountsSound
  <2>1. 0 \in 0 .. MaxEdits BY AssemblyAssumption
  <2>2. stray \in BOOLEAN /\ rewired \subseteq PartIds BY <1>1
  <2>3. edits \in 0 .. MaxEdits BY <1>1, <2>1
  <2> QED BY <2>2, <2>3 DEF CountsSound
<1> QED BY <1>7, <1>8, <1>9 DEF Sound

-----------------------------------------------------------------------------
(* Builds keep the invariant *)

\* A call's step, but for the files and the session.
LEMMA EditCounts ==
  ASSUME Sound, Edit
  PROVE  rewired' = rewired /\ edits' \in 0 .. MaxEdits
BY AssemblyAssumption DEF Edit, Step, Sound, CountsSound

LEMMA RefuseHolds ==
  ASSUME Sound, Edit, Refuse
  PROVE  Sound'
<1>1. rewired' = rewired /\ edits' \in 0 .. MaxEdits BY EditCounts
<1>2. live' = live /\ selected' = selected /\ memory' = memory /\ stray' = stray BY DEF Refuse
<1>3. FilesSound' BY <1>1, <1>2 DEF Sound, FilesSound
<1>4. SessionSound' BY <1>2 DEF Sound, SessionSound, ModelIsItsFiles, StatusIsManifest
<1>5. CountsSound' BY <1>1, <1>2 DEF Sound, CountsSound
<1> QED BY <1>3, <1>4, <1>5 DEF Sound

\* A publication with the objects of its files, from a call.
Publishes(tree, v, objects) ==
  /\ live' = tree /\ selected' = [tree |-> tree, objects |-> objects]
  /\ memory' = [memory EXCEPT !.value = v, !.objects = objects, !.composed = TRUE]
  /\ stray' = FALSE

LEMMA PublishHolds ==
  ASSUME Sound, Edit, NEW tree, Candidate(tree), NEW v \in Values, Builds(tree, v),
         Publishes(tree, v, Objects(tree, v))
  PROVE  Sound'
<1> DEFINE objects == Objects(tree, v)
<1>1. rewired' = rewired /\ edits' \in 0 .. MaxEdits BY EditCounts
<1> HIDE DEF objects
<1>2. /\ live' = tree /\ selected' = [tree |-> tree, objects |-> objects]
      /\ memory' = [memory EXCEPT !.value = v, !.objects = objects, !.composed = TRUE]
      /\ stray' = FALSE
  BY DEF Publishes, objects
<1>3. DOMAIN memory = {"value", "objects", "composed", "status"} BY DEF Sound, SessionSound
<1>4. /\ DOMAIN memory' = {"value", "objects", "composed", "status"}
      /\ memory'.value = v /\ memory'.objects = objects /\ memory'.composed = TRUE
      /\ memory'.status = memory.status
  BY <1>2, <1>3
<1>5. FilesSound'
  BY <1>1, <1>2 DEF Sound, FilesSound, Candidate, ImportsSound
<1>6. /\ DOMAIN selected' = {"tree", "objects"} /\ selected'.tree = tree
      /\ selected'.objects = objects
  BY <1>2
<1>7. ModelIsItsFiles' BY <1>2, <1>4, <1>6 DEF ModelIsItsFiles, objects
<1>8. StatusIsManifest' BY <1>2, <1>4 DEF Sound, SessionSound, StatusIsManifest, Candidate
<1>9. SessionSound'
  <2>1. tree \in Trees /\ TreeSound(tree) BY DEF Candidate, TreeSound
  <2>2. Origin(objects) BY <2>1 DEF Origin, objects
  <2> QED BY <1>2, <1>4, <1>6, <1>7, <1>8, <2>1, <2>2 DEF SessionSound
<1>10. CountsSound' BY <1>1, <1>2 DEF Sound, CountsSound
<1> QED BY <1>5, <1>9, <1>10 DEF Sound

LEMMA BuildHolds ==
  ASSUME Sound, Edit, NEW tree, Candidate(tree), NEW v \in Values, Build(tree, v)
  PROVE  Sound'
<1>1. CASE Builds(tree, v) /\ ~Hollow(tree, v)
  <2>1. Publishes(tree, v, Objects(tree, v)) BY <1>1 DEF Build, Publish, Publishes
  <2> QED BY <1>1, <2>1, PublishHolds
<1>2. CASE ~(Builds(tree, v) /\ ~Hollow(tree, v))
  <2>1. Refuse BY <1>2 DEF Build
  <2> QED BY <2>1, RefuseHolds
<1> QED BY <1>1, <1>2

LEMMA RebuildHolds ==
  ASSUME Sound, Edit, NEW tree, Candidate(tree), NEW v \in Values, RebuildAfter(tree, v)
  PROVE  Sound'
<1>1. CASE Builds(tree, v) /\ Hollow(tree, v)
  <2>1. Objects(tree, v) = <<>> BY <1>1 DEF Hollow
  <2>2. Publishes(tree, v, Objects(tree, v)) BY <1>1, <2>1 DEF RebuildAfter, PublishEmpty, Publishes
  <2> QED BY <1>1, <2>2, PublishHolds
<1>2. CASE ~(Builds(tree, v) /\ Hollow(tree, v))
  <2>1. Build(tree, v) BY <1>2 DEF RebuildAfter
  <2> QED BY <2>1, BuildHolds
<1> QED BY <1>1, <1>2

\* A refused wiring publishes the manifest as it was: what the session holds of
\* it stays true.
LEMMA RewireHolds ==
  ASSUME Sound, Edit, NEW id, NEW entry, Candidate(Upsert(live, entry)), Rewire(id, entry)
  PROVE  Sound'
<1> DEFINE new == Upsert(live, entry)
           v == memory.value
<1>1. v \in Values BY DEF Sound, SessionSound
<1>2. CASE Builds(new, v) /\ ~Hollow(new, v)
  <2>1. Publishes(new, v, Objects(new, v)) BY <1>2 DEF Rewire, Publish, Publishes
  <2> QED BY <1>1, <1>2, <2>1, PublishHolds
<1>3. CASE ~(Builds(new, v) /\ ~Hollow(new, v)) /\ Builds(live, v) /\ ~Hollow(live, v)
  <2>1. /\ selected' = [tree |-> live, objects |-> Objects(live, v)]
        /\ live' = live /\ memory' = memory /\ stray' = stray
    BY <1>3 DEF Rewire
  <2>2. rewired' = rewired /\ edits' \in 0 .. MaxEdits BY EditCounts
  <2>3. FilesSound' BY <2>1, <2>2 DEF Sound, FilesSound
  <2>4. /\ DOMAIN selected' = {"tree", "objects"} /\ selected'.tree = live
        /\ selected'.objects = Objects(live, memory.value)
    BY <2>1
  <2>5. ModelIsItsFiles' BY <2>1, <2>4 DEF Sound, SessionSound, ModelIsItsFiles
  <2>6. StatusIsManifest' BY <2>1 DEF Sound, SessionSound, StatusIsManifest
  <2>7. SessionSound' BY <1>3, <2>1, <2>4, <2>5, <2>6 DEF Sound, SessionSound, FilesSound
  <2>8. CountsSound' BY <2>1, <2>2 DEF Sound, CountsSound
  <2> QED BY <2>3, <2>7, <2>8 DEF Sound
<1>4. CASE ~(Builds(new, v) /\ ~Hollow(new, v)) /\ ~(Builds(live, v) /\ ~Hollow(live, v))
  <2>1. Refuse BY <1>4 DEF Rewire
  <2> QED BY <2>1, RefuseHolds
<1> QED BY <1>2, <1>3, <1>4

-----------------------------------------------------------------------------
(* The calls keep the invariant *)

\* What Sound says of the files, for the calls.
LEMMA LiveSound ==
  ASSUME Sound
  PROVE  /\ live \in Trees /\ IdsApart(live) /\ TreeSound(live) /\ AttachFirst(live, rewired)
         /\ live.children \in Seq(Entries) /\ \A c \in ToSet(live.children) : c \in Entries
         /\ \A id : Has(live, id) => /\ Child(live, id) \in ToSet(live.children)
                                     /\ Child(live, id).id = id
         /\ memory.value \in Values
<1>1. live \in Trees /\ IdsApart(live) /\ TreeSound(live) /\ AttachFirst(live, rewired)
  BY DEF Sound, FilesSound, TreeSound
<1>2. live.children \in Seq(Entries) BY <1>1 DEF Trees
<1>3. \A c \in ToSet(live.children) : c \in Entries BY <1>2 DEF ToSet
<1> QED BY <1>1, <1>2, <1>3, ChildIsFound DEF Sound, SessionSound

LEMMA SetSkeletonHolds ==
  ASSUME Sound, NEW s \in Skeletons, SetSkeleton(s)
  PROVE  Sound'
<1> DEFINE new == [live EXCEPT !.skeleton = s]
<1>1. s \in Published /\ s.default \in Values BY CallsAssumption DEF Published
<1>2. live \in Trees /\ IdsApart(live) /\ TreeSound(live) /\ AttachFirst(live, rewired) BY LiveSound
<1>3. /\ new \in Trees /\ new.children = live.children /\ new.parts = live.parts
      /\ new.nodes = live.nodes /\ new.imports = live.imports /\ new.assets = live.assets
  BY <1>1, <1>2 DEF Trees
<1> HIDE DEF new
<1>4. IdsApart(new) /\ AttachFirst(new, rewired) BY <1>2, <1>3 DEF IdsApart, AttachFirst
<1>5. Sourced(new)
  BY <1>2, <1>3, <1>4, SourcedByChildren DEF TreeSound
<1>6. Candidate(new) BY <1>3, <1>4, <1>5 DEF Candidate, TreeSound
<1>7. CASE Loads(live)
  <2>1. Edit /\ Build(new, s.default) BY <1>7 DEF SetSkeleton, new
  <2> QED BY <1>1, <1>6, <2>1, BuildHolds
<1>8. CASE ~Loads(live)
  <2>1. Edit /\ Refuse BY <1>8 DEF SetSkeleton
  <2> QED BY <2>1, RefuseHolds
<1> QED BY <1>7, <1>8

\* An entry written by set_part is an entry of a part, without occurrences.
LEMMA PartEntryHolds ==
  ASSUME Sound, NEW id \in PartIds, NEW w \in Wirings
  PROVE  /\ PartEntry(id, w) \in Entries /\ PartEntry(id, w).id = id
         /\ IsPart(PartEntry(id, w)) /\ PartEntry(id, w).occurrences = Null
<1> DEFINE old == IF Has(live, id) THEN Child(live, id)
                  ELSE [attach |-> Null, inputs |-> {}, shapes |-> {}]
<1>1. /\ old.attach \in Names \cup {Null} /\ old.inputs \in SUBSET Names
      /\ old.shapes \in SUBSET Names
  <2>1. CASE Has(live, id)
    <3>1. Child(live, id) \in Entries BY <2>1, LiveSound
    <3> QED BY <2>1, <3>1 DEF Entries
  <2>2. CASE ~Has(live, id) BY <2>2
  <2> QED BY <2>1, <2>2
<1>2. /\ w.attach \in Names \cup {Null} /\ w.inputs \in {Null} \cup SUBSET Names
      /\ w.shapes \in {Null} \cup SUBSET Names
  BY CallsAssumption
<1> HIDE DEF old
<1>3. /\ Passed(w.attach, old.attach) \in Names \cup {Null}
      /\ Passed(w.inputs, old.inputs) \in SUBSET Names
      /\ Passed(w.shapes, old.shapes) \in SUBSET Names
  BY <1>1, <1>2 DEF Passed
<1>4. PartEntry(id, w) =
        [id |-> id, kind |-> "part", attach |-> Passed(w.attach, old.attach),
         inputs |-> Passed(w.inputs, old.inputs), shapes |-> Passed(w.shapes, old.shapes),
         occurrences |-> Null]
  BY DEF PartEntry, old
<1> QED BY <1>3, <1>4 DEF Entries, IsPart

LEMMA SetPartHolds ==
  ASSUME Sound, NEW id \in PartIds, NEW w \in Wirings, NEW text \in DOMAIN Shows,
         SetPart(id, text, w)
  PROVE  Sound'
<1> DEFINE mid == [live EXCEPT !.parts[id] = text]
           entry == PartEntry(id, w)
           new == Upsert(mid, entry)
<1>1. /\ entry \in Entries /\ entry.id = id /\ IsPart(entry) /\ entry.occurrences = Null
  BY PartEntryHolds
<1>2. /\ live \in Trees /\ IdsApart(live) /\ TreeSound(live) /\ AttachFirst(live, rewired)
      /\ memory.value \in Values
  BY LiveSound
<1>3. live.parts \in Sources /\ live.nodes \in [PartIds -> Nodes \cup {Null}] BY <1>2 DEF Trees
<1>4. /\ mid \in Trees /\ mid.children = live.children /\ mid.nodes = live.nodes
      /\ mid.imports = live.imports /\ mid.assets = live.assets
      /\ mid.parts = [live.parts EXCEPT ![id] = text]
  BY <1>2 DEF Trees, Sources
<1> HIDE DEF mid, entry
<1>5. CASE Loads(live) /\ (Has(live, id) => IsPart(Child(live, id)))
  <2>1. Edit /\ Build(new, memory.value) BY <1>5 DEF SetPart, mid, entry
  <2>2. /\ \A k \in PartIds \ {id} : mid.parts[k] = live.parts[k] /\ mid.nodes[k] = live.nodes[k]
        /\ mid.parts[id] # Null
    BY <1>3, <1>4, ComposeAssumption DEF Sources
  <2>3. mid.nodes[id] = Null
    <3>1. live.nodes[id] # Null <=> (Has(live, id) /\ ~IsPart(Child(live, id)))
      BY <1>2 DEF TreeSound, Sourced
    <3> HIDE DEF IsPart
    <3> QED BY <1>4, <1>5, <3>1
  <2>4. TreeSound(new)
    <3>1. mid.parts[entry.id] # Null <=> IsPart(entry) BY <1>1, <2>2
    <3>2. mid.nodes[entry.id] # Null <=> ~IsPart(entry) BY <1>1, <2>3
    <3>3. \A k \in PartIds \ {entry.id} : mid.parts[k] = live.parts[k] /\ mid.nodes[k] = live.nodes[k]
      BY <1>1, <2>2
    <3> HIDE DEF new, IsPart
    <3> QED BY <1>1, <1>2, <1>4, <3>1, <3>2, <3>3, UpsertSourced DEF new
  <2>5. IdsApart(mid) /\ AttachFirst(mid, rewired) BY <1>2, <1>4 DEF IdsApart, AttachFirst
  <2>6. AttachFirst(new, rewired) BY <1>1, <1>4, <2>5, UpsertAttach
  <2>7. new.imports = live.imports /\ new.assets = live.assets
    <3>1. new = [mid EXCEPT !.children = new.children] BY <1>1, <1>4, <2>5, UpsertHolds
    <3> HIDE DEF new
    <3> QED BY <1>4, <3>1 DEF Trees
  <2>8. Candidate(new) BY <2>4, <2>6, <2>7 DEF Candidate
  <2> HIDE DEF new
  <2> QED BY <1>2, <2>1, <2>8, BuildHolds
<1>6. CASE ~(Loads(live) /\ (Has(live, id) => IsPart(Child(live, id))))
  <2>1. Edit /\ Refuse BY <1>6 DEF SetPart
  <2> QED BY <2>1, RefuseHolds
<1> QED BY <1>5, <1>6

\* An entry that is changed in place.
LEMMA RewiredCandidate ==
  ASSUME Sound, NEW c \in ToSet(live.children), NEW entry \in Entries,
         entry.id = c.id, entry.kind = c.kind,
         entry.id \notin rewired /\ entry.occurrences # Null =>
           entry.attach = entry.occurrences[1].frame
  PROVE  Candidate(Upsert(live, entry))
<1> DEFINE new == Upsert(live, entry)
<1>1. live \in Trees /\ IdsApart(live) /\ TreeSound(live) /\ AttachFirst(live, rewired) BY LiveSound
<1>2. TreeSound(new) BY <1>1, RewiredSound
<1>3. AttachFirst(new, rewired) BY <1>1, UpsertAttach
<1>4. new = [live EXCEPT !.children = new.children] BY <1>1, UpsertHolds
<1>5. new.imports = live.imports /\ new.assets = live.assets
  <2> HIDE DEF new
  <2> QED BY <1>1, <1>4 DEF Trees
<1> QED BY <1>2, <1>3, <1>5 DEF Candidate

LEMMA AttachHolds ==
  ASSUME Sound, NEW id \in PartIds, NEW f \in Names \cup {Null}, Attach(id, f)
  PROVE  Sound'
<1> DEFINE c == Child(live, id)
           entry == Reattached(c, f)
<1>1. CASE Loads(live) /\ Has(live, id)
  <2>1. Edit /\ Rewire(id, entry) BY <1>1 DEF Attach
  <2>2. c \in ToSet(live.children) /\ c.id = id /\ c \in Entries BY <1>1, LiveSound
  <2> DEFINE occs == c.occurrences
  <2> HIDE DEF c
  <2>3. occs = Null \/ (occs \in Seq(Places) /\ occs # <<>>)
    <3>1. PICK i \in DOMAIN live.children : live.children[i] = c BY <2>2 DEF ToSet
    <3>2. occs # Null => occs # <<>> BY <1>1, <3>1 DEF Loads
    <3> QED BY <2>2, <3>2 DEF Entries
  <2>4. /\ entry \in Entries /\ entry.id = c.id /\ entry.kind = c.kind
        /\ entry.occurrences # Null => entry.attach = entry.occurrences[1].frame
    <3>1. CASE occs = Null
      <4>1. entry = [c EXCEPT !.attach = f, !.occurrences = occs] BY <3>1 DEF Reattached
      <4> QED BY <2>2, <3>1, <4>1 DEF Entries
    <3>2. CASE occs # Null
      <4> DEFINE moved == [occs EXCEPT ![1].frame = f]
      <4>1. entry = [c EXCEPT !.attach = f, !.occurrences = moved] BY <3>2 DEF Reattached
      <4>2. occs \in Seq(Places) /\ 1 \in DOMAIN occs BY <2>3, <3>2
      <4>3. [occs[1] EXCEPT !.frame = f] \in Places /\ [occs[1] EXCEPT !.frame = f].frame = f
        <5>1. occs[1] \in Places BY <4>2
        <5> QED BY <5>1 DEF Places
      <4>4. moved \in Seq(Places) /\ moved[1].frame = f
        <5>1. moved = [occs EXCEPT ![1] = [occs[1] EXCEPT !.frame = f]] OBVIOUS
        <5> HIDE DEF moved, occs
        <5>2. \A p \in Places : [occs EXCEPT ![1] = p] \in Seq(Places) /\ [occs EXCEPT ![1] = p][1] = p
          BY <4>2
        <5> QED BY <4>3, <5>1, <5>2
      <4> HIDE DEF moved
      <4> QED BY <2>2, <4>1, <4>4 DEF Entries
    <3> QED BY <3>1, <3>2
  <2> HIDE DEF entry
  <2>5. Candidate(Upsert(live, entry)) BY <2>2, <2>4, RewiredCandidate
  <2> QED BY <2>1, <2>5, RewireHolds
<1>2. CASE ~(Loads(live) /\ Has(live, id))
  <2>1. Edit /\ Refuse BY <1>2 DEF Attach
  <2> QED BY <2>1, RefuseHolds
<1> QED BY <1>1, <1>2

LEMMA SetInputsHolds ==
  ASSUME Sound, NEW id \in PartIds, NEW names \in SUBSET Names, SetInputs(id, names)
  PROVE  Sound'
<1> DEFINE c == Child(live, id)
           entry == [c EXCEPT !.inputs = names]
<1>1. CASE Loads(live) /\ Has(live, id)
  <2>1. Edit /\ Rewire(id, entry) BY <1>1 DEF SetInputs
  <2>2. c \in ToSet(live.children) /\ c.id = id /\ c \in Entries BY <1>1, LiveSound
  <2>3. AttachFirst(live, rewired) BY LiveSound
  <2> HIDE DEF c
  <2>4. /\ entry \in Entries /\ entry.id = c.id /\ entry.kind = c.kind
        /\ entry.attach = c.attach /\ entry.occurrences = c.occurrences
    BY <2>2 DEF Entries
  <2>5. c.id \notin rewired /\ c.occurrences # Null => c.attach = c.occurrences[1].frame
    BY <2>2, <2>3 DEF AttachFirst
  <2> HIDE DEF entry
  <2>6. Candidate(Upsert(live, entry)) BY <2>2, <2>4, <2>5, RewiredCandidate
  <2> QED BY <2>1, <2>6, RewireHolds
<1>2. CASE ~(Loads(live) /\ Has(live, id))
  <2>1. Edit /\ Refuse BY <1>2 DEF SetInputs
  <2> QED BY <2>1, RefuseHolds
<1> QED BY <1>1, <1>2

LEMMA SetOccurrencesHolds ==
  ASSUME Sound, NEW id \in PartIds, NEW list \in Lists, SetOccurrences(id, list)
  PROVE  Sound'
<1> DEFINE c == Child(live, id)
           entry == [c EXCEPT !.occurrences = list, !.attach = list[1].frame]
<1>1. CASE ListAccepted(list) /\ Loads(live) /\ Has(live, id)
  <2>1. Edit /\ Rewire(id, entry) BY <1>1 DEF SetOccurrences
  <2>2. c \in ToSet(live.children) /\ c.id = id /\ c \in Entries BY <1>1, LiveSound
  <2> HIDE DEF c
  <2>3. list \in Seq(Places) /\ list # <<>> BY <1>1, CallsAssumption DEF ListAccepted
  <2>4. list[1].frame \in Names \cup {Null}
    <3>1. list[1] \in Places BY <2>3
    <3> QED BY <3>1 DEF Places
  <2>5. /\ entry \in Entries /\ entry.id = c.id /\ entry.kind = c.kind
        /\ entry.attach = list[1].frame /\ entry.occurrences = list
    BY <2>2, <2>3, <2>4 DEF Entries
  <2> HIDE DEF entry
  <2>6. Candidate(Upsert(live, entry)) BY <2>2, <2>5, RewiredCandidate
  <2> QED BY <2>1, <2>6, RewireHolds
<1>2. CASE ~(ListAccepted(list) /\ Loads(live) /\ Has(live, id))
  <2>1. Edit /\ Refuse BY <1>2 DEF SetOccurrences
  <2> QED BY <2>1, RefuseHolds
<1> QED BY <1>1, <1>2

LEMMA RemovePartHolds ==
  ASSUME Sound, NEW id \in PartIds, RemovePart(id)
  PROVE  Sound'
<1> DEFINE new == Deleted(live, id)
<1>1. CASE Loads(live) /\ Has(live, id)
  <2>1. Edit /\ RebuildAfter(new, memory.value) BY <1>1 DEF RemovePart
  <2>2. TreeSound(live) /\ AttachFirst(live, rewired) /\ memory.value \in Values BY LiveSound
  <2>3. /\ TreeSound(new) /\ ToSet(new.children) = {c \in ToSet(live.children) : c.id # id}
        /\ new.imports = live.imports /\ new.assets = live.assets
    BY <1>1, <2>2, DeletedSound
  <2> HIDE DEF new
  <2>4. AttachFirst(new, rewired) BY <2>2, <2>3 DEF AttachFirst
  <2>5. Candidate(new) BY <2>3, <2>4 DEF Candidate
  <2> QED BY <2>1, <2>2, <2>5, RebuildHolds
<1>2. CASE ~(Loads(live) /\ Has(live, id))
  <2>1. Edit /\ Refuse BY <1>2 DEF RemovePart
  <2> QED BY <2>1, RefuseHolds
<1> QED BY <1>1, <1>2

LEMMA AddSubassemblyHolds ==
  ASSUME Sound, NEW id \in PartIds, NEW w \in Wirings, AddSubassembly(id, w)
  PROVE  Sound'
<1> DEFINE node == Passed(live.nodes[id], EmptyNode)
           mid == [live EXCEPT !.nodes[id] = node]
           entry == [id |-> id, kind |-> "assembly", attach |-> w.attach, shapes |-> {},
                     inputs |-> Passed(w.inputs, {}), occurrences |-> Null]
           new == Upsert(mid, entry)
<1>1. /\ live \in Trees /\ IdsApart(live) /\ TreeSound(live) /\ AttachFirst(live, rewired)
      /\ memory.value \in Values
  BY LiveSound
<1>2. live.parts \in Sources /\ live.nodes \in [PartIds -> Nodes \cup {Null}] BY <1>1 DEF Trees
<1>3. node \in Nodes /\ node # Null
  <2>1. EmptyNode \in Nodes BY DEF EmptyNode, Nodes, Sources
  <2> QED BY <1>2, <2>1, CallsAssumption DEF Passed
<1>4. entry \in Entries /\ entry.id = id /\ ~IsPart(entry) /\ entry.occurrences = Null
  <2>1. w.attach \in Names \cup {Null} /\ w.inputs \in {Null} \cup SUBSET Names BY CallsAssumption
  <2>2. Passed(w.inputs, {}) \in SUBSET Names BY <2>1 DEF Passed
  <2> QED BY <2>1, <2>2 DEF Entries, IsPart
<1> HIDE DEF node, entry
<1>5. /\ mid \in Trees /\ mid.children = live.children /\ mid.parts = live.parts
      /\ mid.imports = live.imports /\ mid.assets = live.assets
      /\ mid.nodes = [live.nodes EXCEPT ![id] = node]
  BY <1>1, <1>3 DEF Trees
<1>6. CASE Loads(live) /\ (Has(live, id) => ~IsPart(Child(live, id)))
  <2>1. Edit /\ RebuildAfter(new, memory.value)
    <3>1. [live EXCEPT !.nodes[id] = Passed(@, EmptyNode)] = mid BY DEF node
    <3> QED BY <1>6, <3>1 DEF AddSubassembly, entry
  <2> HIDE DEF mid
  <2>2. /\ \A k \in PartIds \ {id} : mid.parts[k] = live.parts[k] /\ mid.nodes[k] = live.nodes[k]
        /\ mid.nodes[id] # Null
    BY <1>2, <1>3, <1>5
  <2>3. mid.parts[id] = Null
    <3>1. live.parts[id] # Null <=> (Has(live, id) /\ IsPart(Child(live, id)))
      BY <1>1 DEF TreeSound, Sourced
    <3> HIDE DEF IsPart
    <3> QED BY <1>5, <1>6, <3>1
  <2>4. TreeSound(new)
    <3>1. mid.parts[entry.id] # Null <=> IsPart(entry) BY <1>4, <2>3
    <3>2. mid.nodes[entry.id] # Null <=> ~IsPart(entry) BY <1>4, <2>2
    <3>3. \A k \in PartIds \ {entry.id} : mid.parts[k] = live.parts[k] /\ mid.nodes[k] = live.nodes[k]
      BY <1>4, <2>2
    <3>4. entry \in Entries /\ mid \in Trees /\ TreeSound(live) /\ mid.children = live.children
      BY <1>4, <1>1, <1>5
    <3> HIDE DEF new, IsPart, entry
    <3>5. TreeSound(Upsert(mid, entry))
      BY ONLY <3>1, <3>2, <3>3, <3>4, UpsertSourced, ZenonT(30)
    <3> QED BY <3>5 DEF new
  <2>5. IdsApart(mid) /\ AttachFirst(mid, rewired) BY <1>1, <1>5 DEF IdsApart, AttachFirst
  <2>6. AttachFirst(new, rewired) BY <1>4, <1>5, <2>5, UpsertAttach
  <2>7. new.imports = live.imports /\ new.assets = live.assets
    <3>1. new = [mid EXCEPT !.children = new.children] BY <1>4, <1>5, <2>5, UpsertHolds
    <3> HIDE DEF new
    <3> QED BY <1>5, <3>1 DEF Trees
  <2>8. Candidate(new) BY <2>4, <2>6, <2>7 DEF Candidate
  <2> HIDE DEF new
  <2> QED BY <1>1, <2>1, <2>8, RebuildHolds
<1>7. CASE ~(Loads(live) /\ (Has(live, id) => ~IsPart(Child(live, id))))
  <2>1. Edit /\ Refuse BY <1>7 DEF AddSubassembly
  <2> QED BY <2>1, RefuseHolds
<1> QED BY <1>6, <1>7

LEMMA SetParamsHolds ==
  ASSUME Sound, NEW v \in Values, SetParams(v)
  PROVE  Sound'
BY LiveIsCandidate, BuildHolds DEF SetParams

-----------------------------------------------------------------------------
(* Imports and edits by hand keep the invariant *)

\* What a build makes does not depend on the imports.
LEMMA SameSources ==
  ASSUME NEW a, NEW b, NEW v, a.skeleton = b.skeleton, a.children = b.children,
         a.parts = b.parts, a.nodes = b.nodes
  PROVE  Objects(a, v) = Objects(b, v) /\ (Builds(a, v) <=> Builds(b, v))
<1>1. Builds(a, v) <=> Builds(b, v)
  BY DEF Builds, NodeWired, PartsBuild, Loads, Wired, Skeleton, PartBuilds
<1>2. Objects(a, v) = Objects(b, v)
  BY DEF Objects, NodeObjects, PartObjects, Skeleton
<1> QED BY <1>1, <1>2

LEMMA StageImportHolds ==
  ASSUME Sound, NEW stem \in DOMAIN Cad, StageImport(stem)
  PROVE  Sound'
<1> DEFINE new == [live EXCEPT !.assets = Staged(@, stem)]
<1>1. /\ Edit /\ live' = new /\ selected' = selected /\ memory' = memory /\ stray' = stray
  BY DEF StageImport
<1>2. rewired' = rewired /\ edits' \in 0 .. MaxEdits BY <1>1, EditCounts
<1>3. live \in Trees /\ IdsApart(live) /\ TreeSound(live) /\ AttachFirst(live, rewired) BY LiveSound
<1>4. new \in Trees /\ ImportsSound(new) /\ IsFiniteSet(new.assets)
  BY <1>3, StagedHolds DEF Sound, FilesSound
<1>5. /\ new.skeleton = live.skeleton /\ new.children = live.children /\ new.parts = live.parts
      /\ new.nodes = live.nodes /\ new.imports = live.imports
  BY <1>3 DEF Trees
<1> HIDE DEF new
<1>6. IdsApart(new) /\ AttachFirst(new, rewired) BY <1>3, <1>5 DEF IdsApart, AttachFirst
<1>7. Sourced(new) BY <1>3, <1>5, <1>6, SourcedByChildren DEF TreeSound
<1>8. FilesSound' BY <1>1, <1>2, <1>4, <1>6, <1>7 DEF FilesSound, TreeSound
<1>9. /\ Objects(new, memory.value) = Objects(live, memory.value)
      /\ Builds(new, memory.value) <=> Builds(live, memory.value)
  BY <1>5, SameSources
<1>10. ModelIsItsFiles' BY <1>1, <1>9 DEF Sound, SessionSound, ModelIsItsFiles
<1>11. StatusIsManifest' BY <1>1, <1>5 DEF Sound, SessionSound, StatusIsManifest
<1>12. SessionSound' BY <1>1, <1>9, <1>10, <1>11 DEF Sound, SessionSound
<1>13. CountsSound' BY <1>1, <1>2 DEF Sound, CountsSound
<1> QED BY <1>8, <1>12, <1>13 DEF Sound

LEMMA RerenderHolds ==
  ASSUME Sound, Edit, NEW tree, TreeSound(tree), AttachFirst(tree, rewired), ImportsSound(tree),
         IsFiniteSet(tree.assets), Rerender(tree)
  PROVE  Sound'
<1> DEFINE objects == ReferenceObjects(tree.imports)
<1>1. CASE objects = <<>>
  <2>1. Refuse BY <1>1 DEF Rerender
  <2> QED BY <2>1, RefuseHolds
<1>2. CASE objects # <<>>
  <2>1. /\ live' = tree /\ selected' = [tree |-> tree, objects |-> objects]
        /\ memory' = [memory EXCEPT !.objects = objects, !.composed = FALSE,
                                    !.status = StatusOf(tree.imports)]
        /\ stray' = stray
    BY <1>2 DEF Rerender
  <2> HIDE DEF objects
  <2>2. DOMAIN memory = {"value", "objects", "composed", "status"} BY DEF Sound, SessionSound
  <2>3. /\ DOMAIN memory' = {"value", "objects", "composed", "status"}
        /\ memory'.value = memory.value /\ memory'.composed = FALSE
        /\ memory'.objects = objects /\ memory'.status = StatusOf(tree.imports)
    BY <2>1, <2>2
  <2>4. rewired' = rewired /\ edits' \in 0 .. MaxEdits BY EditCounts
  <2>5. FilesSound' BY <2>1, <2>4 DEF FilesSound
  <2>6. DOMAIN selected' = {"tree", "objects"} /\ selected'.tree = tree BY <2>1
  <2>7. ModelIsItsFiles' BY <2>3 DEF ModelIsItsFiles
  <2>8. StatusIsManifest' BY <2>1, <2>3 DEF StatusIsManifest
  <2>9. SessionSound'
    <3>1. tree.imports \in Seq(ImportEntries) BY DEF TreeSound, Trees
    <3>2. Origin(objects) BY <3>1 DEF Origin, objects
    <3> QED BY <2>3, <2>6, <2>7, <2>8, <3>2 DEF Sound, SessionSound
  <2>10. CountsSound' BY <2>1, <2>4 DEF Sound, CountsSound
  <2> QED BY <2>5, <2>9, <2>10 DEF Sound
<1> QED BY <1>1, <1>2

\* A tree with the manifest and the sources of a sound one.
LEMMA SameManifest ==
  ASSUME NEW a, TreeSound(a), NEW b \in Trees, b.children = a.children, b.parts = a.parts,
         b.nodes = a.nodes, NEW others, AttachFirst(a, others)
  PROVE  TreeSound(b) /\ AttachFirst(b, others)
<1>1. IdsApart(b) /\ AttachFirst(b, others) BY DEF TreeSound, IdsApart, AttachFirst
<1>2. Sourced(b) BY <1>1, SourcedByChildren DEF TreeSound
<1> QED BY <1>1, <1>2 DEF TreeSound

LEMMA ImportReferenceHolds ==
  ASSUME Sound, NEW stem \in DOMAIN Cad, NEW required \in BOOLEAN, ImportReference(stem, required)
  PROVE  Sound'
<1> DEFINE new == [live EXCEPT !.assets = Staged(@, stem),
                               !.imports = Added(@, live.assets, stem, required)]
<1>1. Edit BY DEF ImportReference
<1>2. live \in Trees /\ TreeSound(live) /\ AttachFirst(live, rewired) BY LiveSound
<1>3. new \in Trees /\ ImportsSound(new) /\ IsFiniteSet(new.assets)
  BY <1>2, AddedHolds DEF Sound, FilesSound
<1>4. new.children = live.children /\ new.parts = live.parts /\ new.nodes = live.nodes
  BY <1>2 DEF Trees
<1>5. Rerender(new) \/ Refuse BY DEF ImportReference
<1> HIDE DEF new
<1>6. TreeSound(new) /\ AttachFirst(new, rewired) BY <1>2, <1>3, <1>4, SameManifest
<1> QED BY <1>1, <1>3, <1>5, <1>6, RerenderHolds, RefuseHolds

LEMMA RemoveImportHolds ==
  ASSUME Sound, NEW id, RemoveImport(id)
  PROVE  Sound'
<1> DEFINE new == [live EXCEPT !.imports = Removed(@, id)]
<1>1. Edit /\ Rerender(new) BY DEF RemoveImport
<1>2. live \in Trees /\ TreeSound(live) /\ AttachFirst(live, rewired) BY LiveSound
<1>3. new \in Trees /\ ImportsSound(new)
  BY <1>2, RemovedHolds DEF Sound, FilesSound
<1>4. /\ new.children = live.children /\ new.parts = live.parts /\ new.nodes = live.nodes
      /\ new.assets = live.assets
  BY <1>2 DEF Trees
<1>5. IsFiniteSet(new.assets) BY <1>4 DEF Sound, FilesSound
<1> HIDE DEF new
<1>6. TreeSound(new) /\ AttachFirst(new, rewired) BY <1>2, <1>3, <1>4, SameManifest
<1> QED BY <1>1, <1>3, <1>5, <1>6, RerenderHolds

\* Files edited by hand: the session is as it was, and no longer held to be theirs.
LEMMA StrayHolds ==
  ASSUME Sound, NEW tree, TreeSound(tree), AttachFirst(tree, rewired'), rewired' \subseteq PartIds,
         tree.imports = live.imports, tree.assets = live.assets, Step, live' = tree, stray' = TRUE,
         selected' = selected, memory' = memory
  PROVE  Sound'
<1>1. edits' \in 0 .. MaxEdits BY AssemblyAssumption DEF Step, Sound, CountsSound
<1>2. FilesSound' BY DEF Sound, FilesSound, ImportsSound
<1>3. ModelIsItsFiles' /\ StatusIsManifest'
  BY DEF Sound, SessionSound, ModelIsItsFiles, StatusIsManifest
<1>4. SessionSound' BY <1>3 DEF Sound, SessionSound
<1>5. CountsSound' BY <1>1 DEF CountsSound
<1> QED BY <1>2, <1>4, <1>5 DEF Sound

\* A wiring written by hand.
LEMMA WiringByHandHolds ==
  ASSUME Sound, NEW c \in ToSet(live.children), NEW entry \in Entries, entry.id = c.id,
         entry.kind = c.kind, rewired' = rewired \cup {c.id}, live' = Upsert(live, entry),
         Step, stray' = TRUE, selected' = selected, memory' = memory
  PROVE  Sound'
<1> DEFINE new == Upsert(live, entry)
<1>1. live \in Trees /\ IdsApart(live) /\ TreeSound(live) /\ AttachFirst(live, rewired) /\ c \in Entries
  BY LiveSound
<1>2. TreeSound(new) BY <1>1, RewiredSound
<1>3. AttachFirst(live, rewired') BY <1>1 DEF AttachFirst
<1>4. AttachFirst(new, rewired') BY <1>1, <1>3, UpsertAttach
<1>5. new = [live EXCEPT !.children = new.children] BY <1>1, UpsertHolds
<1>6. new.imports = live.imports /\ new.assets = live.assets
  <2> HIDE DEF new
  <2> QED BY <1>1, <1>5 DEF Trees
<1>7. rewired' \subseteq PartIds BY <1>1 DEF Sound, CountsSound, Entries
<1> HIDE DEF new
<1>8. live' = new BY DEF new
<1> QED BY <1>2, <1>4, <1>6, <1>7, <1>8, StrayHolds

LEMMA EditSourcesHolds ==
  ASSUME Sound, EditSources, rewired' = rewired, Step, stray' = TRUE, selected' = selected,
         memory' = memory
  PROVE  Sound'
<1>1. live \in Trees /\ IdsApart(live) /\ TreeSound(live) /\ AttachFirst(live, rewired) BY LiveSound
<1>2. rewired' \subseteq PartIds BY DEF Sound, CountsSound
<1>3. live.parts \in Sources /\ live.nodes \in [PartIds -> Nodes \cup {Null}] BY <1>1 DEF Trees
<1>4. CASE live' = [live EXCEPT !.children = Reverse(@)]
  <2> DEFINE new == [live EXCEPT !.children = Reverse(@)]
  <2>1. new \in Trees /\ IdsApart(new) /\ ToSet(new.children) = ToSet(live.children)
    BY <1>1, ReverseHolds
  <2>2. /\ new.parts = live.parts /\ new.nodes = live.nodes /\ new.imports = live.imports
        /\ new.assets = live.assets
    BY <1>1 DEF Trees
  <2> HIDE DEF new
  <2>3. live' = new BY <1>4 DEF new
  <2>4. Sourced(new) BY <1>1, <2>1, <2>2, SourcedByChildren DEF TreeSound
  <2>5. AttachFirst(new, rewired') BY <1>1, <2>1 DEF AttachFirst
  <2> QED BY <1>2, <2>1, <2>2, <2>3, <2>4, <2>5, StrayHolds DEF TreeSound
<1>5. ASSUME NEW c \in ToSet(live.children), NEW text \in DOMAIN Shows, IsPart(c),
             live' = [live EXCEPT !.parts[c.id] = text]
      PROVE  Sound'
  <2> DEFINE new == [live EXCEPT !.parts[c.id] = text]
  <2>1. c \in Entries /\ c.id \in PartIds
    <3>1. c \in Entries BY LiveSound
    <3> QED BY <3>1 DEF Entries
  <2>2. /\ new \in Trees /\ new.children = live.children /\ new.nodes = live.nodes
        /\ new.parts = [live.parts EXCEPT ![c.id] = text]
        /\ new.imports = live.imports /\ new.assets = live.assets
    BY <1>1, <2>1 DEF Trees, Sources
  <2> HIDE DEF new
  <2>3. live' = new BY <1>5 DEF new
  <2>4. IdsApart(new) /\ AttachFirst(new, rewired') BY <1>1, <2>2 DEF IdsApart, AttachFirst
  <2>5. \A id \in PartIds : live.parts[id] # Null <=> new.parts[id] # Null
    <3>1. live.parts[c.id] # Null
      <4> HIDE DEF IsPart
      <4> QED BY <1>1, <1>5, <2>1, SourcedByChildren DEF TreeSound
    <3>2. text # Null BY ComposeAssumption
    <3> QED BY <1>3, <2>1, <2>2, <3>1, <3>2 DEF Sources
  <2>6. Sourced(new)
    <3>1. ASSUME NEW id \in PartIds
          PROVE  /\ new.parts[id] # Null <=> \E d \in ToSet(new.children) : d.id = id /\ IsPart(d)
                 /\ new.nodes[id] # Null <=> \E d \in ToSet(new.children) : d.id = id /\ ~IsPart(d)
      <4> HIDE DEF IsPart
      <4> QED BY <1>1, <2>2, <2>5, SourcedByChildren DEF TreeSound
    <3> HIDE DEF IsPart
    <3> QED BY <2>4, <3>1, SourcedByChildren
  <2> QED BY <1>2, <2>2, <2>3, <2>4, <2>6, StrayHolds DEF TreeSound
<1>6. ASSUME NEW c \in ToSet(live.children), NEW node \in NodesByHand, ~IsPart(c),
             live' = [live EXCEPT !.nodes[c.id] = node]
      PROVE  Sound'
  <2> DEFINE new == [live EXCEPT !.nodes[c.id] = node]
  <2>1. c \in Entries /\ c.id \in PartIds
    <3>1. c \in Entries BY LiveSound
    <3> QED BY <3>1 DEF Entries
  <2>2. node \in Nodes /\ node # Null BY CallsAssumption
  <2>3. /\ new \in Trees /\ new.children = live.children /\ new.parts = live.parts
        /\ new.nodes = [live.nodes EXCEPT ![c.id] = node]
        /\ new.imports = live.imports /\ new.assets = live.assets
    BY <1>1, <2>1, <2>2 DEF Trees
  <2> HIDE DEF new
  <2>4. live' = new BY <1>6 DEF new
  <2>5. IdsApart(new) /\ AttachFirst(new, rewired') BY <1>1, <2>3 DEF IdsApart, AttachFirst
  <2>6. \A id \in PartIds : live.nodes[id] # Null <=> new.nodes[id] # Null
    <3>1. live.nodes[c.id] # Null
      <4> HIDE DEF IsPart
      <4> QED BY <1>1, <1>6, <2>1, SourcedByChildren DEF TreeSound
    <3> QED BY <1>3, <2>1, <2>2, <2>3, <3>1
  <2>7. Sourced(new)
    <3>1. ASSUME NEW id \in PartIds
          PROVE  /\ new.parts[id] # Null <=> \E d \in ToSet(new.children) : d.id = id /\ IsPart(d)
                 /\ new.nodes[id] # Null <=> \E d \in ToSet(new.children) : d.id = id /\ ~IsPart(d)
      <4> HIDE DEF IsPart
      <4> QED BY <1>1, <2>3, <2>6, SourcedByChildren DEF TreeSound
    <3> HIDE DEF IsPart
    <3> QED BY <2>5, <3>1, SourcedByChildren
  <2> QED BY <1>2, <2>3, <2>4, <2>5, <2>7, StrayHolds DEF TreeSound
<1> HIDE DEF IsPart
<1> QED BY <1>4, <1>5, <1>6 DEF EditSources

LEMMA EditByHandHolds ==
  ASSUME Sound, EditByHand
  PROVE  Sound'
<1>1. Step /\ stray' = TRUE /\ selected' = selected /\ memory' = memory BY DEF EditByHand
<1>2. \A c \in ToSet(live.children) : c \in Entries BY LiveSound
<1>3. ASSUME NEW c \in ToSet(live.children), NEW list \in Lists, rewired' = rewired \cup {c.id},
             live' = Upsert(live, [c EXCEPT !.occurrences = list])
      PROVE  Sound'
  <2> DEFINE entry == [c EXCEPT !.occurrences = list]
  <2>1. entry \in Entries /\ entry.id = c.id /\ entry.kind = c.kind
    BY <1>2, CallsAssumption DEF Entries
  <2>2. live' = Upsert(live, entry) BY <1>3
  <2> HIDE DEF entry
  <2> QED BY <1>1, <1>3, <2>1, <2>2, WiringByHandHolds
<1>4. ASSUME NEW c \in ToSet(live.children), NEW w \in Wirings, rewired' = rewired \cup {c.id},
             live' = Upsert(live, [c EXCEPT !.attach = w.attach, !.inputs = Passed(w.inputs, @),
                                           !.shapes = Passed(w.shapes, @)])
      PROVE  Sound'
  <2> DEFINE entry == [c EXCEPT !.attach = w.attach, !.inputs = Passed(w.inputs, @),
                                !.shapes = Passed(w.shapes, @)]
  <2>1. /\ w.attach \in Names \cup {Null} /\ w.inputs \in {Null} \cup SUBSET Names
        /\ w.shapes \in {Null} \cup SUBSET Names
    BY CallsAssumption
  <2>2. c \in Entries BY <1>2
  <2>3. Passed(w.inputs, c.inputs) \in SUBSET Names /\ Passed(w.shapes, c.shapes) \in SUBSET Names
    BY <2>1, <2>2 DEF Passed, Entries
  <2>4. entry = [c EXCEPT !.attach = w.attach, !.inputs = Passed(w.inputs, c.inputs),
                          !.shapes = Passed(w.shapes, c.shapes)]
    BY <2>2 DEF Entries
  <2>5. live' = Upsert(live, entry) BY <1>4
  <2> HIDE DEF entry
  <2>6. entry \in Entries /\ entry.id = c.id /\ entry.kind = c.kind
    BY <2>1, <2>2, <2>3, <2>4 DEF Entries
  <2> QED BY <1>1, <1>4, <2>5, <2>6, WiringByHandHolds
<1>5. CASE EditSources /\ rewired' = rewired BY <1>1, <1>5, EditSourcesHolds
<1> QED BY <1>3, <1>4, <1>5 DEF EditByHand

-----------------------------------------------------------------------------
(* The invariant, and the first three theorems *)

LEMMA StepsSound ==
  ASSUME Sound, [Next]_vars
  PROVE  Sound'
<1>1. ASSUME NEW s \in Skeletons, SetSkeleton(s) PROVE Sound' BY <1>1, SetSkeletonHolds
<1>2. ASSUME NEW id \in PartIds, NEW w \in Wirings, NEW text \in DOMAIN Shows, SetPart(id, text, w)
      PROVE  Sound'
  BY <1>2, SetPartHolds
<1>3. ASSUME NEW id \in PartIds, NEW w \in Wirings, AddSubassembly(id, w) PROVE Sound'
  BY <1>3, AddSubassemblyHolds
<1>4. ASSUME NEW id \in PartIds, RemovePart(id) PROVE Sound' BY <1>4, RemovePartHolds
<1>5. ASSUME NEW id \in PartIds, NEW f \in Names \cup {Null}, Attach(id, f) PROVE Sound'
  BY <1>5, AttachHolds
<1>6. ASSUME NEW id \in PartIds, NEW w \in Wirings, w.inputs # Null, SetInputs(id, w.inputs)
      PROVE  Sound'
  <2>1. w.inputs \in SUBSET Names BY <1>6, CallsAssumption
  <2> QED BY <1>6, <2>1, SetInputsHolds
<1>7. ASSUME NEW id \in PartIds, NEW list \in Lists, SetOccurrences(id, list) PROVE Sound'
  BY <1>7, SetOccurrencesHolds
<1>8. ASSUME NEW v \in Values, SetParams(v) PROVE Sound' BY <1>8, SetParamsHolds
<1>9. ASSUME NEW stem \in DOMAIN Cad, StageImport(stem) PROVE Sound' BY <1>9, StageImportHolds
<1>10. ASSUME NEW stem \in DOMAIN Cad, NEW r \in BOOLEAN, ImportReference(stem, r) PROVE Sound'
  BY <1>10, ImportReferenceHolds
<1>11. ASSUME NEW i \in DOMAIN live.imports, RemoveImport(live.imports[i].id) PROVE Sound'
  BY <1>11, RemoveImportHolds
<1>12. CASE EditByHand BY <1>12, EditByHandHolds
<1>13. CASE UNCHANGED vars
  <2>1. /\ live' = live /\ selected' = selected /\ memory' = memory /\ stray' = stray
        /\ rewired' = rewired /\ edits' = edits
    BY <1>13 DEF vars
  <2>2. FilesSound' BY <2>1 DEF Sound, FilesSound
  <2>3. SessionSound' BY <2>1 DEF Sound, SessionSound, ModelIsItsFiles, StatusIsManifest
  <2>4. CountsSound' BY <2>1 DEF Sound, CountsSound
  <2> QED BY <2>2, <2>3, <2>4 DEF Sound
<1> QED
  BY <1>1, <1>2, <1>3, <1>4, <1>5, <1>6, <1>7, <1>8, <1>9, <1>10, <1>11, <1>12, <1>13 DEF Next

\* The files and the session are sound in every state.
THEOREM AlwaysSound == Spec => []Sound
<1>1. Init => Sound BY OpensSound
<1>2. Sound /\ [Next]_vars => Sound' BY StepsSound
<1> QED BY <1>1, <1>2, PTL DEF Spec

\* The session says what its files say, whatever the calls and whichever of them
\* fail: the objects it measures are those that it published, and they are what
\* the files compose to.
THEOREM Session == Spec => []SessionIsItsFiles
<1>1. Sound => SessionIsItsFiles BY SoundGives
<1> QED BY <1>1, AlwaysSound, PTL

\* The manifests stay sound: the wiring of an entry in step with its
\* occurrences, entries and sources one to one, imports with ids and files of
\* their own.
THEOREM Manifests == Spec => []ManifestsSound
<1>1. Sound => ManifestsSound BY SoundGives
<1> QED BY <1>1, AlwaysSound, PTL

-----------------------------------------------------------------------------
(* What a build makes, child by child *)

\* The objects of a child at each of its occurrences.
Row(c, objects, skel, e) ==
  FlattenSeq([k \in DOMAIN Effective(c) |->
                Place(objects, Prefix(c.id, k), Where(skel, e, Effective(c)[k]))])

\* The objects of a node of parts.
PartRows(node, e) ==
  FlattenSeq([i \in DOMAIN node.children |->
                Row(node.children[i], PartObjects(node, node.children[i], e), Skeleton(node), e)])

\* The objects that a child of the root is made of.
Made(tree, v, c) ==
  IF IsPart(c) THEN PartObjects(tree, c, v) ELSE PartRows(tree.nodes[c.id], ValueBelow(c, v))

LEMMA ObjectsByRows ==
  ASSUME NEW tree, NEW v
  PROVE  Objects(tree, v) =
           FlattenSeq([i \in DOMAIN tree.children |->
                         Row(tree.children[i], Made(tree, v, tree.children[i]), Skeleton(tree), v)])
BY DEF Objects, NodeObjects, Row, PartRows, Made

-----------------------------------------------------------------------------
(* The exported flat model *)

\* The texts of an exported node, by id.
SourcesOf(spec) ==
  [parts |-> [id \in {c.id : c \in ToSet(spec.children)} |->
                (CHOOSE c \in ToSet(spec.children) : c.id = id).src]]

\* The same three, of a run of the template.
FlatPlaced(objects, id, k, where) ==
  [j \in DOMAIN objects |->
     [objects[j] EXCEPT !.name = <<IF k = 1 THEN id ELSE id \o <<"@", Numeral(k)>> >> \o @,
                        !.at = <<where>> \o @]]
FlatRow(f, objects, skel, e) ==
  FlattenSeq([k \in DOMAIN f.occurrences |->
                FlatPlaced(objects, f.id, k, Where(skel, e, f.occurrences[k]))])
FlatPartRows(spec, e) ==
  FlattenSeq([i \in DOMAIN spec.children |->
                FlatRow(spec.children[i], PartObjects(SourcesOf(spec), spec.children[i], e),
                        Skeleton(spec), e)])
FlatMade(flat, f) ==
  IF IsPart(f) THEN PartObjects(SourcesOf(flat.root), f, flat.value)
  ELSE FlatPartRows(flat.nodes[f.id], ValueBelow(f, flat.value))

LEMMA FlatByRows ==
  ASSUME NEW flat
  PROVE  FlatRun(flat) =
           FlattenSeq([i \in DOMAIN flat.root.children |->
                         FlatRow(flat.root.children[i], FlatMade(flat, flat.root.children[i]),
                                 Skeleton(flat.root), flat.value)])
BY DEF FlatRun, FlatNode, SourcesOf, FlatPlaced, FlatRow, FlatPartRows, FlatMade

\* A child that the template places is placed as the composition places it.
LEMMA RowsAgree ==
  ASSUME NEW f, NEW c, f.id = c.id, f.occurrences = Effective(c), NEW objects, NEW skel, NEW e
  PROVE  FlatRow(f, objects, skel, e) = Row(c, objects, skel, e)
<1>1. \A k : FlatPlaced(objects, c.id, k, Where(skel, e, Effective(c)[k]))
             = Place(objects, Prefix(c.id, k), Where(skel, e, Effective(c)[k]))
  BY DEF FlatPlaced, Place, Prefix
<1> QED BY <1>1 DEF FlatRow, Row

\* What the export knows of a child is what its objects are made of.
LEMMA FlatChild ==
  ASSUME NEW node, NEW i \in DOMAIN node.children, NEW e
  PROVE  LET c == node.children[i]
             f == Collect(node).children[i]
         IN /\ f.id = c.id /\ f.occurrences = Effective(c)
            /\ IsPart(f) <=> IsPart(c)
            /\ ValueBelow(f, e) = ValueBelow(c, e)
            /\ PartObjects(SourcesOf(Collect(node)), f, e) = PartObjects(node, c, e)
<1> DEFINE c == node.children[i]
           spec == Collect(node)
           f == spec.children[i]
           S == ToSet(spec.children)
<1>1. /\ f.id = c.id /\ f.kind = c.kind /\ f.inputs = c.inputs /\ f.shapes = c.shapes
      /\ f.occurrences = Effective(c)
  BY DEF Collect, FlatPart
<1>2. f \in S BY DEF Collect, ToSet
<1>3. ASSUME NEW d \in S PROVE d.src = node.parts[d.id]
  <2>1. PICK j \in DOMAIN node.children : d = FlatPart(node, node.children[j])
    BY DEF Collect, ToSet
  <2> QED BY <2>1 DEF FlatPart
<1> HIDE DEF f, spec, c, S
<1>4. SourcesOf(spec).parts[c.id] = node.parts[c.id]
  <2>1. (CHOOSE d \in S : d.id = c.id) \in S /\ (CHOOSE d \in S : d.id = c.id).id = c.id
    BY <1>1, <1>2
  <2>2. SourcesOf(spec).parts[c.id] = (CHOOSE d \in S : d.id = c.id).src
    <3>1. c.id \in {d.id : d \in S} BY <1>1, <1>2
    <3> QED BY <3>1 DEF SourcesOf, S
  <2> QED BY <1>3, <2>1, <2>2
<1>5. ValueBelow(f, e) = ValueBelow(c, e) BY <1>1 DEF ValueBelow
<1>6. PartObjects(SourcesOf(spec), f, e) = PartObjects(node, c, e)
  BY <1>1, <1>4, <1>5 DEF PartObjects
<1>7. IsPart(f) <=> IsPart(c) BY <1>1 DEF IsPart
<1> QED BY <1>1, <1>5, <1>6, <1>7 DEF f, spec, c

\* A run of an exported sub-assembly.
LEMMA FlatSubassembly ==
  ASSUME NEW node, NEW e
  PROVE  FlatPartRows(Collect(node), e) = PartRows(node, e)
<1> DEFINE spec == Collect(node)
           flats(i) == FlatRow(spec.children[i], PartObjects(SourcesOf(spec), spec.children[i], e),
                               Skeleton(spec), e)
           owns(i) == Row(node.children[i], PartObjects(node, node.children[i], e),
                          Skeleton(node), e)
<1>1. DOMAIN spec.children = DOMAIN node.children /\ Skeleton(spec) = Skeleton(node)
  BY DEF Collect, Skeleton
<1>2. ASSUME NEW i \in DOMAIN node.children PROVE flats(i) = owns(i)
  <2>1. /\ spec.children[i].id = node.children[i].id
        /\ spec.children[i].occurrences = Effective(node.children[i])
        /\ PartObjects(SourcesOf(spec), spec.children[i], e) = PartObjects(node, node.children[i], e)
    BY FlatChild
  <2> HIDE DEF spec
  <2> QED BY <1>1, <2>1, RowsAgree
<1>3. FlatPartRows(spec, e) = FlattenSeq([i \in DOMAIN spec.children |-> flats(i)])
  BY DEF FlatPartRows
<1>4. PartRows(node, e) = FlattenSeq([i \in DOMAIN node.children |-> owns(i)])
  BY DEF PartRows
<1> HIDE DEF flats, owns, spec
<1>5. [i \in DOMAIN spec.children |-> flats(i)] = [i \in DOMAIN node.children |-> owns(i)]
  BY <1>1, <1>2
<1> QED BY <1>3, <1>4, <1>5 DEF spec

\* A run of the export shows what the assembly composes to, at the value that
\* the export is given.
LEMMA FlatModel ==
  ASSUME NEW tree, NEW v, FlatValue(tree.skeleton, v) = v
  PROVE  FlatRun(Flattened(tree, v)) = Objects(tree, v)
<1> DEFINE flat == Flattened(tree, v)
           spec == Collect(tree)
           runs(i) == FlatRow(spec.children[i], FlatMade(flat, spec.children[i]), Skeleton(spec), v)
           owns(i) == Row(tree.children[i], Made(tree, v, tree.children[i]), Skeleton(tree), v)
<1>1. flat.root = spec /\ flat.value = v BY DEF Flattened
<1>2. ASSUME NEW i \in DOMAIN tree.children, ~IsPart(tree.children[i])
      PROVE  flat.nodes[tree.children[i].id] = Collect(tree.nodes[tree.children[i].id])
  <2> DEFINE c == tree.children[i]
  <2>1. c \in {d \in ToSet(tree.children) : ~IsPart(d)} BY <1>2 DEF ToSet
  <2> HIDE DEF c
  <2>2. c.id \in {d.id : d \in {b \in ToSet(tree.children) : ~IsPart(b)}} BY <2>1
  <2>3. flat.nodes[c.id] = Collect(tree.nodes[c.id]) BY <2>2 DEF Flattened
  <2> QED BY <2>3 DEF c
<1>3. DOMAIN spec.children = DOMAIN tree.children /\ Skeleton(spec) = Skeleton(tree)
  BY DEF Collect, Skeleton
<1>4. ASSUME NEW i \in DOMAIN tree.children PROVE runs(i) = owns(i)
  <2> DEFINE c == tree.children[i]
             f == spec.children[i]
  <2>1. /\ f.id = c.id /\ f.occurrences = Effective(c)
        /\ IsPart(f) <=> IsPart(c)
        /\ ValueBelow(f, v) = ValueBelow(c, v)
        /\ PartObjects(SourcesOf(spec), f, v) = PartObjects(tree, c, v)
    BY FlatChild
  <2>2. ~IsPart(c) => flat.nodes[c.id] = Collect(tree.nodes[c.id]) BY <1>2
  <2> HIDE DEF c, f, spec, flat
  <2>3. FlatMade(flat, f) = Made(tree, v, c)
    <3>1. CASE IsPart(c)
      <4>1. FlatMade(flat, f) = PartObjects(SourcesOf(spec), f, v)
        BY <1>1, <2>1, <3>1 DEF FlatMade
      <4>2. Made(tree, v, c) = PartObjects(tree, c, v) BY <3>1 DEF Made
      <4> QED BY <2>1, <4>1, <4>2
    <3>2. CASE ~IsPart(c)
      <4>1. FlatMade(flat, f) = FlatPartRows(Collect(tree.nodes[c.id]), ValueBelow(c, v))
        BY <1>1, <2>1, <2>2, <3>2 DEF FlatMade
      <4>2. Made(tree, v, c) = PartRows(tree.nodes[c.id], ValueBelow(c, v)) BY <3>2 DEF Made
      <4> QED BY <4>1, <4>2, FlatSubassembly
    <3> QED BY <3>1, <3>2
  <2>4. FlatRow(f, FlatMade(flat, f), Skeleton(spec), v) = Row(c, Made(tree, v, c), Skeleton(tree), v)
    BY <1>3, <2>1, <2>3, RowsAgree
  <2> QED BY <2>4 DEF c, f
<1>5. FlatRun(flat) = FlattenSeq([i \in DOMAIN spec.children |-> runs(i)])
  <2>1. FlatRun(flat) =
           FlattenSeq([i \in DOMAIN flat.root.children |->
                         FlatRow(flat.root.children[i], FlatMade(flat, flat.root.children[i]),
                                 Skeleton(flat.root), flat.value)])
    BY FlatByRows
  <2> HIDE DEF flat, spec
  <2> QED BY <1>1, <2>1
<1>6. Objects(tree, v) = FlattenSeq([i \in DOMAIN tree.children |-> owns(i)])
  BY ObjectsByRows
<1> HIDE DEF runs, owns, spec
<1>7. [i \in DOMAIN spec.children |-> runs(i)] = [i \in DOMAIN tree.children |-> owns(i)]
  BY <1>3, <1>4
<1> QED BY <1>5, <1>6, <1>7

\* A run of the exported flat model shows what the session composed, after any
\* calls and as long as nobody edits the files by hand, for a skeleton whose
\* PARAMS is a literal.
THEOREM Flat == Spec => []FlatReproduces
<1>1. Sound => FlatReproduces
  <2> SUFFICES ASSUME Sound, ~stray, memory.composed, live.skeleton # Null => live.skeleton.literal
               PROVE  FlatRun(Flattened(live, memory.value)) = memory.objects
    BY DEF FlatReproduces
  <2>1. FlatValue(live.skeleton, memory.value) = memory.value BY DEF FlatValue
  <2>2. memory.objects = Objects(live, memory.value)
    BY DEF Sound, SessionSound, ModelIsItsFiles
  <2> QED BY <2>1, <2>2, FlatModel
<1> QED BY <1>1, AlwaysSound, PTL

-----------------------------------------------------------------------------
(* The interface check *)

\* What the check says of a child, and of a joint.
Fault(kind, path, c, names) == {<<kind, path \o <<c.id>>, n>> : n \in names}
ChildFaults(skel, e, path, c) ==
  UNION {Fault("missing_attach_frame", path, c, (FramesUsed(c) \ {Null}) \ skel.frames[e]),
         Fault("missing_input", path, c, c.inputs \ skel.scalars),
         IF IsPart(c) THEN Fault("missing_shape_input", path, c, c.shapes \ skel.shapes)
         ELSE Fault("shape_input_on_subassembly", path, c, c.shapes),
         Fault("input_name_collision", path, c, c.inputs \cap c.shapes)}
JointFaults(node, e, path, j) ==
  {<<"missing_joint_frame", path, n>> : n \in {j.frame} \ Skeleton(node).frames[e]}
    \cup {<<"unknown_joint_between", path, b>> : b \in {b \in j.between : ~Has(node, b)}}

LEMMA IssuesByChild ==
  ASSUME NEW node, NEW e, NEW path
  PROVE  NodeIssues(node, e, path) =
           UNION ({ChildFaults(Skeleton(node), e, path, c) : c \in ToSet(node.children)}
                  \cup {JointFaults(node, e, path, j) : j \in Skeleton(node).joints})
BY DEF NodeIssues, ChildFaults, JointFaults, Fault

\* Whether a child's wiring is published is what the check says of it.
LEMMA ChildChecked ==
  ASSUME NEW skel, NEW e, NEW path, NEW c
  PROVE  (InputsResolve(skel, c) /\ FramesResolve(skel, c, e))
           <=> \A i \in ChildFaults(skel, e, path, c) : i[1] \notin WiringFaults
<1> DEFINE frames == (FramesUsed(c) \ {Null}) \ skel.frames[e]
           inputs == c.inputs \ skel.scalars
           shapes == c.shapes \ skel.shapes
           where == path \o <<c.id>>
           faults == ChildFaults(skel, e, path, c)
<1>1. FramesResolve(skel, c, e) <=> frames = {}
  BY DEF FramesResolve, FramesUsed
<1>2. InputsResolve(skel, c) <=> inputs = {} /\ (IsPart(c) => shapes = {})
  BY DEF InputsResolve, IsPart
<1>3. ASSUME NEW kind, NEW names, NEW i \in Fault(kind, path, c, names) PROVE i[1] = kind
  BY DEF Fault
<1>4. ASSUME NEW kind \in WiringFaults, NEW names,
             \A i \in Fault(kind, path, c, names) : i[1] \notin WiringFaults
      PROVE  names = {}
  <2> SUFFICES ASSUME NEW n \in names PROVE FALSE OBVIOUS
  <2>1. <<kind, where, n>> \in Fault(kind, path, c, names) BY DEF Fault
  <2>2. <<kind, where, n>>[1] = kind OBVIOUS
  <2> HIDE DEF where
  <2> QED BY <1>4, <2>1, <2>2
<1>5. ASSUME NEW kind, NEW i \in Fault(kind, path, c, {}) PROVE FALSE BY DEF Fault
<1>6. /\ "missing_attach_frame" \in WiringFaults /\ "missing_input" \in WiringFaults
      /\ "missing_shape_input" \in WiringFaults
      /\ "shape_input_on_subassembly" \notin WiringFaults
      /\ "input_name_collision" \notin WiringFaults
  BY DEF WiringFaults
<1>7. \A i : i \in faults <=>
        \/ i \in Fault("missing_attach_frame", path, c, frames)
        \/ i \in Fault("missing_input", path, c, inputs)
        \/ IsPart(c) /\ i \in Fault("missing_shape_input", path, c, shapes)
        \/ ~IsPart(c) /\ i \in Fault("shape_input_on_subassembly", path, c, c.shapes)
        \/ i \in Fault("input_name_collision", path, c, c.inputs \cap c.shapes)
  BY DEF ChildFaults
<1> HIDE DEF faults, frames, inputs, shapes, where
<1>8. ASSUME \A i \in faults : i[1] \notin WiringFaults
      PROVE  frames = {} /\ inputs = {} /\ (IsPart(c) => shapes = {})
  <2>1. frames = {}
    <3>1. \A i \in Fault("missing_attach_frame", path, c, frames) : i[1] \notin WiringFaults
      BY <1>7, <1>8
    <3> QED BY <1>4, <1>6, <3>1
  <2>2. inputs = {}
    <3>1. \A i \in Fault("missing_input", path, c, inputs) : i[1] \notin WiringFaults
      BY <1>7, <1>8
    <3> QED BY <1>4, <1>6, <3>1
  <2>3. ASSUME IsPart(c) PROVE shapes = {}
    <3>1. \A i \in Fault("missing_shape_input", path, c, shapes) : i[1] \notin WiringFaults
      BY <1>7, <1>8, <2>3
    <3> QED BY <1>4, <1>6, <3>1
  <2> QED BY <2>1, <2>2, <2>3
<1>9. ASSUME frames = {}, inputs = {}, IsPart(c) => shapes = {}, NEW i \in faults
      PROVE  i[1] \notin WiringFaults
  <2>1. CASE i \in Fault("missing_attach_frame", path, c, frames) BY <1>5, <1>9, <2>1
  <2>2. CASE i \in Fault("missing_input", path, c, inputs) BY <1>5, <1>9, <2>2
  <2>3. CASE IsPart(c) /\ i \in Fault("missing_shape_input", path, c, shapes) BY <1>5, <1>9, <2>3
  <2>4. CASE i \in Fault("shape_input_on_subassembly", path, c, c.shapes)
    <3>1. i[1] = "shape_input_on_subassembly" BY <1>3, <2>4
    <3> QED BY <1>6, <3>1
  <2>5. CASE i \in Fault("input_name_collision", path, c, c.inputs \cap c.shapes)
    <3>1. i[1] = "input_name_collision" BY <1>3, <2>5
    <3> QED BY <1>6, <3>1
  <2> QED BY <1>7, <1>9, <2>1, <2>2, <2>3, <2>4, <2>5
<1> QED BY <1>1, <1>2, <1>8, <1>9 DEF faults

\* Whether a node's wiring is published is what the check says of the node.
LEMMA NodeChecked ==
  ASSUME NEW node, NEW e, NEW path
  PROVE  (\A c \in ToSet(node.children) :
            InputsResolve(Skeleton(node), c) /\ FramesResolve(Skeleton(node), c, e))
           <=> \A i \in NodeIssues(node, e, path) : i[1] \notin WiringFaults
<1> DEFINE skel == Skeleton(node)
           Of(c) == ChildFaults(skel, e, path, c)
           Joint(j) == JointFaults(node, e, path, j)
<1>1. \A i : i \in NodeIssues(node, e, path) <=>
        \/ \E c \in ToSet(node.children) : i \in Of(c)
        \/ \E j \in skel.joints : i \in Joint(j)
  <2>1. NodeIssues(node, e, path) =
          UNION ({Of(c) : c \in ToSet(node.children)} \cup {Joint(j) : j \in skel.joints})
    BY IssuesByChild
  <2> HIDE DEF Of, Joint, skel
  <2> QED BY <2>1
<1>2. ASSUME NEW j, NEW i \in Joint(j) PROVE i[1] \notin WiringFaults
  <2>1. i[1] = "missing_joint_frame" \/ i[1] = "unknown_joint_between"
    BY <1>2 DEF JointFaults
  <2> QED BY <2>1 DEF WiringFaults
<1>3. \A c : (InputsResolve(skel, c) /\ FramesResolve(skel, c, e))
               <=> \A i \in Of(c) : i[1] \notin WiringFaults
  BY ChildChecked
<1> HIDE DEF Of, Joint, skel
<1>4. (\A c \in ToSet(node.children) : InputsResolve(skel, c) /\ FramesResolve(skel, c, e))
        <=> \A i \in NodeIssues(node, e, path) : i[1] \notin WiringFaults
  BY <1>1, <1>2, <1>3
<1> QED BY <1>4 DEF skel

\* The interface check predicts whether a build at the defaults finds every name.
LEMMA CheckPredicts ==
  ASSUME NEW tree, Described(tree), FramesAtOne(tree)
  PROVE  NodeWired(tree, DescribedAt(tree)) <=> \A i \in Issues(tree) : i[1] \notin WiringFaults
<1> DEFINE v == DescribedAt(tree)
           kids == {d \in ToSet(tree.children) : ~IsPart(d)}
           Fits(node, e) == \A c \in ToSet(node.children) :
                              InputsResolve(Skeleton(node), c) /\ FramesResolve(Skeleton(node), c, e)
           Clean(node, e, path) == \A i \in NodeIssues(node, e, path) : i[1] \notin WiringFaults
           nested(c) == NodeIssues(tree.nodes[c.id], ValueBelow(c, 1), <<c.id>>)
<1>1. /\ Loads(tree) /\ Skeleton(tree).needs = {}
      /\ \A c \in kids : Loads(tree.nodes[c.id]) /\ Skeleton(tree.nodes[c.id]).needs \subseteq c.inputs
  BY DEF Described
<1>2. NodeWired(tree, v) <=> Fits(tree, v) /\ \A c \in kids : Fits(tree.nodes[c.id], ValueBelow(c, v))
  BY <1>1 DEF NodeWired, Wired
<1>3. \A i : i \in Issues(tree) <=> \/ i \in NodeIssues(tree, v, <<>>)
                                   \/ \E c \in kids : i \in nested(c)
  <2>1. Issues(tree) = NodeIssues(tree, v, <<>>) \cup UNION {nested(c) : c \in kids}
    BY DEF Issues
  <2> HIDE DEF nested, kids, v
  <2> QED BY <2>1
<1>4. \A node, e, path : Fits(node, e) <=> Clean(node, e, path)
  BY NodeChecked
<1>5. ASSUME NEW c \in kids
      PROVE  Fits(tree.nodes[c.id], ValueBelow(c, v)) <=> Fits(tree.nodes[c.id], ValueBelow(c, 1))
  <2> DEFINE skel == Skeleton(tree.nodes[c.id])
  <2>1. skel.frames[ValueBelow(c, v)] = skel.frames[ValueBelow(c, 1)]
    BY <1>5 DEF FramesAtOne
  <2>2. \A d : FramesResolve(skel, d, ValueBelow(c, v)) <=> FramesResolve(skel, d, ValueBelow(c, 1))
    BY <2>1 DEF FramesResolve
  <2> HIDE DEF skel
  <2>3. Fits(tree.nodes[c.id], ValueBelow(c, v)) <=>
          \A d \in ToSet(tree.nodes[c.id].children) :
            InputsResolve(skel, d) /\ FramesResolve(skel, d, ValueBelow(c, v))
    BY DEF skel
  <2>4. Fits(tree.nodes[c.id], ValueBelow(c, 1)) <=>
          \A d \in ToSet(tree.nodes[c.id].children) :
            InputsResolve(skel, d) /\ FramesResolve(skel, d, ValueBelow(c, 1))
    BY DEF skel
  <2> HIDE DEF Fits
  <2> QED BY <2>2, <2>3, <2>4
<1>6. \A c \in kids : Fits(tree.nodes[c.id], ValueBelow(c, v)) <=>
        \A i \in nested(c) : i[1] \notin WiringFaults
  <2> HIDE DEF Fits
  <2> QED BY <1>4, <1>5
<1>7. Fits(tree, v) <=> \A i \in NodeIssues(tree, v, <<>>) : i[1] \notin WiringFaults
  BY <1>4
<1> HIDE DEF Fits, nested, kids, v
<1>8. NodeWired(tree, v) <=> \A i \in Issues(tree) : i[1] \notin WiringFaults
  BY <1>2, <1>3, <1>6, <1>7
<1> QED BY <1>8 DEF v

-----------------------------------------------------------------------------
(* The type of what a build makes *)

\* Numbers have tokens, each its own.
NumeralsDiffer ==
  \A m, n \in Nat : Numeral(m) \in Tokens /\ (Numeral(m) = Numeral(n) => m = n)

Runs == Values \cup {Alone}
Spots == [frame : Seq(Tokens \cup Names), mirror : Mirrors]
Making == [text : DOMAIN Shows, inputs : SUBSET Names, value : Runs, shapes : SUBSET Names]
Things ==
  {o \in [name : Seq(Seq(Tokens)), solid : BOOLEAN, made : Making, at : Seq(Spots)] : o.name # <<>>}

\* Objects below one of some prefixes.
Below(prefixes) == {o \in Things : Len(o.name) >= 2 /\ o.name[1] \in prefixes}
PrefixesOf(c) == {Prefix(c.id, k) : k \in DOMAIN Effective(c)}

LEMMA EffectiveHolds ==
  ASSUME NEW c \in Entries
  PROVE  Effective(c) \in Seq(Places)
<1>1. CASE c.occurrences = Null
  <2>1. Effective(c) = <<Occurrence(c.attach, Null)>> BY <1>1 DEF Effective
  <2>2. Occurrence(c.attach, Null) \in Places BY DEF Occurrence, Places, Entries, Mirrors
  <2> QED BY <2>1, <2>2
<1>2. CASE c.occurrences # Null
  BY <1>2 DEF Effective, Entries
<1> QED BY <1>1, <1>2

LEMMA PrefixHolds ==
  ASSUME NumeralsDiffer, NEW id \in PartIds, NEW k \in Nat
  PROVE  Prefix(id, k) \in Seq(Tokens)
<1>1. id \in Seq(Tokens) BY CallsAssumption
<1>2. Numeral(k) \in Tokens BY DEF NumeralsDiffer
<1>3. "@" \in Tokens BY ComposeAssumption
<1>4. <<"@", Numeral(k)>> \in Seq(Tokens) BY <1>2, <1>3
<1>5. id \o <<"@", Numeral(k)>> \in Seq(Tokens) BY <1>1, <1>4, ConcatProperties
<1> QED BY <1>1, <1>5 DEF Prefix

LEMMA WhereHolds ==
  ASSUME NumeralsDiffer, NEW skel, skel.id \in Tokens, NEW e \in Runs, NEW o \in Places
  PROVE  Where(skel, e, o) \in Spots
<1>1. e \in Nat BY ComposeAssumption DEF Runs, Alone
<1>2. Numeral(e) \in Tokens BY <1>1 DEF NumeralsDiffer
<1>3. o.frame \in Names \cup {Null} /\ o.mirror \in Mirrors BY DEF Places
<1> DEFINE frame == IF o.frame = Null THEN <<"origin">> ELSE <<skel.id, o.frame, Numeral(e)>>
<1>4. frame \in Seq(Tokens \cup Names)
  <2> DEFINE origin == "origin"
             Words == Tokens \cup Names
  <2>1. origin \in Tokens BY ComposeAssumption
  <2> HIDE DEF origin
  <2>2. origin \in Words /\ skel.id \in Words /\ Numeral(e) \in Words BY <1>2, <2>1
  <2>3. o.frame # Null => o.frame \in Words BY <1>3
  <2>4. frame = IF o.frame = Null THEN <<origin>> ELSE <<skel.id, o.frame, Numeral(e)>>
    BY DEF origin
  <2> HIDE DEF Words, frame
  <2>5. CASE o.frame = Null BY <2>2, <2>4, <2>5 DEF Words
  <2>6. CASE o.frame # Null
    <3>1. <<skel.id, o.frame, Numeral(e)>> \in Seq(Words) BY <2>2, <2>3, <2>6
    <3> QED BY <2>4, <2>6, <3>1 DEF Words
  <2> QED BY <2>5, <2>6
<1>5. Where(skel, e, o) = [frame |-> frame, mirror |-> o.mirror] BY DEF Where
<1> HIDE DEF frame
<1> QED BY <1>3, <1>4, <1>5 DEF Spots

\* A part that builds shows objects of its own text.
LEMMA PartObjectsHold ==
  ASSUME NEW node, NEW c \in Entries, node.parts \in Sources, node.parts[c.id] # Null, NEW e \in Runs
  PROVE  PartObjects(node, c, e) \in Seq(Things)
<1> DEFINE text == node.parts[c.id]
           made == [text |-> text, inputs |-> c.inputs, value |-> ValueBelow(c, e), shapes |-> c.shapes]
           s == Shows[text]
           o(i) == [name |-> <<s[i].name>>, solid |-> s[i].solid, made |-> made, at |-> <<>>]
<1>1. text \in DOMAIN Shows
  <2>1. c.id \in PartIds BY DEF Entries
  <2> QED BY <2>1 DEF Sources
<1>2. s \in Seq([name : Seq(Tokens), solid : BOOLEAN]) BY <1>1, ComposeAssumption
<1>3. made \in Making
  <2>1. ValueBelow(c, e) \in Runs BY DEF ValueBelow, Runs
  <2> QED BY <1>1, <2>1 DEF Making, Entries
<1> HIDE DEF made, s
<1>4. ASSUME NEW i \in DOMAIN s PROVE o(i) \in Things
  <2> DEFINE Shown == [name : Seq(Tokens), solid : BOOLEAN]
  <2>0. s[i] \in Shown
    <3> HIDE DEF Shown
    <3>1. s \in Seq(Shown) BY <1>2 DEF Shown
    <3> QED BY <3>1
  <2>1. s[i].name \in Seq(Tokens) /\ s[i].solid \in BOOLEAN BY <2>0
  <2>2. <<s[i].name>> \in Seq(Seq(Tokens)) /\ <<s[i].name>> # <<>> BY <2>1
  <2>3. <<>> \in Seq(Spots) OBVIOUS
  <2> QED BY <1>3, <2>1, <2>2, <2>3 DEF Things
<1>5. PartObjects(node, c, e) = [i \in DOMAIN s |-> o(i)] BY DEF PartObjects, made, s
<1>6. DOMAIN s = 1 .. Len(s) /\ Len(s) \in Nat BY <1>2
<1> HIDE DEF o
<1> QED BY <1>4, <1>5, <1>6

\* A placed object is below its prefix.
LEMMA PlaceHolds ==
  ASSUME NEW objects \in Seq(Things), NEW prefix \in Seq(Tokens), NEW where \in Spots
  PROVE  Place(objects, prefix, where) \in Seq(Below({prefix}))
<1> DEFINE o(i) == [objects[i] EXCEPT !.name = <<prefix>> \o @, !.at = <<where>> \o @]
<1>1. ASSUME NEW i \in DOMAIN objects PROVE o(i) \in Below({prefix})
  <2> DEFINE x == objects[i]
             name == <<prefix>> \o x.name
             at == <<where>> \o x.at
  <2>1. x \in Things BY <1>1
  <2>2. /\ x \in [name : Seq(Seq(Tokens)), solid : BOOLEAN, made : Making, at : Seq(Spots)]
        /\ x.name # <<>>
    BY <2>1 DEF Things
  <2>3. <<prefix>> \in Seq(Seq(Tokens)) /\ <<where>> \in Seq(Spots) OBVIOUS
  <2>4. x.name \in Seq(Seq(Tokens)) /\ x.at \in Seq(Spots) BY <2>2
  <2>5. name \in Seq(Seq(Tokens)) /\ at \in Seq(Spots) BY <2>3, <2>4
  <2>6. Len(x.name) >= 1
    <3>1. Len(x.name) \in Nat /\ Len(x.name) # 0 BY <2>2, <2>4, EmptySeq
    <3> QED BY <3>1
  <2>7. Len(name) >= 2 /\ name[1] = prefix
    <3>1. Len(name) = 1 + Len(x.name) /\ name[1] = prefix BY <2>3, <2>4, ConcatProperties
    <3> QED BY <2>4, <2>6, <3>1
  <2>8. o(i) = [x EXCEPT !.name = name, !.at = at] OBVIOUS
  <2> HIDE DEF x, name, at
  <2>9. /\ o(i) \in [name : Seq(Seq(Tokens)), solid : BOOLEAN, made : Making, at : Seq(Spots)]
        /\ o(i).name = name
    BY <2>2, <2>5, <2>8
  <2>10. name # <<>> BY <2>7
  <2> QED BY <2>7, <2>9, <2>10 DEF Below, Things
<1>2. Place(objects, prefix, where) = [i \in DOMAIN objects |-> o(i)] BY DEF Place
<1> DEFINE n == Len(objects)
           T == Below({prefix})
<1>3. DOMAIN objects = 1 .. n /\ n \in Nat OBVIOUS
<1> HIDE DEF o, T, n
<1>4. [i \in 1 .. n |-> o(i)] \in [1 .. n -> T] BY <1>1, <1>3 DEF T
<1>5. [i \in 1 .. n |-> o(i)] \in Seq(T) BY <1>3, <1>4
<1> QED BY <1>2, <1>3, <1>5 DEF T

LEMMA SeqWider ==
  ASSUME NEW A, NEW B, A \subseteq B, NEW s \in Seq(A)
  PROVE  s \in Seq(B)
<1>1. \A i \in 1 .. Len(s) : s[i] \in B OBVIOUS
<1> QED BY <1>1

\* A row's objects are below the prefixes of its child.
LEMMA RowHolds ==
  ASSUME NumeralsDiffer, NEW c \in Entries, NEW objects \in Seq(Things), NEW skel,
         skel.id \in Tokens, NEW e \in Runs
  PROVE  Row(c, objects, skel, e) \in Seq(Below(PrefixesOf(c)))
<1> DEFINE occs == Effective(c)
           T == Below(PrefixesOf(c))
           placed(k) == Place(objects, Prefix(c.id, k), Where(skel, e, occs[k]))
           ss == [k \in DOMAIN occs |-> placed(k)]
<1>1. occs \in Seq(Places) /\ DOMAIN occs = 1 .. Len(occs) /\ Len(occs) \in Nat
  <2>1. occs \in Seq(Places) BY EffectiveHolds
  <2> QED BY <2>1
<1>2. ASSUME NEW k \in DOMAIN occs PROVE placed(k) \in Seq(T)
  <2>1. c.id \in PartIds BY DEF Entries
  <2>2. Prefix(c.id, k) \in Seq(Tokens) BY <1>1, <2>1, PrefixHolds
  <2>3. Where(skel, e, occs[k]) \in Spots BY <1>1, WhereHolds
  <2>4. placed(k) \in Seq(Below({Prefix(c.id, k)})) BY <2>2, <2>3, PlaceHolds
  <2>5. Prefix(c.id, k) \in PrefixesOf(c) BY DEF PrefixesOf
  <2>6. Below({Prefix(c.id, k)}) \subseteq T BY <2>5 DEF Below
  <2> HIDE DEF T, placed
  <2> QED BY <2>4, <2>6, SeqWider
<1>3. Row(c, objects, skel, e) = FlattenSeq(ss) BY DEF Row
<1> HIDE DEF T, placed
<1>4. ss \in Seq(Seq(T)) BY <1>1, <1>2
<1> HIDE DEF ss
<1>5. FlattenSeq(ss) \in Seq(T) BY <1>4, FlattenHolds
<1> QED BY <1>3, <1>5 DEF T

LEMMA SkeletonHolds ==
  ASSUME NEW node, node.skeleton \in Published \cup {Null}
  PROVE  Skeleton(node).id \in Tokens
<1> DEFINE none == "none"
<1>1. none \in Tokens BY ComposeAssumption
<1>2. NoSkeleton.id = none BY DEF NoSkeleton
<1> HIDE DEF none
<1>3. CASE node.skeleton = Null BY <1>1, <1>2, <1>3 DEF Skeleton
<1>4. CASE node.skeleton # Null
  <2>1. node.skeleton \in Published BY <1>4
  <2>2. node.skeleton.id \in Tokens BY <2>1 DEF Published
  <2> QED BY <1>4, <2>2 DEF Skeleton
<1> QED BY <1>3, <1>4

\* A node of parts that build makes objects.
LEMMA PartRowsHold ==
  ASSUME NumeralsDiffer, NEW node \in Nodes, \A d \in ToSet(node.children) : PartBuilds(node, d),
         NEW e \in Runs
  PROVE  PartRows(node, e) \in Seq(Things)
<1> DEFINE s == node.children
           row(i) == Row(s[i], PartObjects(node, s[i], e), Skeleton(node), e)
           ss == [i \in DOMAIN s |-> row(i)]
<1>1. /\ s \in Seq(Entries) /\ node.parts \in Sources /\ node.skeleton \in Published \cup {Null}
      /\ DOMAIN s = 1 .. Len(s) /\ Len(s) \in Nat
  BY DEF Nodes
<1>2. ASSUME NEW i \in DOMAIN s PROVE row(i) \in Seq(Things)
  <2>1. s[i] \in Entries BY <1>1
  <2>2. node.parts[s[i].id] # Null
    <3>1. s[i] \in ToSet(s) BY DEF ToSet
    <3> QED BY <3>1 DEF PartBuilds
  <2>3. PartObjects(node, s[i], e) \in Seq(Things) BY <1>1, <2>1, <2>2, PartObjectsHold
  <2>4. Skeleton(node).id \in Tokens BY <1>1, SkeletonHolds
  <2>5. row(i) \in Seq(Below(PrefixesOf(s[i]))) BY <2>1, <2>3, <2>4, RowHolds
  <2>6. Below(PrefixesOf(s[i])) \subseteq Things BY DEF Below
  <2> HIDE DEF row, s
  <2> QED BY <2>5, <2>6, SeqWider
<1>3. PartRows(node, e) = FlattenSeq(ss) BY DEF PartRows
<1> HIDE DEF row, s
<1>4. ss \in Seq(Seq(Things)) BY <1>1, <1>2
<1> HIDE DEF ss
<1> QED BY <1>3, <1>4, FlattenHolds

\* What a sound tree that builds composes to: the rows of its children.
LEMMA ObjectsHold ==
  ASSUME NumeralsDiffer, NEW tree, TreeSound(tree), NEW v \in Values, Builds(tree, v)
  PROVE  /\ Objects(tree, v) \in Seq(Below(UNION {PrefixesOf(c) : c \in ToSet(tree.children)}))
         /\ ToSet(Objects(tree, v)) =
              UNION {ToSet(Row(c, Made(tree, v, c), Skeleton(tree), v)) : c \in ToSet(tree.children)}
<1> DEFINE s == tree.children
           T == Below(UNION {PrefixesOf(c) : c \in ToSet(s)})
           row(c) == Row(c, Made(tree, v, c), Skeleton(tree), v)
           ss == [i \in DOMAIN s |-> row(s[i])]
<1>1. /\ tree \in Trees /\ IdsApart(tree) /\ s \in Seq(Entries) /\ tree.parts \in Sources
      /\ tree.skeleton \in Published \cup {Null} /\ tree.nodes \in [PartIds -> Nodes \cup {Null}]
      /\ DOMAIN s = 1 .. Len(s) /\ Len(s) \in Nat
  BY DEF TreeSound, Trees
<1>2. ASSUME NEW c \in ToSet(s) PROVE row(c) \in Seq(T)
  <2>1. c \in Entries BY <1>1 DEF ToSet
  <2>2. c.id \in PartIds BY <2>1 DEF Entries
  <2>3. v \in Runs /\ ValueBelow(c, v) \in Runs BY DEF Runs, ValueBelow
  <2>4. Made(tree, v, c) \in Seq(Things)
    <3>1. CASE IsPart(c)
      <4>1. tree.parts[c.id] # Null BY <3>1 DEF Builds, PartsBuild, PartBuilds
      <4>2. PartObjects(tree, c, v) \in Seq(Things) BY <1>1, <2>1, <2>3, <4>1, PartObjectsHold
      <4> QED BY <3>1, <4>2 DEF Made
    <3>2. CASE ~IsPart(c)
      <4> DEFINE node == tree.nodes[c.id]
      <4>1. node # Null
        <5> HIDE DEF IsPart
        <5> QED BY <1>1, <2>2, <3>2, SourcedByChildren DEF TreeSound
      <4>2. node \in Nodes BY <1>1, <2>2, <4>1
      <4>3. \A d \in ToSet(node.children) : PartBuilds(node, d)
        BY <3>2 DEF Builds, PartsBuild
      <4> HIDE DEF node
      <4>4. PartRows(node, ValueBelow(c, v)) \in Seq(Things) BY <2>3, <4>2, <4>3, PartRowsHold
      <4> QED BY <3>2, <4>4 DEF Made, node
    <3> QED BY <3>1, <3>2
  <2>5. Skeleton(tree).id \in Tokens BY <1>1, SkeletonHolds
  <2>6. row(c) \in Seq(Below(PrefixesOf(c))) BY <2>1, <2>3, <2>4, <2>5, RowHolds
  <2>7. Below(PrefixesOf(c)) \subseteq T BY DEF Below
  <2> HIDE DEF T, row, s
  <2> QED BY <2>6, <2>7, SeqWider
<1>3. Objects(tree, v) = FlattenSeq(ss) BY ObjectsByRows
<1> HIDE DEF row, s, T
<1>4. ss \in Seq(Seq(T))
  <2>1. \A i \in DOMAIN s : s[i] \in ToSet(s) BY DEF ToSet
  <2> QED BY <1>1, <1>2, <2>1
<1>5. \A i \in DOMAIN ss : ss[i] = row(s[i]) OBVIOUS
<1>6. DOMAIN ss = DOMAIN s OBVIOUS
<1> HIDE DEF ss
<1>7. FlattenSeq(ss) \in Seq(T) /\ ToSet(FlattenSeq(ss)) = UNION {ToSet(ss[i]) : i \in DOMAIN ss}
  BY <1>4, FlattenHolds
<1>8. UNION {ToSet(ss[i]) : i \in DOMAIN ss} = UNION {ToSet(row(c)) : c \in ToSet(s)}
  BY <1>5, <1>6 DEF ToSet
<1>9. ToSet(Objects(tree, v)) = UNION {ToSet(row(c)) : c \in ToSet(s)} BY <1>3, <1>7, <1>8
<1> QED BY <1>3, <1>7, <1>9 DEF row, s, T

-----------------------------------------------------------------------------
(* The structural diff *)

\* Trees without a difference have the same children, but for their order.
LEMMA NoDifference ==
  ASSUME NEW a, TreeSound(a), NEW b, TreeSound(b), Diff(a, b) = NoChange
  PROVE  /\ a.skeleton = b.skeleton /\ a.parts = b.parts
         /\ ToSet(a.children) = ToSet(b.children)
<1>1. /\ a \in Trees /\ b \in Trees /\ IdsApart(a) /\ IdsApart(b) /\ Sourced(a) /\ Sourced(b)
      /\ \A c \in ToSet(a.children) \cup ToSet(b.children) : c \in Entries
  BY DEF TreeSound, Trees, ToSet
<1>2. Ids(a) = Ids(b)
  <2>1. Diff(a, b).added = Ids(b) \ Ids(a) /\ Diff(a, b).removed = Ids(a) \ Ids(b) BY DEF Diff
  <2>2. NoChange.added = {} /\ NoChange.removed = {} BY DEF NoChange
  <2> QED BY <2>1, <2>2
<1>3. \A id \in Ids(a) : ~WiringChanged(Child(a, id), Child(b, id))
  <2>1. Diff(a, b).rewired =
          {id \in Ids(a) \cap Ids(b) : WiringChanged(Child(a, id), Child(b, id))}
    BY DEF Diff
  <2>2. NoChange.rewired = {} BY DEF NoChange
  <2> QED BY <1>2, <2>1, <2>2
<1>4. a.skeleton = b.skeleton
  <2>1. Diff(a, b).skeleton = (a.skeleton # b.skeleton) BY DEF Diff
  <2>2. NoChange.skeleton = FALSE BY DEF NoChange
  <2>3. (a.skeleton # b.skeleton) = FALSE BY <2>1, <2>2
  <2> QED BY <2>3
<1>5. a.parts = b.parts
  <2>1. Diff(a, b).parts = {id \in Texts(a) \cup Texts(b) : a.parts[id] # b.parts[id]} BY DEF Diff
  <2>2. NoChange.parts = {} BY DEF NoChange
  <2>3. a.parts \in [PartIds -> DOMAIN Shows \cup {Null}] /\ b.parts \in [PartIds -> DOMAIN Shows \cup {Null}]
    BY <1>1 DEF Trees, Sources
  <2>4. ASSUME NEW id \in PartIds PROVE a.parts[id] = b.parts[id]
    <3>1. CASE id \in Texts(a) \cup Texts(b) BY <2>1, <2>2, <3>1
    <3>2. CASE id \notin Texts(a) \cup Texts(b) BY <2>3, <3>2 DEF Texts
    <3> QED BY <3>1, <3>2
  <2> QED BY <2>3, <2>4
<1>6. ASSUME NEW id \in Ids(a) PROVE Child(a, id) = Child(b, id)
  <2> DEFINE c == Child(a, id)
             d == Child(b, id)
  <2>1. Has(a, id) /\ Has(b, id) BY <1>1, <1>2, ChildIsFound DEF Ids
  <2>2. /\ c \in ToSet(a.children) /\ c.id = id /\ d \in ToSet(b.children) /\ d.id = id
        /\ c \in Entries /\ d \in Entries
    BY <1>1, <2>1, ChildIsFound
  <2>3. id \in PartIds BY <2>2 DEF Entries
  <2>4. (IsPart(c) <=> a.parts[id] # Null) /\ (IsPart(d) <=> b.parts[id] # Null)
    BY <1>1, <2>1, <2>3 DEF Sourced
  <2>5. ~WiringChanged(c, d) BY <1>3
  <2> HIDE DEF c, d
  <2>6. c.kind = d.kind BY <1>5, <2>2, <2>4 DEF IsPart, Entries
  <2>7. /\ c.attach = d.attach /\ c.inputs = d.inputs /\ c.shapes = d.shapes
        /\ c.occurrences = d.occurrences
    BY <2>5 DEF WiringChanged
  <2>8. c = d BY <2>2, <2>6, <2>7 DEF Entries
  <2> QED BY <2>8 DEF c, d
<1>7. ASSUME NEW c \in ToSet(a.children) PROVE c \in ToSet(b.children)
  <2>1. c.id \in Ids(a) /\ c.id \in Ids(b) BY <1>2 DEF Ids
  <2>2. c = Child(a, c.id) BY <1>1, ChildIsFound
  <2>3. Has(b, c.id) BY <1>1, <2>1, ChildIsFound DEF Ids
  <2>4. Child(b, c.id) \in ToSet(b.children) BY <1>1, <2>3, ChildIsFound
  <2> QED BY <1>6, <2>1, <2>2, <2>4
<1>8. ASSUME NEW c \in ToSet(b.children) PROVE c \in ToSet(a.children)
  <2>1. c.id \in Ids(a) BY <1>2 DEF Ids
  <2>2. c = Child(b, c.id) BY <1>1, ChildIsFound
  <2>3. Has(a, c.id) BY <1>1, <2>1, ChildIsFound DEF Ids
  <2>4. Child(a, c.id) \in ToSet(a.children) BY <1>1, <2>3, ChildIsFound
  <2> QED BY <1>6, <2>1, <2>2, <2>4
<1> QED BY <1>4, <1>5, <1>7, <1>8

\* Such trees, with the same sub-assemblies, build alike.
LEMMA SameBuild ==
  ASSUME NumeralsDiffer, NEW a, TreeSound(a), NEW b, TreeSound(b), a.skeleton = b.skeleton,
         a.parts = b.parts, a.nodes = b.nodes, ToSet(a.children) = ToSet(b.children), Loads(b),
         NEW v \in Values, Builds(a, v)
  PROVE  Builds(b, v) /\ ToSet(Objects(b, v)) = ToSet(Objects(a, v))
<1> DEFINE kids == ToSet(a.children)
<1>1. Skeleton(a) = Skeleton(b) BY DEF Skeleton
<1>2. Wired(b, v, {}) <=> Wired(a, v, {}) BY <1>1 DEF Wired
<1>3. PartsBuild(b) <=> PartsBuild(a) BY DEF PartsBuild, PartBuilds
<1>4. Builds(b, v) BY <1>2, <1>3 DEF Builds, NodeWired
<1>5. \A c : Made(a, v, c) = Made(b, v, c) BY DEF Made, PartObjects
<1> DEFINE of(tree, c) == Row(c, Made(tree, v, c), Skeleton(tree), v)
<1>6. /\ ToSet(Objects(a, v)) = UNION {ToSet(of(a, c)) : c \in kids}
      /\ ToSet(Objects(b, v)) = UNION {ToSet(of(b, c)) : c \in kids}
  BY <1>4, ObjectsHold
<1>7. \A c : of(a, c) = of(b, c) BY <1>1, <1>5
<1> HIDE DEF of
<1>8. ToSet(Objects(a, v)) = ToSet(Objects(b, v)) BY <1>6, <1>7
<1> QED BY <1>4, <1>8

LEMMA DiffTells ==
  ASSUME NumeralsDiffer, Sound
  PROVE  DiffTellsWiring
<1> SUFFICES ASSUME memory.composed, Loads(live), Diff(selected.tree, live) = NoChange,
                    selected.tree.nodes = live.nodes
             PROVE  /\ Builds(live, memory.value)
                    /\ ToSet(Objects(live, memory.value)) = ToSet(Objects(selected.tree, memory.value))
  BY DEF DiffTellsWiring
<1>1. /\ TreeSound(selected.tree) /\ TreeSound(live) /\ memory.value \in Values
      /\ Builds(selected.tree, memory.value)
  BY DEF Sound, SessionSound, FilesSound
<1>2. /\ selected.tree.skeleton = live.skeleton /\ selected.tree.parts = live.parts
      /\ ToSet(selected.tree.children) = ToSet(live.children)
  BY <1>1, NoDifference
<1> QED BY <1>1, <1>2, SameBuild

-----------------------------------------------------------------------------
(* The ids of the objects *)

Paths == Seq(Seq(Tokens))

\* A suffix changes the last segment, each number to one of its own.
LEMMA BumpHolds ==
  ASSUME NumeralsDiffer, NEW id \in Paths, id # <<>>, NEW n \in Nat
  PROVE  /\ Bump(id, n) \in Paths /\ Len(Bump(id, n)) = Len(id)
         /\ \A i \in 1 .. Len(id) - 1 : Bump(id, n)[i] = id[i]
         /\ \A m \in Nat : Bump(id, n) = Bump(id, m) => n = m
<1> DEFINE k == Len(id)
<1>1. k \in Nat /\ k # 0 /\ DOMAIN id = 1 .. k
  <2>1. id \in Seq(Seq(Tokens)) BY DEF Paths
  <2>2. k \in Nat /\ DOMAIN id = 1 .. k BY <2>1
  <2>3. k # 0 BY <2>1, EmptySeq
  <2> QED BY <2>2, <2>3
<1>2. k \in 1 .. k /\ id[k] \in Seq(Tokens)
  <2>1. k \in 1 .. k BY <1>1
  <2> QED BY <1>1, <2>1 DEF Paths
<1>3. ASSUME NEW m \in Nat
      PROVE  /\ Numeral(m) \in Tokens /\ Append(id[k], Numeral(m)) \in Seq(Tokens)
             /\ Append(id[k], Numeral(m))[Len(id[k]) + 1] = Numeral(m)
  <2>1. Numeral(m) \in Tokens BY DEF NumeralsDiffer
  <2> QED BY <1>2, <2>1, AppendProperties
<1>4. ASSUME NEW m \in Nat
      PROVE  Bump(id, m) = [id EXCEPT ![k] = Append(id[k], Numeral(m))]
  BY DEF Bump
<1>5. \A x \in Seq(Tokens) : /\ [id EXCEPT ![k] = x] \in Paths
                             /\ Len([id EXCEPT ![k] = x]) = k
                             /\ [id EXCEPT ![k] = x][k] = x
                             /\ \A i \in 1 .. k - 1 : [id EXCEPT ![k] = x][i] = id[i]
  <2> DEFINE T == Seq(Tokens)
  <2>1. id \in Seq(T) BY DEF Paths
  <2> HIDE DEF k, T
  <2>2. ASSUME NEW x \in T
        PROVE  /\ [id EXCEPT ![k] = x] \in Seq(T) /\ Len([id EXCEPT ![k] = x]) = Len(id)
               /\ [id EXCEPT ![k] = x][k] = x
               /\ \A i \in 1 .. k - 1 : [id EXCEPT ![k] = x][i] = id[i]
    <3>1. \A i \in 1 .. k - 1 : i \in DOMAIN id /\ i # k BY <1>1
    <3> QED BY <1>1, <1>2, <2>1, <3>1
  <2> QED BY <2>2 DEF T, k, Paths
<1>6. ASSUME NEW m \in Nat, Bump(id, n) = Bump(id, m) PROVE n = m
  <2>1. Bump(id, n)[k] = Append(id[k], Numeral(n)) /\ Bump(id, m)[k] = Append(id[k], Numeral(m))
    BY <1>3, <1>4, <1>5
  <2>2. Numeral(n) = Numeral(m) BY <1>3, <1>6, <2>1
  <2> QED BY <2>2 DEF NumeralsDiffer
<1> DEFINE x == Append(id[k], Numeral(n))
<1>7. x \in Seq(Tokens) BY <1>3
<1>8. Bump(id, n) = [id EXCEPT ![k] = x] BY <1>4
<1> HIDE DEF x
<1>9. /\ Bump(id, n) \in Paths /\ Len(Bump(id, n)) = k
      /\ \A i \in 1 .. k - 1 : Bump(id, n)[i] = id[i]
  <2>1. /\ [id EXCEPT ![k] = x] \in Paths /\ Len([id EXCEPT ![k] = x]) = k
        /\ \A i \in 1 .. k - 1 : [id EXCEPT ![k] = x][i] = id[i]
    <3> HIDE DEF k
    <3> QED BY <1>5, <1>7, Zenon
  <2> HIDE DEF k
  <2> QED BY <1>8, <2>1
<1> QED BY <1>6, <1>9

\* An id is fresh, and its first segments are those of the name.
LEMMA FreshIdHolds ==
  ASSUME NumeralsDiffer, NEW base \in Paths, base # <<>>, NEW used, IsFiniteSet(used)
  PROVE  /\ FreshId(base, used) \in Paths \ used /\ Len(FreshId(base, used)) = Len(base)
         /\ \A i \in 1 .. Len(base) - 1 : FreshId(base, used)[i] = base[i]
<1> DEFINE c == Cardinality(used)
           Free == {n \in 1 .. c + 1 : Bump(base, n) \notin used}
           cand == [n \in 1 .. c + 1 |-> Bump(base, n)]
           First(n) == Bump(base, n) \notin used /\ \A m \in 1 .. n - 1 : Bump(base, m) \in used
           k == CHOOSE n \in 1 .. c + 1 : First(n)
<1>1. c \in Nat BY FS_CardinalityType
<1>2. CASE base \notin used
  <2>1. FreshId(base, used) = base BY <1>2 DEF FreshId
  <2> QED BY <1>2, <2>1
<1>3. CASE base \in used
  <2>1. Free # {}
    <3>1. \A i, j \in 1 .. c + 1 : cand[i] = cand[j] => i = j
      <4>1. \A i \in 1 .. c + 1 : i \in Nat BY <1>1
      <4> QED BY <4>1, BumpHolds
    <3>2. c + 1 \in Nat /\ Cardinality(used) < c + 1 BY <1>1
    <3> HIDE DEF cand, c
    <3>3. PICK i \in 1 .. c + 1 : cand[i] \notin used BY <3>1, <3>2, OneIsFree
    <3>4. cand[i] = Bump(base, i) BY DEF cand
    <3> QED BY <3>3, <3>4
  <2>2. PICK n \in Free : \A m \in Free : n <= m
    <3>1. Free \subseteq Nat OBVIOUS
    <3> HIDE DEF Free
    <3> QED BY <2>1, <3>1, LeastNumber
  <2>3. n \in 1 .. c + 1 /\ First(n)
    <3>1. ASSUME NEW m \in 1 .. n - 1, Bump(base, m) \notin used PROVE FALSE
      <4>1. n \in Nat /\ n <= c + 1 OBVIOUS
      <4>2. m \in 1 .. c + 1 /\ m < n BY <1>1, <4>1
      <4>3. m \in Free BY <3>1, <4>2
      <4> QED BY <2>2, <4>1, <4>2, <4>3
    <3> QED BY <3>1
  <2>4. k \in 1 .. c + 1 /\ First(k)
    <3> HIDE DEF First, c
    <3> QED BY <2>3
  <2>5. FreshId(base, used) = Bump(base, k) BY <1>3 DEF FreshId
  <2> HIDE DEF k
  <2>6. k \in Nat BY <1>1, <2>4
  <2> QED BY <2>4, <2>5, <2>6, BumpHolds
<1> QED BY <1>2, <1>3

LEMMA SlugHolds ==
  ASSUME NEW segment \in Seq(Tokens)
  PROVE  Slug(segment) \in Seq(Tokens)
BY KeptHolds DEF Slug

\* Objects with names.
Named(objects) ==
  /\ Len(objects) \in Nat /\ DOMAIN objects = 1 .. Len(objects)
  /\ \A i \in DOMAIN objects : objects[i].name \in Paths /\ objects[i].name # <<>>

LEMMA BaseIdHolds ==
  ASSUME NEW o, o.name \in Paths, o.name # <<>>
  PROVE  /\ BaseId(o) \in Paths /\ BaseId(o) # <<>> /\ Len(BaseId(o)) = Len(o.name)
         /\ BaseId(o)[1] = Slug(o.name[1])
<1> DEFINE name == o.name
           n == Len(name)
<1>1. name \in Seq(Seq(Tokens)) /\ name # <<>> BY DEF Paths
<1>2. n \in Nat /\ n # 0 /\ DOMAIN name = 1 .. n BY <1>1, EmptySeq
<1>3. BaseId(o) = [i \in 1 .. n |-> Slug(name[i])] BY <1>2 DEF BaseId
<1>4. ASSUME NEW i \in 1 .. n PROVE Slug(name[i]) \in Seq(Tokens)
  <2>1. name[i] \in Seq(Tokens) BY <1>1, <1>2
  <2> HIDE DEF name
  <2> QED BY <2>1, SlugHolds
<1> DEFINE T == Seq(Tokens)
           b == [i \in 1 .. n |-> Slug(name[i])]
<1> HIDE DEF n, name
<1>5. b \in [1 .. n -> T] BY <1>4
<1>6. b[1] = Slug(name[1]) BY <1>2
<1> HIDE DEF b, T
<1>7. b \in Seq(T) /\ Len(b) = n BY <1>2, <1>5
<1>8. b # <<>> BY <1>2, <1>7
<1> QED BY <1>3, <1>6, <1>7, <1>8 DEF b, T, Paths, n, name

\* The ids of named objects are apart, and keep the slug of the first of several
\* segments.
LEMMA NodeIdsHold ==
  ASSUME NumeralsDiffer, NEW objects, Named(objects)
  PROVE  /\ NodeIds(objects) \in Seq(Paths) /\ Len(NodeIds(objects)) = Len(objects)
         /\ Apart1(NodeIds(objects))
         /\ \A i \in DOMAIN objects : Len(objects[i].name) >= 2 =>
              NodeIds(objects)[i][1] = Slug(objects[i].name[1])
<1> DEFINE n == Len(objects)
           Kind == Seq(Paths)
           to(x, i) == Append(x, FreshId(BaseId(objects[i]), ToSet(x)))
           IsIds(f) == f = [i \in 0 .. n |-> IF i = 0 THEN <<>> ELSE to(f[i - 1], i)]
           ids == CHOOSE f : IsIds(f)
           step == [x \in Kind \X (1 .. n) |-> to(x[1], x[2])]
<1>1. n \in Nat /\ DOMAIN objects = 1 .. n
      /\ \A i \in 1 .. n : objects[i].name \in Paths /\ objects[i].name # <<>>
  BY DEF Named
<1>2. NodeIds(objects) = ids[n]
  BY DEF NodeIds
<1>3. ASSUME NEW x \in Kind, NEW i \in 1 .. n
      PROVE  LET id == FreshId(BaseId(objects[i]), ToSet(x))
                 base == BaseId(objects[i])
             IN /\ id \in Paths /\ id \notin ToSet(x)
                /\ Len(objects[i].name) >= 2 => id[1] = Slug(objects[i].name[1])
                /\ to(x, i) \in Kind
  <2> DEFINE base == BaseId(objects[i])
             id == FreshId(base, ToSet(x))
  <2>1. /\ base \in Paths /\ base # <<>> /\ Len(base) = Len(objects[i].name)
        /\ base[1] = Slug(objects[i].name[1])
    BY <1>1, BaseIdHolds
  <2>2. IsFiniteSet(ToSet(x)) BY CountedApart
  <2> HIDE DEF base, Kind
  <2>3. /\ id \in Paths /\ id \notin ToSet(x) /\ \A j \in 1 .. Len(base) - 1 : id[j] = base[j]
    BY <2>1, <2>2, FreshIdHolds
  <2> HIDE DEF id
  <2>4. Len(objects[i].name) >= 2 => id[1] = Slug(objects[i].name[1])
    <3>1. Len(base) \in Nat BY <2>1 DEF Paths
    <3>2. Len(base) >= 2 => 1 \in 1 .. Len(base) - 1 BY <3>1
    <3> QED BY <2>1, <2>3, <3>2
  <2>5. Append(x, id) \in Kind BY <2>3, Appended DEF Kind
  <2> QED BY <2>3, <2>4, <2>5 DEF base, id
<1>4. step \in [Kind \X (1 .. n) -> Kind]
  <2>1. ASSUME NEW x \in Kind \X (1 .. n) PROVE to(x[1], x[2]) \in Kind
    <3>1. x[1] \in Kind /\ x[2] \in 1 .. n OBVIOUS
    <3> HIDE DEF to, Kind
    <3> QED BY <3>1, <1>3
  <2> HIDE DEF to
  <2> QED BY <2>1
<1>5. PICK f \in [0 .. n -> Kind] : IsRepeated(f, n, <<>>, step)
  <2> HIDE DEF step
  <2>1. <<>> \in Kind OBVIOUS
  <2> HIDE DEF Kind, n
  <2> QED BY <1>1, <1>4, <2>1, Repeated, Zenon
<1>6. ASSUME NEW i \in 0 .. n PROVE f[i] = IF i = 0 THEN <<>> ELSE to(f[i - 1], i)
  <2> HIDE DEF to, Kind
  <2>1. CASE i = 0 BY <1>5, <2>1 DEF IsRepeated
  <2>2. CASE i # 0
    <3>1. i \in 1 .. n /\ i - 1 \in 0 .. n BY <2>2, <1>1
    <3>2. f[i - 1] \in Kind BY <3>1
    <3>3. step[<<f[i - 1], i>>] = to(f[i - 1], i) BY <3>1, <3>2
    <3> HIDE DEF step
    <3> QED BY <1>5, <2>2, <3>3 DEF IsRepeated
  <2> QED BY <2>1, <2>2
<1>7. IsIds(f)
  <2> HIDE DEF step, Kind, n, to
  <2>1. f = [i \in 0 .. n |-> f[i]] OBVIOUS
  <2> QED BY <2>1, <1>6
<1>8. IsIds(ids)
  <2> HIDE DEF IsIds
  <2> QED BY <1>7
<1>9. ASSUME NEW i \in 0 .. n PROVE ids[i] = IF i = 0 THEN <<>> ELSE to(ids[i - 1], i)
  <2> HIDE DEF ids, n, to
  <2> QED BY <1>8
<1> HIDE DEF ids, IsIds, step
<1> DEFINE Good(i) == /\ ids[i] \in Kind /\ Len(ids[i]) = i /\ Apart1(ids[i])
                      /\ \A j \in 1 .. i : Len(objects[j].name) >= 2 =>
                           ids[i][j][1] = Slug(objects[j].name[1])
           P == {i \in 0 .. n : Good(i)}
<1>10. 0 \in P
  <2>1. ids[0] = <<>> /\ 0 \in 0 .. n BY <1>1, <1>9
  <2>2. <<>> \in Kind /\ Len(<<>>) = 0 /\ Apart1(<<>>) BY DEF Apart1
  <2>3. Good(0)
    <3> HIDE DEF Kind
    <3> QED BY <2>1, <2>2
  <2> HIDE DEF Good
  <2> QED BY <2>1, <2>3
<1>11. ASSUME NEW i \in 1 .. n, i - 1 \in P PROVE i \in P
  <2> DEFINE x == ids[i - 1]
             id == FreshId(BaseId(objects[i]), ToSet(x))
  <2>1. i \in 0 .. n /\ i # 0 /\ i \in Nat BY <1>1
  <2>2. ids[i] = Append(x, id) BY <1>9, <2>1
  <2>3. Good(i - 1)
    <3> HIDE DEF Good
    <3> QED BY <1>11
  <2>4. /\ x \in Kind /\ Len(x) = i - 1 /\ Apart1(x)
        /\ \A j \in 1 .. i - 1 : Len(objects[j].name) >= 2 => x[j][1] = Slug(objects[j].name[1])
    BY <2>3
  <2> HIDE DEF x
  <2>5. /\ id \in Paths /\ id \notin ToSet(x)
        /\ Len(objects[i].name) >= 2 => id[1] = Slug(objects[i].name[1])
    BY <1>3, <2>4
  <2> HIDE DEF id
  <2>6. /\ ids[i] \in Kind /\ Len(ids[i]) = i /\ Apart1(ids[i])
    <3>1. /\ Append(x, id) \in Seq(Paths) /\ Len(Append(x, id)) = Len(x) + 1
          /\ Apart1(x) /\ id \notin ToSet(x) => Apart1(Append(x, id))
      BY <2>4, <2>5, Appended
    <3> QED BY <2>1, <2>2, <2>4, <2>5, <3>1
  <2>7. /\ \A j \in 1 .. i - 1 : ids[i][j] = x[j]
        /\ ids[i][i] = id
    <3>1. /\ \A j \in 1 .. Len(x) : Append(x, id)[j] = x[j]
          /\ Append(x, id)[Len(x) + 1] = id
      BY <2>4, <2>5, AppendProperties
    <3>2. Len(x) + 1 = i BY <2>1, <2>4
    <3> QED BY <2>2, <2>4, <3>1, <3>2
  <2>8. ASSUME NEW j \in 1 .. i, Len(objects[j].name) >= 2
        PROVE  ids[i][j][1] = Slug(objects[j].name[1])
    <3>1. CASE j = i BY <2>5, <2>7, <2>8, <3>1
    <3>2. CASE j # i
      <4>1. j \in 1 .. i - 1 BY <2>1, <3>2
      <4>2. x[j][1] = Slug(objects[j].name[1]) BY <2>4, <2>8, <4>1
      <4> QED BY <2>7, <4>1, <4>2
    <3> QED BY <3>1, <3>2
  <2>9. Good(i)
    <3> HIDE DEF Kind
    <3> QED BY <2>6, <2>8
  <2> HIDE DEF Good
  <2> QED BY <2>1, <2>9
<1>12. Good(n)
  <2> HIDE DEF P
  <2>1. n \in 0 .. n BY <1>1
  <2>2. \A i \in 1 .. n : i - 1 \in P => i \in P BY <1>11
  <2>3. n \in P BY <1>1, <1>10, <2>1, <2>2, UpTo
  <2>4. n \in {i \in 0 .. n : Good(i)} BY <2>3 DEF P
  <2> HIDE DEF Good
  <2> QED BY <2>4
<1> HIDE DEF to
<1>13. /\ ids[n] \in Kind /\ Len(ids[n]) = n /\ Apart1(ids[n])
       /\ \A j \in 1 .. n : Len(objects[j].name) >= 2 => ids[n][j][1] = Slug(objects[j].name[1])
  BY <1>12
<1> QED BY <1>1, <1>2, <1>13

\* Objects of a build, and references, have names.
LEMMA OriginNamed ==
  ASSUME NumeralsDiffer, NEW objects, Origin(objects)
  PROVE  Named(objects)
<1>1. ASSUME NEW s \in Seq(Things) PROVE Named(s)
  <2>1. Len(s) \in Nat /\ DOMAIN s = 1 .. Len(s) /\ \A i \in DOMAIN s : s[i] \in Things BY <1>1
  <2> QED BY <2>1 DEF Named, Things, Paths
<1>2. ASSUME NEW tree, NEW v \in Values, TreeSound(tree), Builds(tree, v), objects = Objects(tree, v)
      PROVE  Named(objects)
  <2> DEFINE T == Below(UNION {PrefixesOf(c) : c \in ToSet(tree.children)})
  <2>1. objects \in Seq(T) BY <1>2, ObjectsHold
  <2>2. T \subseteq Things BY DEF Below
  <2> HIDE DEF T
  <2>3. objects \in Seq(Things) BY <2>1, <2>2, SeqWider
  <2> QED BY <1>1, <2>3
<1>3. ASSUME NEW imports \in Seq(ImportEntries), objects = ReferenceObjects(imports)
      PROVE  Named(objects)
  <2> DEFINE s == References(imports)
             name(i) == <<s[i].id[1], Numeral(s[i].id[2])>>
  <2>1. s \in Seq(ImportEntries) BY KeptHolds DEF References
  <2>2. DOMAIN objects = DOMAIN s /\ \A i \in DOMAIN s : objects[i].name = <<name(i)>>
    BY <1>3 DEF ReferenceObjects
  <2>3. DOMAIN s = 1 .. Len(s) /\ Len(s) \in Nat BY <2>1
  <2>4. ASSUME NEW i \in DOMAIN s PROVE name(i) \in Seq(Tokens)
    <3>1. s[i] \in ImportEntries BY <2>1, <2>4
    <3> HIDE DEF s
    <3>2. s[i].id[1] \in DOMAIN Cad /\ s[i].id[2] \in Nat BY <3>1 DEF ImportEntries, Files
    <3>3. s[i].id[1] \in Tokens /\ Numeral(s[i].id[2]) \in Tokens
      BY <3>2, CallsAssumption DEF NumeralsDiffer
    <3> QED BY <3>3
  <2> HIDE DEF name, s
  <2>5. ASSUME NEW i \in DOMAIN s PROVE <<name(i)>> \in Paths /\ <<name(i)>> # <<>>
    BY <2>4 DEF Paths
  <2>6. Len(objects) = Len(s)
    <3>1. objects = [i \in 1 .. Len(s) |-> objects[i]]
      BY <1>3, <2>3 DEF ReferenceObjects, s
    <3> QED BY <2>3, <3>1
  <2> QED BY <2>2, <2>3, <2>5, <2>6 DEF Named
<1> QED BY <1>2, <1>3 DEF Origin

LEMMA IdsDiffer ==
  ASSUME NumeralsDiffer, Sound
  PROVE  IdsAreDistinct
<1> DEFINE ids == NodeIds(memory.objects)
<1>1. Named(memory.objects) BY OriginNamed DEF Sound, SessionSound
<1>2. ids \in Seq(Paths) /\ Len(ids) = Len(memory.objects) /\ Apart1(ids) BY <1>1, NodeIdsHold
<1> HIDE DEF ids
<1>3. Cardinality(ToSet(ids)) = Len(ids) BY <1>2, CountedApart
<1> QED BY <1>2, <1>3 DEF IdsAreDistinct, ids

\* The count of a part's solids is its own.
LEMMA CountIsOwn ==
  ASSUME NumeralsDiffer, Sound
  PROVE  PartInfoCountsOwn
<1> DEFINE slugs(i) == {Slug(s) : s \in Segments(live, i)}
           objects == memory.objects
           ids == NodeIds(objects)
           own(id) == {i \in DOMAIN objects : objects[i].solid /\ objects[i].name[1] \in Segments(live, id)}
           counted(id) == {i \in DOMAIN objects : objects[i].solid /\ ids[i][1] \in slugs(id)}
<1> SUFFICES ASSUME ~stray, memory.composed, NEW id \in Ids(live),
                    \A other \in Ids(live) \ {id} : slugs(id) \cap slugs(other) = {}
             PROVE  PartSolids(live, id, objects) = Cardinality(own(id))
  BY DEF PartInfoCountsOwn
<1>1. /\ TreeSound(live) /\ memory.value \in Values /\ Builds(live, memory.value)
      /\ objects = Objects(live, memory.value)
  BY DEF Sound, SessionSound, FilesSound, ModelIsItsFiles
<1>2. PartSolids(live, id, objects) = Cardinality(counted(id))
  BY DEF PartSolids
<1>3. objects \in Seq(Below(UNION {PrefixesOf(c) : c \in ToSet(live.children)}))
  BY <1>1, ObjectsHold
<1>4. Named(objects) BY OriginNamed DEF Sound, SessionSound
<1> HIDE DEF objects, ids
<1>5. ASSUME NEW i \in DOMAIN objects
      PROVE  /\ ids[i][1] = Slug(objects[i].name[1])
             /\ \E k \in Ids(live) : objects[i].name[1] \in Segments(live, k)
  <2> DEFINE U == UNION {PrefixesOf(c) : c \in ToSet(live.children)}
  <2> HIDE DEF U
  <2>1. objects[i] \in Below(U) BY <1>3 DEF U
  <2>2. Len(objects[i].name) >= 2 /\ objects[i].name[1] \in U BY <2>1 DEF Below
  <2>3. ids[i][1] = Slug(objects[i].name[1]) BY <1>4, <2>2, NodeIdsHold DEF ids
  <2>4. PICK c \in ToSet(live.children) : objects[i].name[1] \in PrefixesOf(c) BY <2>2 DEF U
  <2>5. c.id \in Ids(live) BY DEF Ids
  <2>6. Child(live, c.id) = c BY <1>1, ChildIsFound DEF TreeSound
  <2>7. Segments(live, c.id) = PrefixesOf(c) BY <2>6 DEF Segments, PrefixesOf
  <2> QED BY <2>3, <2>4, <2>5, <2>7
<1>6. ASSUME NEW i \in DOMAIN objects
      PROVE  ids[i][1] \in slugs(id) <=> objects[i].name[1] \in Segments(live, id)
  <2> DEFINE name == objects[i].name[1]
  <2>1. ids[i][1] = Slug(name) BY <1>5
  <2>2. PICK k \in Ids(live) : name \in Segments(live, k) BY <1>5
  <2> HIDE DEF name
  <2>3. name \in Segments(live, id) => Slug(name) \in slugs(id) OBVIOUS
  <2>4. Slug(name) \in slugs(k) BY <2>2
  <2>5. k # id => slugs(id) \cap slugs(k) = {} OBVIOUS
  <2> HIDE DEF slugs
  <2>6. Slug(name) \in slugs(id) => name \in Segments(live, id) BY <2>2, <2>4, <2>5
  <2> QED BY <2>1, <2>3, <2>6 DEF name
<1>7. counted(id) = own(id)
  <2> HIDE DEF slugs
  <2> QED BY <1>6
<1> QED BY <1>2, <1>7

\* What is reported without a build agrees with what a build makes, through any
\* calls and edits by hand, when numbers have tokens of their own: the interface
\* check finds what a build would raise, a diff without a difference means the same
\* objects, no two objects share an id, and a part's solids are counted as its own.
THEOREM Reports == NumeralsDiffer => (Spec => []ReportsAgree)
<1> SUFFICES ASSUME NumeralsDiffer PROVE Spec => []ReportsAgree
  OBVIOUS
<1>1. Sound => ReportsAgree
  <2> SUFFICES ASSUME Sound PROVE ReportsAgree OBVIOUS
  <2>1. IssuesPredictBuild BY CheckPredicts DEF IssuesPredictBuild
  <2> QED BY <2>1, DiffTells, IdsDiffer, CountIsOwn DEF ReportsAgree
<1> QED BY <1>1, AlwaysSound, PTL
===============================================================================
