-------------------------- MODULE AuthoringProofs --------------------------
(***************************************************************************)
(* Proofs about Authoring, for any parts and any number of writes,         *)
(* commits, crashes and failures: the session's state agrees with its      *)
(* files and its history between calls, a parameter change never replaces  *)
(* a structural edit, and the timeline file implements Timeline.           *)
(*                                                                         *)
(* The properties speak of the idle session; InStep is what holds in the   *)
(* middle of a call too.  Its parts are proved one after the other, each   *)
(* from those before it: Shape (types, and which calls have which steps),  *)
(* Vouched (what was published), Remembered (memory and settings), Lineage *)
(* (branch, cursor and parents), Matched (the files and the commits),      *)
(* TipOpen (the commit of a burst) and Filed (the file, the branch and     *)
(* memory while a call saves them).                                        *)
(*                                                                         *)
(* Chain is defined by recursion on the parent of a commit.  That the      *)
(* recursion has a solution, what its values look like and that a commit   *)
(* extends them is proved by way of a least counterexample.                *)
(***************************************************************************)
EXTENDS Authoring, WellFoundedInduction, SequenceTheorems, TLAPS

-----------------------------------------------------------------------------
(* The line of commits that git has *)

Rooted(S) ==
  /\ Len(S) \in Nat
  /\ \A id \in 1 .. Len(S) : S[id].parent \in 0 .. id - 1
IsChain(f, S, n) ==
  f = [id \in 0 .. n |-> IF id = 0 THEN <<>> ELSE Append(f[S[id].parent], id)]
ChainOf(S) == CHOOSE f : IsChain(f, S, Len(S))

\* A set of numbers has a least one: what takes the place of induction here.
LEMMA LeastNumber ==
  ASSUME NEW Numbers, Numbers \subseteq Nat, Numbers # {}
  PROVE  \E n \in Numbers : \A m \in Numbers : n <= m
<1> DEFINE R == {ss \in Nat \X Nat : ss[1] < ss[2]}
<1>1. IsWellFoundedOn(R, Nat)
  BY NatLessThanWellFounded DEF OpToRel
<1>2. PICK n \in Numbers : \A m \in Numbers : ~(<<m, n>> \in R)
  BY <1>1, WFMin
<1>3. ASSUME NEW m \in Numbers PROVE n <= m
  <2>1. m \in Nat /\ n \in Nat OBVIOUS
  <2>2. ~(m < n) BY <1>2, <2>1
  <2> QED BY <2>1, <2>2
<1> QED BY <1>3

\* The definition by recursion of Chain has a solution whenever every parent
\* is older than its child.
LEMMA ChainExists ==
  ASSUME NEW S, Rooted(S)
  PROVE  \E f : IsChain(f, S, Len(S))
<1> DEFINE Bad == {n \in 0 .. Len(S) : ~ \E f : IsChain(f, S, n)}
<1>1. SUFFICES ASSUME Bad # {} PROVE FALSE
  BY DEF Rooted
<1>2. PICK n \in Bad : \A m \in Bad : n <= m
  <2>1. Bad \subseteq Nat BY DEF Rooted
  <2> HIDE DEF Bad
  <2> QED BY <1>1, <2>1, LeastNumber
<1>3. n \in 0 .. Len(S) /\ ~ \E f : IsChain(f, S, n)
  OBVIOUS
<1>4. n # 0
  <2>1. IsChain([id \in 0 .. 0 |-> <<>>], S, 0)
    BY DEF IsChain
  <2> QED BY <1>3, <2>1
<1>5. n - 1 \in 0 .. Len(S) /\ n - 1 \in Nat /\ n \in Nat /\ n \in 1 .. Len(S)
  BY <1>3, <1>4 DEF Rooted
<1>7. n - 1 \notin Bad
  BY <1>2, <1>5
<1>8. PICK f : IsChain(f, S, n - 1)
  BY <1>5, <1>7
<1> DEFINE g == [id \in 0 .. n |-> IF id = n THEN Append(f[S[n].parent], n) ELSE f[id]]
<1>9. S[n].parent \in 0 .. n - 1
  BY <1>5 DEF Rooted
<1>10. ASSUME NEW id \in 0 .. n
       PROVE  g[id] = IF id = 0 THEN <<>> ELSE Append(g[S[id].parent], id)
  <2>1. CASE id = n
    BY <2>1, <1>4, <1>5, <1>9
  <2>2. CASE id # n
    <3>1. id \in 0 .. n - 1 BY <2>2, <1>5
    <3>2. f[id] = IF id = 0 THEN <<>> ELSE Append(f[S[id].parent], id)
      BY <3>1, <1>8 DEF IsChain
    <3>3. id # 0 => S[id].parent \in 0 .. id - 1
      BY <3>1, <1>5 DEF Rooted
    <3>4. id # 0 => g[S[id].parent] = f[S[id].parent]
      BY <3>1, <3>3, <1>5
    <3> QED BY <2>2, <3>1, <3>2, <3>4
  <2> QED BY <2>1, <2>2
<1>11. IsChain(g, S, n)
  <2>1. g = [id \in 0 .. n |-> g[id]] OBVIOUS
  <2> HIDE DEF g
  <2>2. [id \in 0 .. n |-> g[id]] = [id \in 0 .. n |-> IF id = 0 THEN <<>> ELSE Append(g[S[id].parent], id)]
    BY <1>10
  <2> QED BY <2>1, <2>2 DEF IsChain
<1> QED BY <1>3, <1>11

\* So ChainOf is a solution.
LEMMA ChainDefined ==
  ASSUME NEW S, Rooted(S)
  PROVE  IsChain(ChainOf(S), S, Len(S))
<1>1. \E f : IsChain(f, S, Len(S)) BY ChainExists
<1> QED BY <1>1 DEF ChainOf

\* Chain is that solution for the store.
LEMMA ChainIs == Chain = ChainOf(store)
BY DEF Chain, ChainOf, IsChain

\* What the chain of a commit looks like: older commits only, ending with it.
LEMMA ChainShape ==
  ASSUME NEW S, Rooted(S), NEW f, IsChain(f, S, Len(S))
  PROVE  /\ \A id \in 0 .. Len(S) : f[id] \in Seq(1 .. id) /\ Len(f[id]) <= id
         /\ f[0] = <<>>
         /\ \A id \in 1 .. Len(S) : f[id] = Append(f[S[id].parent], id)
<1>1. \A id \in 0 .. Len(S) : f[id] = IF id = 0 THEN <<>> ELSE Append(f[S[id].parent], id)
  BY DEF IsChain
<1>2. f[0] = <<>> /\ \A id \in 1 .. Len(S) : f[id] = Append(f[S[id].parent], id)
  <2>1. 0 \in 0 .. Len(S)
    BY DEF Rooted
  <2>2. ASSUME NEW id \in 1 .. Len(S) PROVE f[id] = Append(f[S[id].parent], id)
    <3>1. id \in 0 .. Len(S) /\ id # 0
      BY DEF Rooted
    <3> QED BY <1>1, <3>1, Zenon
  <2> QED BY <1>1, <2>1, <2>2, Zenon
<1> DEFINE Good(id) == f[id] \in Seq(1 .. id) /\ Len(f[id]) <= id
           Bad == {id \in 0 .. Len(S) : ~Good(id)}
<1>3. ASSUME Bad # {} PROVE FALSE
  <2>1. PICK n \in Bad : \A m \in Bad : n <= m
    <3>1. Bad \subseteq Nat BY DEF Rooted
    <3> HIDE DEF Bad
    <3> QED BY <1>3, <3>1, LeastNumber
  <2>2. n # 0
    <3>1. <<>> \in Seq(1 .. 0) /\ Len(<<>>) = 0
      OBVIOUS
    <3>2. Good(0)
      BY <1>2, <3>1
    <3> HIDE DEF Good
    <3> QED BY <2>1, <3>2
  <2>3. n \in 1 .. Len(S) /\ n \in Nat
    BY <2>2 DEF Rooted
  <2> DEFINE p == S[n].parent
  <2>4. p \in 0 .. n - 1 /\ p \in 0 .. Len(S)
    BY <2>3 DEF Rooted
  <2>5. Good(p)
    BY <2>1, <2>3, <2>4
  <2>6. f[n] = Append(f[p], n)
    BY <1>2, <2>3
  <2> HIDE DEF p
  <2>7. f[p] \in Seq(1 .. n) /\ Len(f[p]) <= n - 1
    <3>1. 1 .. p \subseteq 1 .. n
      BY <2>3, <2>4
    <3>2. f[p] \in Seq(1 .. p) /\ Len(f[p]) \in Nat
      BY <2>5
    <3> QED BY <2>3, <2>4, <2>5, <3>1, <3>2
  <2>8. f[n] \in Seq(1 .. n) /\ Len(f[n]) <= n
    BY <2>3, <2>6, <2>7
  <2> QED BY <2>8
<1> QED BY <1>2, <1>3

\* An earlier commit of a chain has what is before it for its own chain.
LEMMA ChainPrefix ==
  ASSUME NEW S, Rooted(S), NEW f, IsChain(f, S, Len(S)),
         NEW id \in 0 .. Len(S), NEW i \in 1 .. Len(f[id])
  PROVE  f[f[id][i]] = SubSeq(f[id], 1, i)
<1> DEFINE Good(n) == \A k \in 1 .. Len(f[n]) : f[f[n][k]] = SubSeq(f[n], 1, k)
           Bad == {n \in 0 .. Len(S) : ~Good(n)}
<1>1. /\ \A n \in 0 .. Len(S) : f[n] \in Seq(1 .. n) /\ Len(f[n]) <= n
      /\ f[0] = <<>>
      /\ \A n \in 1 .. Len(S) : f[n] = Append(f[S[n].parent], n)
  BY ChainShape
<1>2. ASSUME Bad # {} PROVE FALSE
  <2>1. PICK n \in Bad : \A m \in Bad : n <= m
    <3>1. Bad \subseteq Nat BY DEF Rooted
    <3> HIDE DEF Bad
    <3> QED BY <1>2, <3>1, LeastNumber
  <2>2. n # 0
    <3>1. Len(f[0]) = 0
      <4>1. f[0] = <<>> BY <1>1
      <4> HIDE <1>1
      <4> QED BY <4>1
    <3>2. Good(0)
      <4>1. 1 .. Len(f[0]) = {} BY <3>1
      <4> QED BY <4>1
    <3> HIDE DEF Good
    <3> QED BY <2>1, <3>2
  <2>3. n \in 1 .. Len(S) /\ n \in Nat
    BY <2>2 DEF Rooted
  <2> DEFINE p == S[n].parent
  <2>4. p \in 0 .. n - 1 /\ p \in 0 .. Len(S)
    BY <2>3 DEF Rooted
  <2>5. Good(p)
    <3> HIDE DEF Good
    <3> QED BY <2>1, <2>3, <2>4
  <2>6. f[n] = Append(f[p], n) /\ f[p] \in Seq(1 .. p) /\ f[n] \in Seq(1 .. n)
    <3>1. f[n] = Append(f[p], n)
      BY <1>1, <2>3
    <3>2. n \in 0 .. Len(S)
      BY <2>3
    <3> HIDE DEF p
    <3> QED BY <1>1, <2>4, <3>1, <3>2, Zenon
  <2> HIDE DEF p
  <2>7. ASSUME NEW k \in 1 .. Len(f[n]) PROVE f[f[n][k]] = SubSeq(f[n], 1, k)
    <3>1. Len(f[p]) \in Nat /\ Len(f[n]) = Len(f[p]) + 1 /\ k \in Nat
      BY <2>6
    <3>2. CASE k = Len(f[p]) + 1
      <4>1. f[n][k] = n
        BY <2>6, <3>1, <3>2
      <4>2. SubSeq(f[n], 1, k) = f[n]
        BY <2>6, <3>1, <3>2, SubSeqFull
      <4> QED BY <4>1, <4>2
    <3>3. CASE k # Len(f[p]) + 1
      <4>1. k \in 1 .. Len(f[p])
        BY <3>1, <3>3
      <4>2. f[n][k] = f[p][k]
        BY <2>6, <4>1
      <4>3. SubSeq(f[n], 1, k) = SubSeq(f[p], 1, k)
        BY <2>6, <4>1, <3>1
      <4> QED BY <2>5, <4>1, <4>2, <4>3
    <3> QED BY <3>2, <3>3
  <2> QED BY <2>7
<1> QED BY <1>2

\* A new commit leaves every chain as it was and gets its parent's for its own.
LEMMA ChainGrows ==
  ASSUME NEW S, Rooted(S), NEW f, IsChain(f, S, Len(S)),
         NEW R, Rooted(R), NEW g, IsChain(g, R, Len(R)),
         Len(R) = Len(S) + 1, \A id \in 1 .. Len(S) : R[id] = S[id]
  PROVE  /\ \A id \in 0 .. Len(S) : g[id] = f[id]
         /\ g[Len(R)] = Append(f[R[Len(R)].parent], Len(R))
<1>1. /\ f[0] = <<>> /\ g[0] = <<>>
      /\ \A n \in 1 .. Len(S) : f[n] = Append(f[S[n].parent], n)
      /\ \A n \in 1 .. Len(R) : g[n] = Append(g[R[n].parent], n)
  BY ChainShape
<1> DEFINE Bad == {n \in 0 .. Len(S) : g[n] # f[n]}
<1>2. ASSUME Bad # {} PROVE FALSE
  <2>1. PICK n \in Bad : \A m \in Bad : n <= m
    <3>1. Bad \subseteq Nat BY DEF Rooted
    <3> HIDE DEF Bad
    <3> QED BY <1>2, <3>1, LeastNumber
  <2>2. n \in 1 .. Len(S) /\ n \in 1 .. Len(R) /\ n \in Nat
    BY <1>1 DEF Rooted
  <2>3. S[n].parent \in 0 .. n - 1 /\ R[n] = S[n]
    BY <2>2 DEF Rooted
  <2>4. g[S[n].parent] = f[S[n].parent]
    BY <2>1, <2>2, <2>3
  <2> QED BY <1>1, <2>2, <2>3, <2>4
<1>3. \A id \in 0 .. Len(S) : g[id] = f[id]
  BY <1>2
<1>4. Len(R) \in 1 .. Len(R) /\ R[Len(R)].parent \in 0 .. Len(S)
  BY DEF Rooted
<1>5. g[Len(R)] = Append(g[R[Len(R)].parent], Len(R))
  BY <1>1, <1>4
<1> QED BY <1>3, <1>4, <1>5

-----------------------------------------------------------------------------
(* Trees *)

\* The tracked files of a tree are a snapshot.
LEMMA OfTree ==
  ASSUME NEW tree \in Trees
  PROVE  Of(tree) \in Snapshots /\ \A f \in Tracked : Of(tree)[f] = tree[f]
BY DEF Of, Trees, Snapshots, Files, Tracked

\* Mirroring leaves the tracked files as the generation has them.
LEMMA MirrorTree ==
  ASSUME live \in Trees, NEW tree \in Trees
  PROVE  /\ Mirror(tree) \in Trees
         /\ \A f \in Tracked : Mirror(tree)[f] = tree[f]
         /\ Of(Mirror(tree)) = Of(tree)
         /\ Mirror(live) = live
<1>1. \A f \in Tracked : f \in Files /\ f # "brief"
  BY AuthoringAssumption DEF Files, Tracked, Sources
<1>2. Mirror(tree) \in Trees /\ \A f \in Tracked : Mirror(tree)[f] = tree[f]
  BY <1>1 DEF Mirror, Trees
<1>3. Of(Mirror(tree)) = Of(tree)
  BY <1>2 DEF Of
<1>4. Mirror(live) = live
  <2>1. \A f \in Files : Mirror(live)[f] = live[f] BY DEF Mirror
  <2>2. Mirror(live) \in Trees BY DEF Mirror, Trees
  <2> QED BY <2>1, <2>2 DEF Trees
<1> QED BY <1>2, <1>3, <1>4

\* Restoring a snapshot replaces the tracked files and no other.
LEMMA WithTree ==
  ASSUME live \in Trees, NEW tree \in Snapshots
  PROVE  /\ With(tree) \in Trees
         /\ Of(With(tree)) = tree
         /\ \A f \in Tracked : With(tree)[f] = tree[f]
<1>1. Tracked \subseteq Files
  BY DEF Files
<1>2. With(tree) \in Trees /\ \A f \in Tracked : With(tree)[f] = tree[f]
  BY <1>1 DEF With, Trees, Snapshots
<1> QED BY <1>1, <1>2 DEF Of, Snapshots

\* What a publication leaves.
LEMMA Published ==
  ASSUME TypeOK, NEW tree \in Trees, NEW params \in Versions, Publish(tree, params)
  PROVE  /\ selected' = [tree |-> tree, params |-> params]
         /\ selected' \in [tree : Trees, params : Versions]
         /\ live' \in Trees /\ Of(live') = Of(tree)
         /\ \A f \in Tracked : live'[f] = tree[f]
         /\ published' = published \cup {Of(tree)} /\ published' \subseteq Snapshots
<1>1. live \in Trees /\ published \subseteq Snapshots
  BY DEF TypeOK
<1> QED BY <1>1, MirrorTree, OfTree DEF Publish

\* The calls that publish once and go on to their commit: the tree that they
\* build has the settings that it is built with and that memory then has.
BuildCall(tree, params, kind) ==
  /\ Idle /\ Built(tree, params, kind)
  /\ tree["settings"] = params
  /\ mem' \in [params : Versions, code : Versions] /\ mem'.params = params
  /\ ~assembly => mem'.code = tree["skeleton"]
  /\ round' \in {round, NoRound} /\ ~round'.active
  /\ clock' \in Versions

BuildAction ==
  \/ ExecuteScript \/ RunFile \/ SetSkeleton \/ SetParams \/ EndRound
  \/ \E p \in Parts : SetPart(p) \/ Rewire(p) \/ RemovePart(p)

\* What an action with a successful build does to the state.
LEMMA BuildCalls ==
  ASSUME TypeOK, round.active => assembly,
         BuildAction
  PROVE  \E tree \in Trees, params \in Versions, kind \in {"edit", "params"} : BuildCall(tree, params, kind)
<1> USE DEF BuildCall
<1>1. /\ live \in [Files -> Versions] /\ mem \in [params : Versions, code : Versions]
      /\ 0 \in Versions /\ clock \in Versions /\ round.clone \in [Files -> Versions]
  <2>1. live \in Trees /\ mem \in [params : Versions, code : Versions] /\ clock \in Versions /\ round.clone \in Trees
    BY DEF TypeOK
  <2>2. 0 \in Versions
    BY AuthoringAssumption DEF Versions
  <2> QED BY <2>1, <2>2 DEF Trees
<1>2. /\ "skeleton" \in Files /\ "settings" \in Files /\ Parts \subseteq Files
      /\ "skeleton" # "settings" /\ \A p \in Parts : p # "settings"
  BY AuthoringAssumption DEF Files, Tracked, Sources
<1>3. Write => clock' \in Versions
  BY <1>1, AuthoringAssumption DEF Write, Versions
<1>4. ~NoRound.active
  BY DEF NoRound
<1>5. ASSUME NEW p \in Parts, SetPart(p)
      PROVE  \E tree \in Trees, params \in Versions, kind \in {"edit", "params"} : BuildCall(tree, params, kind)
  <2> DEFINE tree == [live EXCEPT ![p] = clock', !["settings"] = mem.params]
  <2>1. tree \in Trees /\ tree["settings"] = mem.params
    BY <1>1, <1>2, <1>3, <1>5 DEF Trees, SetPart
  <2> HIDE DEF tree
  <2>2. BuildCall(tree, mem.params, "edit")
    BY <1>1, <1>3, <1>5, <2>1 DEF SetPart, Outside, tree
  <2> QED BY <1>1, <2>1, <2>2
<1>6. ASSUME NEW p \in Parts, RemovePart(p)
      PROVE  \E tree \in Trees, params \in Versions, kind \in {"edit", "params"} : BuildCall(tree, params, kind)
  <2> DEFINE tree == [live EXCEPT ![p] = Absent, !["settings"] = mem.params]
  <2>1. tree \in Trees /\ tree["settings"] = mem.params
    BY <1>1, <1>2 DEF Trees, Absent
  <2> HIDE DEF tree
  <2>2. BuildCall(tree, mem.params, "edit")
    BY <1>1, <1>6, <2>1 DEF RemovePart, Outside, tree
  <2> QED BY <1>1, <2>1, <2>2
<1>7. CASE ExecuteScript
  <2> DEFINE tree == [live EXCEPT !["skeleton"] = clock', !["settings"] = 0]
  <2>1. tree \in Trees /\ tree["settings"] = 0 /\ tree["skeleton"] = clock'
    BY <1>1, <1>2, <1>3, <1>7 DEF Trees, ExecuteScript
  <2> HIDE DEF tree
  <2>2. BuildCall(tree, 0, "edit")
    BY <1>1, <1>3, <1>7, <2>1 DEF ExecuteScript, tree
  <2> QED BY <1>1, <2>1, <2>2
<1>8. CASE RunFile
  <2> DEFINE tree == [live EXCEPT !["settings"] = 0]
  <2>1. tree \in Trees /\ tree["settings"] = 0 /\ tree["skeleton"] = live["skeleton"] /\ live["skeleton"] \in Versions
    BY <1>1, <1>2 DEF Trees
  <2> HIDE DEF tree
  <2>2. BuildCall(tree, 0, "edit")
    BY <1>1, <1>8, <2>1 DEF RunFile, tree
  <2> QED BY <1>1, <2>1, <2>2
<1>9. CASE SetSkeleton
  <2> DEFINE tree == [live EXCEPT !["skeleton"] = clock', !["settings"] = 0]
  <2>1. tree \in Trees /\ tree["settings"] = 0
    BY <1>1, <1>2, <1>3, <1>9 DEF Trees, SetSkeleton
  <2> HIDE DEF tree
  <2>2. BuildCall(tree, 0, "edit")
    BY <1>1, <1>3, <1>9, <2>1 DEF SetSkeleton, Outside, tree
  <2> QED BY <1>1, <2>1, <2>2
<1>10. CASE SetParams
  <2> DEFINE tree == [live EXCEPT !["settings"] = clock']
  <2>1. tree \in Trees /\ tree["settings"] = clock' /\ tree["skeleton"] = live["skeleton"]
    BY <1>1, <1>2, <1>3, <1>10 DEF Trees, SetParams
  <2> HIDE DEF tree
  <2>2. BuildCall(tree, clock', "params")
    BY <1>1, <1>3, <1>10, <2>1 DEF SetParams, Outside, tree
  <2> QED BY <1>3, <1>10, <2>1, <2>2 DEF SetParams
<1>11. CASE EndRound
  <2> DEFINE tree == [round.clone EXCEPT !["settings"] = mem.params]
  <2>1. tree \in Trees /\ tree["settings"] = mem.params
    BY <1>1, <1>2 DEF Trees
  <2> HIDE DEF tree
  <2>2. BuildCall(tree, mem.params, "edit")
    BY <1>1, <1>4, <1>11, <2>1 DEF EndRound, tree
  <2> QED BY <1>1, <2>1, <2>2
<1>12. CASE \E p \in Parts : SetPart(p) \/ Rewire(p) \/ RemovePart(p)
  <2>1. PICK p \in Parts : SetPart(p) \/ RemovePart(p)
    BY <1>12 DEF Rewire
  <2> QED BY <1>5, <1>6, <2>1
<1> QED BY <1>7, <1>8, <1>9, <1>10, <1>11, <1>12 DEF BuildAction

-----------------------------------------------------------------------------
(* The shape of the states: every name is one that the store has *)

At(S) == job.at \in S
RestoreSteps == {"files", "branch", "cursor", "rebuild", "revert"}
SecondBuild == job.at = "params" /\ job.kind = "restore"
Restoring == At(RestoreSteps) \/ SecondBuild
Starting == At({"down", "build"}) \/ (job.at = "params" /\ job.kind = "startup")

\* The timeline names commits of the store, and a commit is younger than its parent.
Grown ==
  /\ \A id \in 1 .. Len(store) : store[id].parent \in 0 .. id - 1
  /\ commits \in Seq(1 .. Len(store)) /\ Len(commits) <= Len(store)
  /\ saved.commits \in Seq(1 .. Len(store)) /\ Len(saved.commits) <= Len(store)
  /\ index \in 0 .. Len(commits) /\ (commits # <<>> => index > 0)
  /\ saved.index \in 0 .. Len(saved.commits) /\ (saved.commits # <<>> => saved.index > 0)
  /\ branch \in 0 .. Len(store) /\ (branch = 0 => store = <<>>)
  /\ vouched \subseteq 1 .. Len(store) /\ sealed \subseteq 1 .. Len(store)

\* Which calls have which steps.
KindsFit ==
  /\ job.at = "build" => job.kind = "startup"
  /\ job.at = "params" => job.kind \in {"imports", "restore", "startup"}
  /\ At(RestoreSteps) => job.kind = "restore"
  /\ At({"commit", "save"}) => job.kind \in {"edit", "params", "imports", "checkpoint", "startup"}
  /\ SecondBuild => ~assembly
  /\ round.active =>
       /\ assembly /\ At({"idle", "commit", "save", "down"})
       /\ At({"commit", "save"}) => job.kind = "checkpoint"

\* A call that will commit has room for its commits.
Room ==
  /\ job.at = "commit" => Len(store) < MaxCommits
  /\ job.kind = "imports" /\ At({"params", "commit"}) => Len(store) + 2 <= MaxCommits
  /\ job.kind = "imports" /\ job.at = "save" => Len(store) < MaxCommits
  /\ Starting /\ job.at # "down" /\ commits = <<>> => store = <<>>

\* Where a restore goes, and where it came from, is in the timeline.
Targets == Restoring =>
  /\ job.to \in 1 .. Len(commits)
  /\ job.snap.index \in 1 .. Len(commits)
  /\ job.snap.branch \in 1 .. Len(store)

Shape == TypeOK /\ Grown /\ KindsFit /\ Room /\ Targets

HistoryStep ==
  Commit \/ SaveTimeline \/ RestoreBranch \/ RestoreCursor \/ Revert \/ Restart

\* Apart from the steps of the history nothing touches the timeline.
LEMMA QuietSteps ==
  ASSUME Next, ~HistoryStep
  PROVE  UNCHANGED <<commits, index, saved, branch, store, vouched, sealed>>
<1> USE DEF timeline
<1>1. CASE Edit
  BY <1>1 DEF Edit, ExecuteScript, RunFile, SetSkeleton, SetPart, Rewire, RemovePart, SetParams, Republish,
              Rerender, SetImports, WriteFile, Built, observed
<1>2. CASE Round
  BY <1>2 DEF Round, BeginRound, SetRoundPart, SetRoundPartFails, EndRound, AbortRound,
              SetImportsInRound, Built, observed
<1>3. CASE Step
  BY <1>3 DEF Step, HistoryStep, CommitFails, RestoreFiles, Rebuild, RebuildFails, SetSaved,
              SetSavedFails, Startup, StartupFails, observed
<1>4. CASE Checkpoint \/ BurstEnds \/ Crash \/ \E i \in 1 .. Len(commits) : Restore(i)
  BY <1>4 DEF Checkpoint, BurstEnds, Crash, Restore, observed
<1> QED BY <1>1, <1>2, <1>3, <1>4 DEF Next

\* The store of a state of this shape.
LEMMA StoreType ==
  ASSUME Shape
  PROVE  /\ Len(store) \in Nat /\ DOMAIN store = 1 .. Len(store)
         /\ \A id \in 1 .. Len(store) : store[id].tree \in Snapshots /\ store[id].parent \in 0 .. id - 1
         /\ Rooted(store)
         /\ \A i \in 1 .. Len(commits) : commits[i] \in 1 .. Len(store)
         /\ Len(commits) \in Nat /\ Len(saved.commits) \in Nat /\ MaxCommits \in Nat
<1>1. store \in Seq([tree : Snapshots, parent : Ids \cup {0}]) /\ MaxCommits \in Nat
  BY AuthoringAssumption DEF Shape, TypeOK
<1>2. Len(store) \in Nat /\ DOMAIN store = 1 .. Len(store)
  BY <1>1
<1>3. ASSUME NEW id \in 1 .. Len(store) PROVE store[id].tree \in Snapshots
  <2>1. store[id] \in [tree : Snapshots, parent : Ids \cup {0}]
    BY <1>1, ElementOfSeq
  <2> QED BY <2>1
<1>4. Grown
  BY DEF Shape
<1>5. \A i \in 1 .. Len(commits) : commits[i] \in 1 .. Len(store)
  BY <1>4, ElementOfSeq DEF Grown
<1>6. Len(commits) \in Nat /\ Len(saved.commits) \in Nat
  BY <1>4, LenProperties DEF Grown
<1>7. \A id \in 1 .. Len(store) : store[id].parent \in 0 .. id - 1
  BY <1>4 DEF Grown
<1> QED BY <1>1, <1>2, <1>3, <1>5, <1>6, <1>7 DEF Rooted

\* Chain in a state of this shape.
LEMMA ChainNow ==
  ASSUME Shape
  PROVE  IsChain(Chain, store, Len(store))
BY StoreType, ChainIs, ChainDefined

\* A commit that amends has a tip to amend.
LEMMA Amended ==
  ASSUME Shape, job.at = "commit", Replaces
  PROVE  branch \in 1 .. Len(store) /\ index \in 1 .. Len(commits) /\ index = Len(commits)
<1>1. commits # <<>> => Len(commits) # 0
  BY DEF Shape, Grown
<1>2. store = <<>> => Len(store) = 0
  OBVIOUS
<1> QED BY <1>1, <1>2, StoreType DEF Shape, Grown, Replaces, AtTip

\* The store after a commit: one more, the child of the branch or of its parent.
LEMMA CommitStore ==
  ASSUME Shape, Commit
  PROVE  /\ Len(store') = Len(store) + 1
         /\ \A id \in 1 .. Len(store) : store'[id] = store[id]
         /\ store'[Len(store')].tree = Of(live)
         /\ store'[Len(store')].parent = (IF Replaces THEN store[branch].parent ELSE branch)
         /\ store'[Len(store')].parent \in 0 .. Len(store)
         /\ store' \in Seq([tree : Snapshots, parent : Ids \cup {0}])
         /\ Rooted(store')
<1> DEFINE parent == IF Replaces THEN store[branch].parent ELSE branch
<1>1. job.at = "commit" /\ store' = Append(store, [tree |-> Of(live), parent |-> parent])
  BY DEF Commit
<1>2. parent \in 0 .. Len(store)
  BY <1>1, StoreType, Amended DEF Shape, Grown
<1>3. Len(store) < MaxCommits /\ store \in Seq([tree : Snapshots, parent : Ids \cup {0}]) /\ live \in Trees
  BY <1>1 DEF Shape, Room, TypeOK
<1>4. [tree |-> Of(live), parent |-> parent] \in [tree : Snapshots, parent : Ids \cup {0}]
  BY <1>2, <1>3, OfTree, StoreType DEF Ids
<1> HIDE DEF parent
<1>5. /\ Len(store') = Len(store) + 1
      /\ \A id \in 1 .. Len(store) : store'[id] = store[id]
      /\ store'[Len(store')] = [tree |-> Of(live), parent |-> parent]
      /\ store' \in Seq([tree : Snapshots, parent : Ids \cup {0}])
  BY <1>1, <1>3, <1>4
<1>6. Rooted(store')
  <2>1. ASSUME NEW id \in 1 .. Len(store') PROVE store'[id].parent \in 0 .. id - 1
    <3>1. CASE id = Len(store')
      BY <3>1, <1>2, <1>5
    <3>2. CASE id # Len(store')
      BY <3>2, <1>5, StoreType
    <3> QED BY <3>1, <3>2
  <2> QED BY <2>1, <1>5, StoreType DEF Rooted
<1> QED BY <1>2, <1>5, <1>6 DEF parent

\* The timeline after a commit: what is before the cursor stays, and the new
\* commit is under the cursor and the last.
LEMMA CommitLine ==
  ASSUME Shape, Commit
  PROVE  /\ index' = (IF Replaces THEN index ELSE index + 1) /\ index' \in Nat /\ index' > 0
         /\ Len(commits') = index' /\ commits' \in Seq(1 .. Len(store'))
         /\ Len(commits') <= Len(store')
         /\ \A i \in 1 .. index' - 1 : commits'[i] = commits[i] /\ i \in 1 .. Len(commits) /\ i <= index
         /\ commits'[index'] = Len(store')
         /\ branch' = Len(store')
<1> DEFINE new == Len(store) + 1
<1>1. /\ commits' = IF Replaces THEN [commits EXCEPT ![index] = new] ELSE Append(Truncated, new)
      /\ index' = Len(commits') /\ branch' = new /\ job.at = "commit"
  BY DEF Commit
<1>2. new = Len(store') /\ Len(store) \in Nat /\ new \in Nat
  BY CommitStore, StoreType
<1>3. commits \in Seq(1 .. new) /\ Len(commits) <= Len(store) /\ index \in 0 .. Len(commits)
      /\ Len(commits) \in Nat
  <2>1. 1 .. Len(store) \subseteq 1 .. new
    BY <1>2
  <2>2. commits \in Seq(1 .. Len(store)) /\ Len(commits) <= Len(store) /\ index \in 0 .. Len(commits)
    BY DEF Shape, Grown
  <2> QED BY <2>1, <2>2, SeqMonotonic, StoreType
<1> HIDE DEF new
<1>4. CASE Replaces
  <2>1. index \in 1 .. Len(commits) /\ index = Len(commits)
    BY <1>1, <1>4, Amended
  <2>2. commits' = [commits EXCEPT ![index] = new] /\ new \in 1 .. new
    BY <1>1, <1>2, <1>4, CommitStore, StoreType DEF new
  <2>3. commits' \in Seq(1 .. new) /\ Len(commits') = Len(commits)
        /\ \A j \in 1 .. Len(commits) : commits'[j] = IF j = index THEN new ELSE commits[j]
    BY <1>3, <2>1, <2>2, ExceptSeq
  <2> QED BY <1>1, <1>2, <1>3, <1>4, <2>1, <2>3, CommitStore
<1>5. CASE ~Replaces
  <2>1. Truncated \in Seq(1 .. new) /\ Len(Truncated) = index /\ \A i \in 1 .. index : Truncated[i] = commits[i]
    <3>1. ASSUME NEW i \in 1 .. index PROVE commits[i] \in 1 .. new
      <4>1. i \in 1 .. Len(commits)
        BY <1>3
      <4> QED BY <1>3, <4>1, ElementOfSeq
    <3>2. index \in Int /\ 1 \in Int
      BY <1>3
    <3>3. /\ SubSeq(commits, 1, index) \in Seq(1 .. new)
          /\ Len(SubSeq(commits, 1, index)) = IF 1 <= index THEN index - 1 + 1 ELSE 0
          /\ \A i \in 1 .. index - 1 + 1 : SubSeq(commits, 1, index)[i] = commits[1 + i - 1]
      BY <3>1, <3>2, SubSeqProperties
    <3> QED BY <1>3, <3>3 DEF Truncated
  <2>2. commits' = Append(Truncated, new) /\ new \in 1 .. new
    BY <1>1, <1>2, <1>5, StoreType DEF new
  <2> HIDE DEF Truncated
  <2>3. /\ commits' \in Seq(1 .. new) /\ Len(commits') = index + 1 /\ commits'[index + 1] = new
        /\ \A i \in 1 .. index : commits'[i] = commits[i]
    BY <1>3, <2>1, <2>2, SMTT(20)
  <2>4. index' = index + 1 /\ Len(commits') = index + 1
    BY <1>1, <2>3
  <2>5. index + 1 <= Len(store')
    BY <1>3, CommitStore, StoreType
  <2> QED BY <1>1, <1>2, <1>3, <1>5, <2>3, <2>4, <2>5
<1> QED BY <1>4, <1>5

\* What the file or the branch give back after a restart.
LEMMA PersistedLine ==
  ASSUME Shape
  PROVE  /\ Persisted.commits \in Seq(1 .. Len(store)) /\ Len(Persisted.commits) <= Len(store)
         /\ Persisted.index \in 0 .. Len(Persisted.commits)
         /\ Persisted.commits # <<>> => Persisted.index > 0
         /\ Persisted.commits = <<>> => store = <<>>
<1>1. CASE saved.commits # <<>>
  BY <1>1 DEF Persisted, Shape, Grown
<1>2. CASE saved.commits = <<>>
  <2>1. Persisted.commits = Chain[branch] /\ Persisted.index = Len(Chain[branch])
    BY <1>2 DEF Persisted
  <2>2. /\ \A id \in 0 .. Len(store) : Chain[id] \in Seq(1 .. id) /\ Len(Chain[id]) <= id
        /\ \A id \in 1 .. Len(store) : Chain[id] = Append(Chain[store[id].parent], id)
    BY ChainNow, ChainShape, StoreType
  <2>3. branch \in 0 .. Len(store) /\ (branch = 0 => store = <<>>) /\ Len(store) \in Nat
    BY StoreType DEF Shape, Grown
  <2>4. Chain[branch] \in Seq(1 .. Len(store)) /\ Len(Chain[branch]) <= Len(store)
        /\ Len(Chain[branch]) \in Nat
    <3>1. 1 .. branch \subseteq 1 .. Len(store)
      BY <2>3
    <3>2. Chain[branch] \in Seq(1 .. branch) /\ Len(Chain[branch]) <= branch
      BY <2>2, <2>3
    <3> QED BY <2>3, <3>1, <3>2, SeqMonotonic, LenProperties
  <2>5. Chain[branch] # <<>> => Len(Chain[branch]) > 0
    BY <2>4, EmptySeq
  <2>6. Chain[branch] = <<>> => branch = 0
    <3>1. SUFFICES ASSUME branch \in 1 .. Len(store) PROVE Chain[branch] # <<>>
      BY <2>3
    <3>2. Chain[branch] = Append(Chain[store[branch].parent], branch)
      BY <2>2, <3>1
    <3>3. Chain[store[branch].parent] \in Seq(1 .. store[branch].parent)
      <4>1. store[branch].parent \in 0 .. Len(store)
        BY <2>3, <3>1, StoreType
      <4> QED BY <2>2, <4>1
    <3> QED BY <3>2, <3>3, SMTT(20)
  <2> QED BY <2>1, <2>3, <2>4, <2>5, <2>6
<1> QED BY <1>1, <1>2

\* No step breaks the bounds on names.
LEMMA GrownNext ==
  ASSUME Shape, [Next]_vars
  PROVE  Grown'
<1>1. CASE UNCHANGED <<commits, index, saved, branch, store, vouched, sealed>>
  BY <1>1 DEF Shape, Grown
<1>2. ASSUME Commit PROVE Grown'
  <2>1. /\ Len(store') = Len(store) + 1 /\ Len(store) \in Nat
        /\ Rooted(store')
    BY <1>2, CommitStore, StoreType
  <2>2. saved' = saved /\ saved.commits \in Seq(1 .. Len(store)) /\ Len(saved.commits) <= Len(store)
        /\ saved.index \in 0 .. Len(saved.commits) /\ (saved.commits # <<>> => saved.index > 0)
    BY <1>2 DEF Commit, Shape, Grown
  <2>3. 1 .. Len(store) \subseteq 1 .. Len(store') /\ Len(store') \in 1 .. Len(store')
    BY <2>1
  <2>4. saved'.commits \in Seq(1 .. Len(store')) /\ Len(saved'.commits) <= Len(store')
    BY <2>1, <2>2, <2>3, SeqMonotonic, LenProperties
  <2>5. vouched' \subseteq 1 .. Len(store') /\ sealed' \subseteq 1 .. Len(store')
    BY <1>2, <2>1, <2>3 DEF Commit, Shape, Grown
  <2>6. branch' \in 0 .. Len(store') /\ branch' # 0
    BY <1>2, <2>1, CommitLine
  <2>7. index' \in 0 .. Len(commits') /\ index' > 0
    BY <1>2, CommitLine
  <2>8. commits' \in Seq(1 .. Len(store')) /\ Len(commits') <= Len(store')
    BY <1>2, CommitLine
  <2>9. \A id \in 1 .. Len(store') : store'[id].parent \in 0 .. id - 1
    BY <2>1 DEF Rooted
  <2>10. saved'.index \in 0 .. Len(saved'.commits) /\ (saved'.commits # <<>> => saved'.index > 0)
    BY <2>2, Zenon
  <2> QED BY <2>4, <2>5, <2>6, <2>7, <2>8, <2>9, <2>10, Zenon DEF Grown
<1>3. ASSUME SaveTimeline PROVE Grown'
  BY <1>3 DEF Shape, Grown, SaveTimeline, observed
<1>4. ASSUME RestoreBranch PROVE Grown'
  <2>1. branch' = commits[job.to] /\ job.to \in 1 .. Len(commits)
        /\ UNCHANGED <<commits, index, saved, store, vouched, sealed>>
    BY <1>4 DEF Shape, Targets, Restoring, At, RestoreSteps, RestoreBranch, observed
  <2>2. branch' \in 1 .. Len(store)
    BY <2>1, StoreType
  <2>3. branch' \in 0 .. Len(store) /\ branch' # 0
    BY <2>2
  <2> QED BY <2>1, <2>3, Zenon DEF Shape, Grown
<1>5. ASSUME RestoreCursor PROVE Grown'
  <2>1. index' = job.to /\ saved' = [commits |-> commits, index |-> job.to] /\ job.to \in 1 .. Len(commits)
        /\ UNCHANGED <<commits, branch, store, vouched, sealed>>
    BY <1>5 DEF Shape, Targets, Restoring, At, RestoreSteps, RestoreCursor, observed
  <2>2. job.to \in 0 .. Len(commits) /\ job.to > 0
    BY <2>1, StoreType
  <2>3. saved'.commits = commits /\ saved'.index = job.to
    BY <2>1
  <2> QED BY <2>1, <2>2, <2>3, Zenon DEF Shape, Grown
<1>6. ASSUME Revert PROVE Grown'
  <2>1. /\ index' = job.snap.index /\ saved' = [commits |-> commits, index |-> job.snap.index]
        /\ branch' = job.snap.branch
        /\ job.snap.index \in 1 .. Len(commits) /\ job.snap.branch \in 1 .. Len(store)
        /\ UNCHANGED <<commits, store, vouched, sealed>>
    BY <1>6 DEF Shape, Targets, Restoring, At, RestoreSteps, Revert, observed
  <2>2. job.snap.index \in 0 .. Len(commits) /\ job.snap.index > 0
    BY <2>1, StoreType
  <2>3. saved'.commits = commits /\ saved'.index = job.snap.index
    BY <2>1
  <2>4. branch' \in 0 .. Len(store) /\ branch' # 0
    BY <2>1, StoreType
  <2> QED BY <2>1, <2>2, <2>3, <2>4, Zenon DEF Shape, Grown
<1>7. ASSUME Restart PROVE Grown'
  <2>1. commits' = Persisted.commits /\ index' = Persisted.index
        /\ UNCHANGED <<saved, branch, store, vouched, sealed>>
    BY <1>7 DEF Restart, LoadTimeline
  <2> QED BY <2>1, PersistedLine DEF Shape, Grown
<1> QED BY <1>1, <1>2, <1>3, <1>4, <1>5, <1>6, <1>7, QuietSteps DEF HistoryStep, vars, timeline, observed

\* The types of all that is no part of the timeline.
Snaps == [tree : Snapshots, index : 0 .. MaxCommits, branch : Ids \cup {0}, params : Versions, code : Versions]
Jobs == [at : Steps, kind : Kinds, to : 0 .. MaxCommits, snap : Snaps]
Rounds == [active : BOOLEAN, clone : Trees, base : Trees, failed : SUBSET Parts]
Memories == [params : Versions, code : Versions]
Loose ==
  /\ assembly \in BOOLEAN /\ live \in Trees
  /\ selected \in [tree : Trees, params : Versions]
  /\ mem \in Memories
  /\ store \in Seq([tree : Snapshots, parent : Ids \cup {0}]) /\ Len(store) <= MaxCommits
  /\ burst \in BOOLEAN /\ round \in Rounds /\ job \in Jobs
  /\ published \subseteq Snapshots /\ stray \subseteq Files
  /\ lapsed \in BOOLEAN /\ torn \in BOOLEAN
  /\ clock \in Versions /\ crashes \in 0 .. MaxCrashes /\ failures \in 0 .. MaxFailures

\* Loose is what TypeOK says beyond Grown.
LEMMA LooseIs == Shape => Loose
BY DEF Shape, TypeOK, Loose, Snaps, Jobs, Rounds, Memories

\* And the two together are TypeOK.
LEMMA TypeFromParts == Loose /\ Grown => TypeOK
<1> SUFFICES ASSUME Loose, Grown PROVE TypeOK
  OBVIOUS
<1>1. Len(store) \in Nat /\ Len(store) <= MaxCommits /\ MaxCommits \in Nat
  BY AuthoringAssumption DEF Loose
<1>2. 1 .. Len(store) \subseteq Ids
  BY <1>1 DEF Ids
<1>3. ASSUME NEW s \in Seq(1 .. Len(store)), Len(s) <= Len(store) PROVE s \in Lines
  <2>1. s \in Seq(Ids)
    BY <1>2, SeqMonotonic
  <2>2. s \in [1 .. Len(s) -> Ids] /\ Len(s) \in Nat
    BY <2>1, LenProperties
  <2>3. Len(s) \in 0 .. MaxCommits
    BY <1>1, <1>3, <2>2
  <2> QED BY <2>2, <2>3 DEF Lines
<1>4. commits \in Lines /\ saved.commits \in Lines
  BY <1>3 DEF Grown
<1>5. branch \in Ids \cup {0} /\ vouched \subseteq Ids /\ sealed \subseteq Ids
  BY <1>1, <1>2, SMTT(20) DEF Grown, Ids
<1>6. index \in 0 .. Len(commits) /\ saved.index \in 0 .. Len(saved.commits)
  BY DEF Grown
<1> QED BY <1>4, <1>5, <1>6, Zenon DEF TypeOK, Loose, Snaps, Jobs, Rounds, Memories

\* The defaults are typed.
LEMMA Zero == 0 \in Versions /\ 0 \in 0 .. MaxCommits /\ Absent = 0
BY AuthoringAssumption DEF Versions, Absent

\* A job without a snapshot is typed.
LEMMA NoSnapType == NoSnap \in Snaps
BY Zero DEF NoSnap, Snaps, Blank, Snapshots

\* No round is a round.
LEMMA NoRoundType == NoRound \in Rounds /\ ~NoRound.active
BY Zero DEF NoRound, Rounds, Trees

\* The jobs that the actions make are typed.
LEMMA JobType ==
  ASSUME NEW at \in Steps, NEW kind \in Kinds, NEW to \in 0 .. MaxCommits, NEW snap \in Snaps
  PROVE  /\ Job(at, kind, to, snap) \in Jobs
         /\ Job(at, kind, to, snap).at = at /\ Job(at, kind, to, snap).kind = kind
         /\ Job(at, kind, to, snap).to = to /\ Job(at, kind, to, snap).snap = snap
BY DEF Job, Jobs

\* A call that goes on to another step.
LEMMA GotoType ==
  ASSUME job \in Jobs, NEW at \in Steps
  PROVE  /\ [job EXCEPT !.at = at] \in Jobs
         /\ [job EXCEPT !.at = at].at = at /\ [job EXCEPT !.at = at].kind = job.kind
         /\ [job EXCEPT !.at = at].to = job.to /\ [job EXCEPT !.at = at].snap = job.snap
BY DEF Jobs

\* A job at rest has its step and no kind.
LEMMA RestType ==
  ASSUME NEW at \in Steps
  PROVE  Rest(at) \in Jobs /\ Rest(at).at = at /\ Rest(at).kind = "none"
BY JobType, NoSnapType, Zero DEF Rest, Kinds

\* The facts about one building call that every invariant needs.
LEMMA BuildFacts ==
  ASSUME Shape, BuildAction
  PROVE  \E tree \in Trees, params \in Versions, kind \in {"edit", "params"} :
           /\ Publish(tree, params)
           /\ tree["settings"] = params /\ mem'.params = params
           /\ ~assembly => mem'.code = tree["skeleton"]
           /\ job' \in Jobs /\ job'.at = "commit" /\ job'.kind = kind
           /\ Len(store) < MaxCommits /\ Idle
           /\ mem' \in Memories /\ round' \in Rounds /\ ~round'.active /\ clock' \in Versions
           /\ stray' = {} /\ torn' = FALSE
           /\ UNCHANGED <<assembly, timeline, vouched, sealed, lapsed, crashes, failures>>
<1>1. TypeOK /\ (round.active => assembly) /\ round \in Rounds
  BY DEF Shape, KindsFit, TypeOK, Rounds
<1>2. PICK tree \in Trees, params \in Versions, kind \in {"edit", "params"} : BuildCall(tree, params, kind)
  BY <1>1, BuildCalls
<1>3. Publish(tree, params) /\ Len(store) < MaxCommits /\ job' = Job("commit", kind, 0, NoSnap)
      /\ stray' = {} /\ torn' = FALSE
      /\ UNCHANGED <<assembly, timeline, vouched, sealed, lapsed, crashes, failures>>
  BY <1>2 DEF BuildCall, Built
<1>4. job' \in Jobs /\ job'.at = "commit" /\ job'.kind = kind
  BY <1>3, JobType, NoSnapType, Zero DEF Steps, Kinds
<1>5. round' \in Rounds
  BY <1>1, <1>2, NoRoundType DEF BuildCall
<1> QED BY <1>2, <1>3, <1>4, <1>5 DEF BuildCall, Memories

\* No step breaks the other types.
LEMMA LooseNext ==
  ASSUME Shape, [Next]_vars
  PROVE  Loose'
<1> USE DEF Steps, Kinds
<1>0. Loose /\ TypeOK /\ NoRound \in Rounds /\ NoSnap \in Snaps /\ 0 \in Versions /\ live["settings"] \in Versions
      /\ live["skeleton"] \in Versions
  BY LooseIs, NoRoundType, NoSnapType, Zero DEF Shape, TypeOK, Trees, Files, Tracked, Sources
<1>1. CASE BuildAction
  <2>1. PICK tree \in Trees, params \in Versions :
           /\ Publish(tree, params)
           /\ job' \in Jobs /\ mem' \in Memories /\ round' \in Rounds /\ clock' \in Versions
           /\ stray' = {} /\ torn' = FALSE
           /\ UNCHANGED <<assembly, timeline, lapsed, crashes, failures>>
    BY <1>1, BuildFacts
  <2>2. live' \in Trees /\ selected' \in [tree : Trees, params : Versions] /\ published' \subseteq Snapshots
    BY <1>0, <2>1, Published
  <2> QED BY <1>0, <2>1, <2>2 DEF Loose, timeline
<1>2. CASE Republish
  <2>1. [live EXCEPT !["settings"] = mem.params] \in Trees /\ mem.params \in Versions
    BY <1>0 DEF Loose, Trees, Memories
  <2>2. live' \in Trees /\ selected' \in [tree : Trees, params : Versions] /\ published' \subseteq Snapshots
    BY <1>0, <1>2, <2>1, Published DEF Republish
  <2> QED BY <1>0, <1>2, <2>2 DEF Loose, Republish, timeline, budget
<1>3. CASE Rerender
  <2>1. selected' \in [tree : Trees, params : Versions]
    BY <1>0, <1>3 DEF Loose, Rerender
  <2> QED BY <1>0, <1>3, <2>1 DEF Loose, Rerender, timeline, budget, observed
<1>4. CASE SetImports
  <2>1. [live EXCEPT !["settings"] = 0] \in Trees
    BY <1>0 DEF Loose, Trees
  <2>2. live' \in Trees /\ selected' \in [tree : Trees, params : Versions] /\ published' \subseteq Snapshots
    BY <1>0, <1>4, <2>1, Published DEF SetImports
  <2>3. mem.code \in Versions
    BY <1>0 DEF Loose, Memories
  <2>4. [NoSnap EXCEPT !.params = live["settings"], !.code = mem.code] \in Snaps
    BY <1>0, <2>3 DEF Snaps
  <2>5. job' \in Jobs
    BY <1>0, <1>4, <2>4, JobType, Zero DEF SetImports
  <2>6. mem' \in Memories
    BY <1>0, <1>4 DEF SetImports, Memories
  <2> QED BY <1>0, <1>4, <2>2, <2>5, <2>6 DEF Loose, SetImports, timeline, budget
<1>5. ASSUME NEW f \in {"skeleton", "brief"}, WriteFile(f) PROVE Loose'
  <2>1. clock' \in Versions
    BY <1>0, <1>5, AuthoringAssumption DEF Loose, WriteFile, Write, Versions
  <2>2. live' \in Trees
    BY <1>0, <1>5, <2>1 DEF Loose, WriteFile, Trees
  <2>3. stray' \subseteq Files
    BY <1>0, <1>5 DEF Loose, WriteFile, Files, Tracked, Sources
  <2> QED BY <1>0, <1>5, <2>1, <2>2, <2>3 DEF Loose, WriteFile, timeline
<1>6. CASE BeginRound
  <2>1. round' \in Rounds
    BY <1>0, <1>6 DEF Loose, BeginRound, Rounds
  <2> QED BY <1>0, <1>6, <2>1 DEF Loose, BeginRound, disk, timeline, observed, budget
<1>7. CASE AbortRound
  BY <1>0, <1>7 DEF Loose, AbortRound, disk, timeline, observed, budget
<1>8. CASE SetImportsInRound
  <2>1. round.clone \in Trees /\ mem.params \in Versions
    BY <1>0 DEF Loose, Rounds, Memories
  <2>2. live' \in Trees /\ selected' \in [tree : Trees, params : Versions] /\ published' \subseteq Snapshots
    BY <1>0, <1>8, <2>1, Published DEF SetImportsInRound
  <2> QED BY <1>0, <1>8, <2>2 DEF Loose, SetImportsInRound, timeline, budget
<1>9. ASSUME NEW p \in Parts, SetRoundPart(p) PROVE Loose'
  <2>1. clock' \in Versions
    BY <1>0, <1>9, AuthoringAssumption DEF Loose, SetRoundPart, Write, Versions
  <2>2. [round EXCEPT !.clone[p] = clock', !.failed = @ \ {p}] \in Rounds
    BY <1>0, <2>1 DEF Loose, Rounds, Trees
  <2> QED BY <1>0, <1>9, <2>1, <2>2 DEF Loose, SetRoundPart, disk, timeline, observed
<1>10. ASSUME NEW p \in Parts, SetRoundPartFails(p) PROVE Loose'
  <2>1. round' \in Rounds
    BY <1>0, <1>10 DEF Loose, SetRoundPartFails, Rounds
  <2> QED BY <1>0, <1>10, <2>1 DEF Loose, SetRoundPartFails, disk, timeline, observed, budget
<1>11. CASE Commit
  <2>1. store' \in Seq([tree : Snapshots, parent : Ids \cup {0}]) /\ Len(store') <= MaxCommits
    <3>1. Len(store) < MaxCommits
      BY <1>11 DEF Commit, Shape, Room
    <3> QED BY <1>11, <3>1, CommitStore, StoreType
  <2>2. job' \in Jobs
    BY <1>0, <1>11, GotoType DEF Loose, Commit, Goto
  <2>3. burst' \in BOOLEAN
    BY <1>11 DEF Commit, BurstAfter
  <2> QED BY <1>0, <1>11, <2>1, <2>2, <2>3 DEF Loose, Commit, disk, budget
<1>12. CASE CommitFails
  <2>1. failures' \in 0 .. MaxFailures
    BY <1>0, <1>12, AuthoringAssumption DEF Loose, CommitFails, Fails
  <2>2. job' \in Jobs
    BY <1>12, RestType DEF CommitFails
  <2> QED BY <1>0, <1>12, <2>1, <2>2 DEF Loose, CommitFails, disk, timeline
<1>13. CASE SaveTimeline
  <2>1. job' \in Jobs
    BY <1>0, <1>13, RestType, JobType, Zero DEF SaveTimeline
  <2> QED BY <1>0, <1>13, <2>1 DEF Loose, SaveTimeline, disk, observed, budget
<1>14. CASE RestoreFiles
  <2>1. store[commits[job.to]].tree \in Snapshots
    BY <1>14, StoreType DEF RestoreFiles, Shape, Targets, Restoring, At, RestoreSteps
  <2>2. live' \in Trees
    BY <1>0, <1>14, <2>1, WithTree DEF Loose, RestoreFiles
  <2>3. job' \in Jobs
    BY <1>0, <1>14, GotoType DEF Loose, RestoreFiles, Goto
  <2> QED BY <1>0, <1>14, <2>2, <2>3 DEF Loose, RestoreFiles, timeline, observed, budget
<1>15. CASE RestoreBranch
  BY <1>0, <1>15, GotoType DEF Loose, RestoreBranch, Goto, disk, observed, budget
<1>16. CASE RestoreCursor
  BY <1>0, <1>16, GotoType DEF Loose, RestoreCursor, Goto, disk, observed, budget
<1>17. CASE Rebuild
  <2>1. live' \in Trees /\ selected' \in [tree : Trees, params : Versions] /\ published' \subseteq Snapshots
    <3>1. \E params \in Versions : Publish(live, params)
      BY <1>0, <1>17 DEF Rebuild
    <3> QED BY <1>0, <3>1, Published DEF Loose
  <2>2. job' \in Jobs
    BY <1>0, <1>17, GotoType, RestType DEF Loose, Rebuild, Goto
  <2>3. mem' \in Memories
    BY <1>0, <1>17 DEF Loose, Rebuild, Memories
  <2>4. stray' \subseteq Files /\ torn' \in BOOLEAN
    BY <1>0, <1>17 DEF Loose, Rebuild
  <2> QED BY <1>0, <1>17, <2>1, <2>2, <2>3, <2>4 DEF Loose, Rebuild, Works, timeline
<1>18. CASE RebuildFails
  <2>1. mem' \in Memories
    BY <1>0, <1>18 DEF Loose, RebuildFails, Memories
  <2>2. job' \in Jobs
    BY <1>0, <1>18, GotoType DEF Loose, RebuildFails, Goto
  <2>3. failures' \in 0 .. MaxFailures
    BY <1>0, <1>18, AuthoringAssumption DEF Loose, RebuildFails, Fails
  <2>4. torn' \in BOOLEAN
    BY <1>18 DEF RebuildFails
  <2> QED BY <1>0, <1>18, <2>1, <2>2, <2>3, <2>4 DEF Loose, RebuildFails, disk, timeline
<1>19. CASE Revert
  <2>1. job.snap.tree \in Snapshots
    BY <1>0 DEF Loose, Jobs, Snaps
  <2> QED BY <1>0, <1>19, <2>1, WithTree, RestType DEF Loose, Revert, observed, budget
<1>20. CASE SetSaved
  <2>1. Saved \in Versions
    BY <1>0 DEF Saved, Loose, Jobs, Snaps
  <2>2. [live EXCEPT !["settings"] = Saved] \in Trees
    BY <1>0, <2>1 DEF Loose, Trees
  <2>3. live' \in Trees /\ selected' \in [tree : Trees, params : Versions] /\ published' \subseteq Snapshots
    BY <1>0, <1>20, <2>1, <2>2, Published DEF SetSaved
  <2>4. mem' \in Memories
    BY <1>0, <1>20, <2>1 DEF Loose, SetSaved, Memories
  <2>5. job' \in Jobs
    BY <1>0, <1>20, JobType, RestType, Zero DEF SetSaved
  <2>6. stray' \subseteq Files
    BY <1>0, <1>20 DEF Loose, SetSaved
  <2> QED BY <1>0, <1>20, <2>3, <2>4, <2>5, <2>6 DEF Loose, SetSaved, Works, timeline
<1>21. CASE SetSavedFails
  <2>1. mem' \in Memories
    BY <1>0, <1>21 DEF Loose, SetSavedFails, Memories, Jobs, Snaps
  <2>2. job' \in Jobs
    BY <1>0, <1>21, JobType, GotoType, RestType, Zero DEF Loose, SetSavedFails
  <2>3. failures' \in 0 .. MaxFailures
    BY <1>0, <1>21, AuthoringAssumption DEF Loose, SetSavedFails, Fails
  <2>4. torn' \in BOOLEAN /\ lapsed' \in BOOLEAN
    BY <1>21 DEF SetSavedFails
  <2> QED BY <1>0, <1>21, <2>1, <2>2, <2>3, <2>4 DEF Loose, SetSavedFails, disk, timeline
<1>22. CASE Restart
  <2>1. live' \in Trees
    BY <1>0, <1>22, MirrorTree DEF Loose, Restart
  <2>2. job' \in Jobs
    BY <1>0, <1>22, JobType, Zero DEF Restart
  <2>3. mem' \in Memories /\ stray' \subseteq Files
    BY <1>0, <1>22 DEF Loose, Restart, Memories
  <2> QED BY <1>0, <1>22, <2>1, <2>2, <2>3 DEF Loose, Restart, budget
<1>23. CASE Startup
  <2>1. live' \in Trees /\ selected' \in [tree : Trees, params : Versions] /\ published' \subseteq Snapshots
    BY <1>0, <1>23, Published DEF Loose, Startup
  <2>2. job' \in Jobs
    BY <1>0, <1>23, JobType, GotoType, RestType, Zero DEF Loose, Startup
  <2>3. mem' \in Memories
    BY <1>0, <1>23 DEF Startup, Memories
  <2> QED BY <1>0, <1>23, <2>1, <2>2, <2>3 DEF Loose, Startup, Works, timeline
<1>24. CASE StartupFails
  <2>1. job' \in Jobs
    BY <1>0, <1>24, JobType, RestType, Zero DEF StartupFails
  <2>2. failures' \in 0 .. MaxFailures
    BY <1>0, <1>24, AuthoringAssumption DEF Loose, StartupFails, Fails
  <2> QED BY <1>0, <1>24, <2>1, <2>2 DEF Loose, StartupFails, disk, timeline
<1>25. CASE Checkpoint
  BY <1>0, <1>25, JobType, Zero DEF Loose, Checkpoint, disk, timeline, observed, budget
<1>26. CASE BurstEnds
  BY <1>0, <1>26 DEF Loose, BurstEnds, disk, observed, budget
<1>27. CASE Crash
  <2>1. crashes' \in 0 .. MaxCrashes
    BY <1>0, <1>27, AuthoringAssumption DEF Loose, Crash
  <2>2. job' \in Jobs
    BY <1>27, RestType DEF Crash
  <2> QED BY <1>0, <1>27, <2>1, <2>2 DEF Loose, Crash, disk, timeline
<1>28. ASSUME NEW i \in 1 .. Len(commits), Restore(i) PROVE Loose'
  <2>0. /\ Len(commits) <= Len(store) /\ Len(store) <= MaxCommits /\ index \in 0 .. Len(commits)
        /\ branch \in 0 .. Len(store)
    BY <1>0 DEF Shape, Grown, Loose
  <2>1. [NoSnap EXCEPT !.tree = Of(live), !.index = index, !.branch = branch] \in Snaps
    <3>1. Of(live) \in Snapshots
      BY <1>0, OfTree DEF Loose
    <3>2. index \in 0 .. MaxCommits /\ branch \in Ids \cup {0}
      BY <2>0, StoreType DEF Ids
    <3> QED BY <1>0, <3>1, <3>2 DEF Snaps
  <2>2. i \in 0 .. MaxCommits
    BY <2>0, StoreType
  <2>3. job' \in Jobs
    BY <1>28, <2>1, <2>2, JobType DEF Restore
  <2> QED BY <1>0, <1>28, <2>3 DEF Loose, Restore, disk, timeline, observed, budget
<1>29. CASE UNCHANGED vars
  BY <1>0, <1>29 DEF Loose, vars, disk, timeline, observed, budget
<1> QED
  BY <1>1, <1>2, <1>3, <1>4, <1>5, <1>6, <1>7, <1>8, <1>9, <1>10, <1>11, <1>12, <1>13, <1>14, <1>15,
     <1>16, <1>17, <1>18, <1>19, <1>20, <1>21, <1>22, <1>23, <1>24, <1>25, <1>26, <1>27, <1>28, <1>29
  DEF Next, Edit, Round, Step, BuildAction

\* Where each step of a call leads.
LEMMA JobSteps ==
  ASSUME Shape
  PROVE  /\ Commit => job'.at = "save" /\ job'.kind = job.kind /\ job'.to = job.to /\ job'.snap = job.snap
         /\ CommitFails \/ Revert => job'.at = "idle" /\ job'.kind = "none"
         /\ SaveTimeline =>
              IF job.kind = "imports" THEN job'.at = "commit" /\ job'.kind = "params"
              ELSE job'.at = "idle" /\ job'.kind = "none"
         /\ RestoreFiles => job'.at = "branch" /\ job'.kind = job.kind /\ job'.to = job.to /\ job'.snap = job.snap
         /\ RestoreBranch => job'.at = "cursor" /\ job'.kind = job.kind /\ job'.to = job.to /\ job'.snap = job.snap
         /\ RestoreCursor => job'.at = "rebuild" /\ job'.kind = job.kind /\ job'.to = job.to /\ job'.snap = job.snap
         /\ RebuildFails => job'.at = "revert" /\ job'.kind = job.kind /\ job'.to = job.to /\ job'.snap = job.snap
         /\ Rebuild =>
              IF assembly \/ live["settings"] = 0 THEN job'.at = "idle" /\ job'.kind = "none"
              ELSE job'.at = "params" /\ job'.kind = job.kind /\ job'.to = job.to /\ job'.snap = job.snap
         /\ SetSaved =>
              IF job.kind = "imports" THEN job'.at = "commit" /\ job'.kind = "imports"
              ELSE IF job.kind = "startup" /\ commits = <<>> THEN job'.at = "commit" /\ job'.kind = "startup"
              ELSE job'.at = "idle" /\ job'.kind = "none"
         /\ SetSavedFails =>
              IF job.kind = "restore"
              THEN job'.at = "revert" /\ job'.kind = job.kind /\ job'.to = job.to /\ job'.snap = job.snap
              ELSE IF job.kind = "startup" /\ commits = <<>> THEN job'.at = "commit" /\ job'.kind = "startup"
              ELSE job'.at = "idle" /\ job'.kind = "none"
         /\ Restart => job'.at = "build" /\ job'.kind = "startup"
         /\ Startup =>
              IF live["settings"] # 0 THEN job'.at = "params" /\ job'.kind = job.kind
              ELSE IF commits = <<>> THEN job'.at = "commit" /\ job'.kind = "startup"
              ELSE job'.at = "idle" /\ job'.kind = "none"
         /\ StartupFails =>
              IF commits = <<>> THEN job'.at = "commit" /\ job'.kind = "startup"
              ELSE job'.at = "idle" /\ job'.kind = "none"
         /\ Checkpoint => job'.at = "commit" /\ job'.kind = "checkpoint"
         /\ Crash => job'.at = "down" /\ job'.kind = "none"
         /\ SetImports =>
              IF live["settings"] = 0 THEN job'.at = "commit" /\ job'.kind = "edit"
              ELSE job'.at = "params" /\ job'.kind = "imports" /\ job'.snap.params = live["settings"]
                   /\ job'.snap.code = mem.code
         /\ \A i \in 1 .. Len(commits) : Restore(i) =>
              /\ job'.at = "files" /\ job'.kind = "restore" /\ job'.to = i
              /\ job'.snap.tree = Of(live) /\ job'.snap.index = index /\ job'.snap.branch = branch
<1>1. job \in Jobs
  BY LooseIs DEF Loose
<1> USE <1>1 DEF Job, Rest, Goto, Jobs, NoSnap
<1>2. Commit => job'.at = "save" /\ job'.kind = job.kind /\ job'.to = job.to /\ job'.snap = job.snap
  BY DEF Commit
<1>3. CommitFails \/ Revert => job'.at = "idle" /\ job'.kind = "none"
  BY DEF CommitFails, Revert
<1>4. SaveTimeline =>
        IF job.kind = "imports" THEN job'.at = "commit" /\ job'.kind = "params"
        ELSE job'.at = "idle" /\ job'.kind = "none"
  BY DEF SaveTimeline
<1>5. RestoreFiles => job'.at = "branch" /\ job'.kind = job.kind /\ job'.to = job.to /\ job'.snap = job.snap
  BY DEF RestoreFiles
<1>6. RestoreBranch => job'.at = "cursor" /\ job'.kind = job.kind /\ job'.to = job.to /\ job'.snap = job.snap
  BY DEF RestoreBranch
<1>7. RestoreCursor => job'.at = "rebuild" /\ job'.kind = job.kind /\ job'.to = job.to /\ job'.snap = job.snap
  BY DEF RestoreCursor
<1>8. RebuildFails => job'.at = "revert" /\ job'.kind = job.kind /\ job'.to = job.to /\ job'.snap = job.snap
  BY DEF RebuildFails
<1>9. Rebuild =>
        IF assembly \/ live["settings"] = 0 THEN job'.at = "idle" /\ job'.kind = "none"
        ELSE job'.at = "params" /\ job'.kind = job.kind /\ job'.to = job.to /\ job'.snap = job.snap
  BY DEF Rebuild
<1>10. SetSaved =>
         IF job.kind = "imports" THEN job'.at = "commit" /\ job'.kind = "imports"
         ELSE IF job.kind = "startup" /\ commits = <<>> THEN job'.at = "commit" /\ job'.kind = "startup"
         ELSE job'.at = "idle" /\ job'.kind = "none"
  BY DEF SetSaved
<1>11. SetSavedFails =>
         IF job.kind = "restore"
         THEN job'.at = "revert" /\ job'.kind = job.kind /\ job'.to = job.to /\ job'.snap = job.snap
         ELSE IF job.kind = "startup" /\ commits = <<>> THEN job'.at = "commit" /\ job'.kind = "startup"
         ELSE job'.at = "idle" /\ job'.kind = "none"
  BY DEF SetSavedFails
<1>12. Restart => job'.at = "build" /\ job'.kind = "startup"
  BY DEF Restart
<1>13. Startup =>
         IF live["settings"] # 0 THEN job'.at = "params" /\ job'.kind = job.kind
         ELSE IF commits = <<>> THEN job'.at = "commit" /\ job'.kind = "startup"
         ELSE job'.at = "idle" /\ job'.kind = "none"
  BY DEF Startup
<1>14. StartupFails =>
         IF commits = <<>> THEN job'.at = "commit" /\ job'.kind = "startup"
         ELSE job'.at = "idle" /\ job'.kind = "none"
  BY DEF StartupFails
<1>15. Checkpoint => job'.at = "commit" /\ job'.kind = "checkpoint"
  BY DEF Checkpoint
<1>16. Crash => job'.at = "down" /\ job'.kind = "none"
  BY DEF Crash
<1>17. SetImports =>
         IF live["settings"] = 0 THEN job'.at = "commit" /\ job'.kind = "edit"
         ELSE job'.at = "params" /\ job'.kind = "imports" /\ job'.snap.params = live["settings"]
              /\ job'.snap.code = mem.code
  <2>1. ASSUME SetImports, live["settings"] # 0
        PROVE  /\ job'.at = "params" /\ job'.kind = "imports" /\ job'.snap.params = live["settings"]
               /\ job'.snap.code = mem.code
    <3> DEFINE snap == [NoSnap EXCEPT !.params = live["settings"], !.code = mem.code]
    <3>1. snap.params = live["settings"] /\ snap.code = mem.code
      OBVIOUS
    <3> HIDE DEF snap
    <3>2. job' = [at |-> "params", kind |-> "imports", to |-> 0, snap |-> snap]
      BY <2>1 DEF SetImports, snap
    <3> QED BY <3>1, <3>2
  <2>2. SetImports /\ live["settings"] = 0 => job' = [at |-> "commit", kind |-> "edit", to |-> 0, snap |-> NoSnap]
    BY DEF SetImports
  <2>3. SetImports /\ live["settings"] = 0 => job'.at = "commit" /\ job'.kind = "edit"
    BY <2>2
  <2> QED BY <2>1, <2>3, Zenon
<1>18. \A i \in 1 .. Len(commits) : Restore(i) =>
         /\ job'.at = "files" /\ job'.kind = "restore" /\ job'.to = i
         /\ job'.snap.tree = Of(live) /\ job'.snap.index = index /\ job'.snap.branch = branch
  <2> DEFINE snap == [NoSnap EXCEPT !.tree = Of(live), !.index = index, !.branch = branch]
  <2>1. snap.tree = Of(live) /\ snap.index = index /\ snap.branch = branch
    OBVIOUS
  <2> HIDE DEF snap
  <2>2. \A i \in 1 .. Len(commits) : Restore(i) => job' = [at |-> "files", kind |-> "restore", to |-> i, snap |-> snap]
    BY DEF Restore, snap
  <2> QED BY <2>1, <2>2
<1> HIDE <1>1
<1> QED
  BY <1>2, <1>3, <1>4, <1>5, <1>6, <1>7, <1>8, <1>9, <1>10, <1>11, <1>12, <1>13, <1>14, <1>15, <1>16,
     <1>17, <1>18, Zenon

\* The steps of an idle session that start no call.
AsideAction ==
  \/ Republish \/ Rerender \/ BeginRound \/ AbortRound \/ SetImportsInRound \/ BurstEnds
  \/ \E f \in {"skeleton", "brief"} : WriteFile(f)
  \/ \E p \in Parts : SetRoundPart(p) \/ SetRoundPartFails(p)

\* No step leaves a call at a step that it does not have, without room for its
\* commits or with a target outside the timeline.
LEMMA ControlNext ==
  ASSUME Shape, [Next]_vars
  PROVE  KindsFit' /\ Room' /\ Targets'
<1> USE DEF At, RestoreSteps, SecondBuild, Restoring, Starting
<1>0. /\ KindsFit /\ Room /\ Targets /\ NoRound.active = FALSE
      /\ assembly' = assembly /\ assembly \in BOOLEAN
  <2>1. assembly' = assembly
    BY DEF Next, Edit, Round, Step, vars, ExecuteScript, RunFile, SetSkeleton, SetPart, Rewire, RemovePart,
           SetParams, Republish, Rerender, SetImports, WriteFile, Built, BeginRound, SetRoundPart,
           SetRoundPartFails, EndRound, AbortRound, SetImportsInRound, Commit, CommitFails, SaveTimeline,
           RestoreFiles, RestoreBranch, RestoreCursor, Rebuild, RebuildFails, Revert, SetSaved,
           SetSavedFails, Restart, Startup, StartupFails, Checkpoint, BurstEnds, Crash, Restore
  <2> QED BY <2>1 DEF Shape, TypeOK, NoRound
<1>1. CASE BuildAction
  <2>1. PICK kind \in {"edit", "params"} :
          /\ job'.at = "commit" /\ job'.kind = kind /\ Len(store) < MaxCommits /\ store' = store
          /\ ~round'.active
    BY <1>1, BuildFacts DEF timeline
  <2> QED BY <1>0, <2>1 DEF KindsFit, Room, Targets
<1>2. CASE AsideAction
  <2>1. job' = job /\ job.at = "idle"
    BY <1>2 DEF AsideAction, Republish, Rerender, BeginRound, AbortRound, SetImportsInRound, BurstEnds,
                WriteFile, SetRoundPart, SetRoundPartFails, Outside, Idle
  <2>2. round'.active => assembly
    <3>1. round \in Rounds
      BY LooseIs DEF Loose
    <3>2. CASE BeginRound
      BY <3>2 DEF BeginRound
    <3>3. CASE AbortRound
      BY <1>0, <3>3 DEF AbortRound
    <3>4. CASE \E p \in Parts : SetRoundPart(p) \/ SetRoundPartFails(p)
      BY <1>0, <3>1, <3>4 DEF SetRoundPart, SetRoundPartFails, KindsFit, Rounds
    <3>5. CASE \/ Republish \/ Rerender \/ SetImportsInRound \/ BurstEnds
               \/ \E f \in {"skeleton", "brief"} : WriteFile(f)
      BY <1>0, <3>5 DEF Republish, Rerender, SetImportsInRound, BurstEnds, WriteFile, KindsFit
    <3> QED BY <1>2, <3>2, <3>3, <3>4, <3>5 DEF AsideAction
  <2> QED BY <1>0, <2>1, <2>2 DEF KindsFit, Room, Targets
<1>3. CASE SetImports
  <2>1. /\ Len(store) + 2 <= MaxCommits /\ UNCHANGED <<store, round>> /\ ~assembly
        /\ job'.at \in {"commit", "params"} /\ job'.kind \in {"edit", "imports"}
        /\ (job'.at = "params" => job'.kind = "imports")
    BY <1>3, JobSteps DEF SetImports, timeline
  <2>2. Len(store) < MaxCommits
    BY <2>1, StoreType
  <2> QED BY <1>0, <2>1, <2>2 DEF KindsFit, Room, Targets
<1>4. CASE Commit
  <2>1. /\ job.at = "commit" /\ job'.at = "save" /\ job'.kind = job.kind /\ round' = round
        /\ Len(store') = Len(store) + 1
    BY <1>4, JobSteps, CommitStore DEF Commit
  <2> QED BY <1>0, <2>1, StoreType DEF KindsFit, Room, Targets
<1>5. CASE SaveTimeline
  <2>1. job.at = "save" /\ UNCHANGED <<round, store>>
    BY <1>5 DEF SaveTimeline
  <2>2. CASE job.kind = "imports"
    BY <1>0, <1>5, <2>1, <2>2, JobSteps DEF KindsFit, Room, Targets
  <2>3. CASE job.kind # "imports"
    BY <1>0, <1>5, <2>1, <2>3, JobSteps DEF KindsFit, Room, Targets
  <2> QED BY <2>2, <2>3
<1>6. CASE CommitFails \/ Revert
  <2>1. job'.at = "idle" /\ job'.kind = "none" /\ round' = round
    BY <1>6, JobSteps DEF CommitFails, Revert
  <2> QED BY <1>0, <2>1 DEF KindsFit, Room, Targets
<1>7. CASE RestoreFiles \/ RestoreBranch \/ RestoreCursor \/ RebuildFails
  <2>1. /\ job'.at \in RestoreSteps /\ job'.kind = job.kind /\ job'.to = job.to /\ job'.snap = job.snap
        /\ job.at \in RestoreSteps
        /\ UNCHANGED <<commits, store, round>>
    BY <1>7, JobSteps DEF RestoreFiles, RestoreBranch, RestoreCursor, RebuildFails, timeline
  <2> QED BY <1>0, <2>1 DEF KindsFit, Room, Targets
<1>8. CASE Rebuild
  <2>1. job.at = "rebuild" /\ UNCHANGED <<commits, store, round>>
    BY <1>8 DEF Rebuild, timeline
  <2>2. CASE assembly \/ live["settings"] = 0
    <3>1. job'.at = "idle" /\ job'.kind = "none"
      BY <1>8, <2>2, JobSteps
    <3> QED BY <1>0, <2>1, <3>1 DEF KindsFit, Room, Targets
  <2>3. CASE ~assembly /\ live["settings"] # 0
    <3>1. job'.at = "params" /\ job'.kind = job.kind /\ job'.to = job.to /\ job'.snap = job.snap
      BY <1>8, <2>3, JobSteps
    <3> QED BY <1>0, <2>1, <2>3, <3>1 DEF KindsFit, Room, Targets
  <2> QED BY <2>2, <2>3
<1>9. CASE SetSaved
  <2>1. job.at = "params" /\ UNCHANGED <<commits, store, round>>
    BY <1>9 DEF SetSaved, timeline
  <2>2. \/ job.kind = "imports" /\ job'.at = "commit" /\ job'.kind = "imports"
        \/ job.kind = "startup" /\ commits = <<>> /\ job'.at = "commit" /\ job'.kind = "startup"
        \/ job'.at = "idle" /\ job'.kind = "none"
    BY <1>9, JobSteps
  <2>3. job.kind = "startup" /\ commits = <<>> => Len(store) < MaxCommits
    BY <1>0, <2>1, AuthoringAssumption DEF Room
  <2> QED BY <1>0, <2>1, <2>2, <2>3, StoreType DEF KindsFit, Room, Targets
<1>10. CASE SetSavedFails
  <2>1. job.at = "params" /\ UNCHANGED <<commits, store, round>>
    BY <1>10 DEF SetSavedFails, timeline
  <2>2. \/ /\ job.kind = "restore" /\ job'.at = "revert" /\ job'.kind = job.kind
           /\ job'.to = job.to /\ job'.snap = job.snap
        \/ job.kind = "startup" /\ commits = <<>> /\ job'.at = "commit" /\ job'.kind = "startup"
        \/ job'.at = "idle" /\ job'.kind = "none"
    BY <1>10, JobSteps
  <2>3. job.kind = "startup" /\ commits = <<>> => Len(store) < MaxCommits
    BY <1>0, <2>1, AuthoringAssumption DEF Room
  <2> QED BY <1>0, <2>1, <2>2, <2>3, StoreType DEF KindsFit, Room, Targets
<1>11. CASE Restart
  <2>1. /\ job'.at = "build" /\ job'.kind = "startup" /\ round' = NoRound
        /\ commits' = Persisted.commits /\ store' = store
    BY <1>11, JobSteps DEF Restart, LoadTimeline
  <2>2. commits' = <<>> => store = <<>>
    BY <2>1, PersistedLine
  <2> QED BY <1>0, <2>1, <2>2 DEF KindsFit, Room, Targets
<1>12. CASE Startup
  <2>1. job.at = "build" /\ UNCHANGED <<commits, store, round>>
    BY <1>12 DEF Startup, timeline
  <2>2. \/ job'.at = "params" /\ job'.kind = job.kind
        \/ commits = <<>> /\ job'.at = "commit" /\ job'.kind = "startup"
        \/ job'.at = "idle" /\ job'.kind = "none"
    BY <1>12, JobSteps
  <2>3. commits = <<>> => Len(store) < MaxCommits
    BY <1>0, <2>1, AuthoringAssumption DEF Room
  <2> QED BY <1>0, <2>1, <2>2, <2>3 DEF KindsFit, Room, Targets
<1>13. CASE StartupFails
  <2>1. job.at = "build" /\ UNCHANGED <<commits, store, round>>
    BY <1>13 DEF StartupFails, timeline
  <2>2. \/ commits = <<>> /\ job'.at = "commit" /\ job'.kind = "startup"
        \/ job'.at = "idle" /\ job'.kind = "none"
    BY <1>13, JobSteps
  <2>3. commits = <<>> => Len(store) < MaxCommits
    BY <1>0, <2>1, AuthoringAssumption DEF Room
  <2> QED BY <1>0, <2>1, <2>2, <2>3 DEF KindsFit, Room, Targets
<1>14. CASE Checkpoint
  <2>1. /\ job'.at = "commit" /\ job'.kind = "checkpoint" /\ UNCHANGED <<store, round>>
        /\ Len(store) < MaxCommits
    BY <1>14, JobSteps DEF Checkpoint, timeline
  <2> QED BY <1>0, <2>1 DEF KindsFit, Room, Targets
<1>15. CASE Crash
  <2>1. job'.at = "down" /\ job'.kind = "none" /\ UNCHANGED round
    BY <1>15, JobSteps DEF Crash
  <2> QED BY <1>0, <2>1 DEF KindsFit, Room, Targets
<1>16. ASSUME NEW i \in 1 .. Len(commits), Restore(i) PROVE KindsFit' /\ Room' /\ Targets'
  <2>1. /\ job'.at = "files" /\ job'.kind = "restore" /\ job'.to = i
        /\ job'.snap.index = index /\ job'.snap.branch = branch
        /\ ~round.active /\ UNCHANGED <<commits, index, branch, store, round>>
    BY <1>16, JobSteps DEF Restore, Outside, timeline
  <2>2. index \in 1 .. Len(commits) /\ branch \in 1 .. Len(store)
    <3>1. Len(commits) \in Nat /\ Len(store) \in Nat /\ commits # <<>> /\ store # <<>>
      BY StoreType
    <3> QED BY <3>1 DEF Shape, Grown
  <2> QED BY <1>0, <2>1, <2>2 DEF KindsFit, Room, Targets
<1>17. CASE UNCHANGED vars
  BY <1>0, <1>17 DEF KindsFit, Room, Targets, vars, timeline
<1> QED
  BY <1>1, <1>2, <1>3, <1>4, <1>5, <1>6, <1>7, <1>8, <1>9, <1>10, <1>11, <1>12, <1>13, <1>14, <1>15,
     <1>16, <1>17
  DEF Next, Edit, Round, Step, BuildAction, AsideAction

\* Shape is inductive.
LEMMA ShapeNext ==
  ASSUME Shape, [Next]_vars
  PROVE  Shape'
<1>1. Loose' /\ Grown'
  BY LooseNext, GrownNext
<1>2. (Loose /\ Grown => TypeOK)'
  BY TypeFromParts, PTL
<1> QED BY <1>1, <1>2, ControlNext DEF Shape

\* It holds of a new workspace.
LEMMA InitShape == Init => Shape
<1> SUFFICES ASSUME Init PROVE Shape
  OBVIOUS
<1>1. 0 \in Versions /\ 1 \in Versions /\ 0 \in 0 .. MaxCrashes /\ 0 \in 0 .. MaxFailures /\ MaxCommits \in Nat
  BY AuthoringAssumption DEF Versions
<1>2. live \in Trees /\ selected \in [tree : Trees, params : Versions] /\ mem \in Memories
  BY <1>1 DEF Init, Trees, Memories, Absent
<1>3. round \in Rounds /\ job \in Jobs /\ job.at = "down" /\ job.kind = "none" /\ ~round.active
  BY NoRoundType, RestType DEF Init, Steps
<1>4. Len(store) = 0 /\ store \in Seq([tree : Snapshots, parent : Ids \cup {0}])
  BY DEF Init
<1>5. Loose
  <2>1. /\ assembly \in BOOLEAN /\ burst \in BOOLEAN /\ lapsed \in BOOLEAN /\ torn \in BOOLEAN
        /\ published \subseteq Snapshots /\ stray \subseteq Files
    BY DEF Init
  <2>2. clock \in Versions /\ crashes \in 0 .. MaxCrashes /\ failures \in 0 .. MaxFailures
    BY <1>1 DEF Init
  <2>3. Len(store) <= MaxCommits
    BY <1>1, <1>4
  <2> QED BY <1>2, <1>3, <1>4, <2>1, <2>2, <2>3, Zenon DEF Loose
<1>6. Grown
  <2>1. commits = <<>> /\ saved.commits = <<>> /\ saved.index = 0 /\ index = 0 /\ branch = 0 /\ store = <<>>
        /\ vouched = {} /\ sealed = {}
    BY DEF Init
  <2>2. Len(<<>>) = 0 /\ <<>> \in Seq(1 .. 0)
    OBVIOUS
  <2> QED BY <2>1, <2>2 DEF Grown
<1>7. KindsFit /\ Room /\ Targets
  BY <1>3 DEF KindsFit, Room, Targets, Restoring, Starting, SecondBuild, At, RestoreSteps
<1> QED BY <1>5, <1>6, <1>7, TypeFromParts DEF Shape

\* It holds in every reachable state.
LEMMA AlwaysShape == Spec => []Shape
<1>1. Shape /\ [Next]_vars => Shape'
  BY ShapeNext
<1> QED BY InitShape, <1>1, PTL DEF Spec

-----------------------------------------------------------------------------
(* What the timeline offers was built *)

\* The files that history tracks have not been edited by hand.
Clean == stray \cap Tracked = {}

\* A vouched commit has files that were published; so have the selected generation,
\* the workspace outside a restore, and what a restore puts back, unless files
\* were edited by hand.
Vouched ==
  /\ \A id \in vouched : store[id].tree \in published
  /\ Clean => Of(selected.tree) \in published
  /\ Clean /\ job.at # "down" /\ ~At(RestoreSteps) => Of(live) \in published
  /\ Clean /\ Restoring => job.snap.tree \in published
  /\ At({"commit", "save"}) /\ job.kind \in {"edit", "params", "imports"} => Of(live) \in published

\* A step that publishes.
LEMMA PublishVouches ==
  ASSUME Shape, Vouched, NEW tree \in Trees, NEW params \in Versions, Publish(tree, params),
         UNCHANGED <<vouched, store>>,
         Restoring' => Restoring /\ stray' = stray /\ job'.snap = job.snap
  PROVE  Vouched'
<1>1. /\ selected'.tree = tree /\ Of(live') = Of(tree) /\ published' = published \cup {Of(tree)}
  BY Published DEF Shape
<1>2. \A id \in vouched : store[id].tree \in published'
  BY <1>1 DEF Vouched
<1>3. Restoring' /\ Clean' => job'.snap.tree \in published'
  BY <1>1 DEF Vouched, Clean
<1> QED BY <1>1, <1>2, <1>3 DEF Vouched

\* No step vouches for a commit whose files were not published.
LEMMA VouchedNext ==
  ASSUME Shape, Shape', Vouched, [Next]_vars
  PROVE  Vouched'
<1> USE DEF At, RestoreSteps, SecondBuild, Restoring
<1>0. /\ Loose /\ KindsFit /\ live["settings"] \in Versions /\ 0 \in Versions
      /\ "skeleton" \in Tracked /\ "settings" \in Tracked /\ "brief" \notin Tracked
      /\ "skeleton" \in Files /\ "settings" \in Files /\ "brief" \in Files /\ Tracked \subseteq Files
  BY LooseIs, Zero, AuthoringAssumption DEF Shape, TypeOK, Trees, Files, Tracked, Sources
<1>1. CASE BuildAction
  <2>1. PICK tree \in Trees, params \in Versions :
          Publish(tree, params) /\ job'.at = "commit" /\ UNCHANGED <<timeline, vouched>>
    BY <1>1, BuildFacts
  <2> QED BY <2>1, PublishVouches DEF timeline
<1>2. CASE Republish
  <2>1. [live EXCEPT !["settings"] = mem.params] \in Trees /\ mem.params \in Versions
    BY <1>0 DEF Loose, Trees, Memories
  <2> QED BY <1>2, <2>1, PublishVouches DEF Republish, Outside, Idle, timeline
<1>3. CASE SetImports
  <2>1. [live EXCEPT !["settings"] = 0] \in Trees
    BY <1>0 DEF Loose, Trees
  <2>2. ~Restoring'
    BY <1>3, JobSteps
  <2> QED BY <1>0, <1>3, <2>1, <2>2, PublishVouches DEF SetImports, timeline
<1>4. CASE SetImportsInRound
  <2>1. round.clone \in Trees /\ mem.params \in Versions
    BY <1>0 DEF Loose, Rounds, Memories
  <2> QED BY <1>4, <2>1, PublishVouches DEF SetImportsInRound, Idle, timeline
<1>5. CASE Startup
  <2>1. ~Restoring'
    BY <1>0, <1>5, JobSteps DEF Startup, KindsFit
  <2> QED BY <1>0, <1>5, <2>1, PublishVouches DEF Startup, Loose, timeline
<1>6. CASE SetSaved
  <2>1. Saved \in Versions /\ [live EXCEPT !["settings"] = Saved] \in Trees
    BY <1>0 DEF Saved, Loose, Jobs, Snaps, Trees
  <2>2. ~Restoring'
    BY <1>6, JobSteps
  <2> QED BY <1>6, <2>1, <2>2, PublishVouches DEF SetSaved, timeline
<1>7. CASE Rebuild
  <2>1. PICK params \in Versions : Publish(live, params)
    BY <1>0, <1>7 DEF Rebuild
  <2>2. Restoring' => Restoring /\ stray' = stray /\ job'.snap = job.snap
    BY <1>7, JobSteps DEF Rebuild
  <2> QED BY <1>0, <1>7, <2>1, <2>2, PublishVouches DEF Rebuild, Loose, timeline
<1>8. CASE Rerender
  <2>1. /\ job' = job /\ job.at = "idle" /\ selected'.tree = live
        /\ UNCHANGED <<live, published, vouched, store, stray>>
    BY <1>8 DEF Rerender, Idle, timeline, observed
  <2> QED BY <2>1 DEF Vouched, Clean
<1>9. ASSUME NEW f \in {"skeleton", "brief"}, WriteFile(f) PROVE Vouched'
  <2>1. /\ job' = job /\ job.at = "idle" /\ stray' = stray \cup {f}
        /\ live' = [live EXCEPT ![f] = clock']
        /\ UNCHANGED <<selected, published, vouched, store>>
    BY <1>9 DEF WriteFile, Idle, timeline
  <2>2. Clean' => Clean /\ f = "brief"
    BY <1>0, <2>1 DEF Clean
  <2>3. f = "brief" => Of(live') = Of(live)
    BY <1>0, <2>1 DEF Of, Loose, Trees
  <2> QED BY <2>1, <2>2, <2>3 DEF Vouched
<1>10. CASE \/ BeginRound \/ AbortRound \/ BurstEnds
            \/ \E p \in Parts : SetRoundPart(p) \/ SetRoundPartFails(p)
  <2>1. UNCHANGED <<job, live, selected, published, vouched, store, stray>>
    BY <1>10 DEF BeginRound, AbortRound, BurstEnds, SetRoundPart, SetRoundPartFails, disk, timeline, observed
  <2> QED BY <2>1 DEF Vouched, Clean
<1>11. CASE Commit
  <2>1. /\ job.at = "commit" /\ job'.at = "save" /\ job'.kind = job.kind
        /\ UNCHANGED <<live, selected, published, stray>>
        /\ vouched' = IF Vouches THEN vouched \cup {Len(store) + 1} ELSE vouched
    BY <1>11, JobSteps DEF Commit, disk
  <2>2. Vouches => Of(live) \in published
    BY <2>1 DEF Vouches, Vouched, Clean
  <2>3. ASSUME NEW id \in vouched' PROVE store'[id].tree \in published
    <3>1. CASE id \in vouched
      <4>1. id \in 1 .. Len(store)
        BY <3>1 DEF Shape, Grown
      <4> QED BY <1>11, <3>1, <4>1, CommitStore DEF Vouched
    <3>2. CASE id = Len(store) + 1 /\ Vouches
      BY <1>11, <2>2, <3>2, CommitStore
    <3> QED BY <2>1, <2>3, <3>1, <3>2
  <2> QED BY <2>1, <2>3 DEF Vouched, Clean
<1>12. CASE CommitFails \/ Checkpoint \/ StartupFails \/ Crash
  <2>1. /\ UNCHANGED <<live, selected, published, stray, vouched, store>>
        /\ job'.at \in {"idle", "commit", "down"}
        /\ job'.at = "commit" => job'.kind \in {"checkpoint", "startup"}
        /\ job'.at # "down" => job.at \in {"idle", "commit", "build"}
    BY <1>12, JobSteps DEF CommitFails, Checkpoint, StartupFails, Crash, Idle, disk, timeline, observed
  <2> QED BY <2>1 DEF Vouched, Clean
<1>13. CASE SetSavedFails
  <2>1. /\ UNCHANGED <<live, selected, published, stray, vouched, store>> /\ job.at = "params"
        /\ \/ job.kind = "restore" /\ job'.at = "revert" /\ job'.snap = job.snap
           \/ job'.at = "commit" /\ job'.kind = "startup"
           \/ job'.at = "idle"
    BY <1>13, JobSteps DEF SetSavedFails, disk, timeline
  <2> QED BY <2>1 DEF Vouched, Clean
<1>14. CASE SaveTimeline
  <2>1. /\ UNCHANGED <<live, selected, published, stray, vouched, store>> /\ job.at = "save"
        /\ \/ job.kind = "imports" /\ job'.at = "commit" /\ job'.kind = "params"
           \/ job'.at = "idle"
    BY <1>14, JobSteps DEF SaveTimeline, disk, observed
  <2> QED BY <2>1 DEF Vouched, Clean
<1>15. CASE RestoreFiles \/ RestoreBranch \/ RestoreCursor \/ RebuildFails
  <2>1. /\ UNCHANGED <<selected, published, stray, vouched, store>>
        /\ job.at \in RestoreSteps /\ job'.at \in RestoreSteps /\ job'.snap = job.snap
    BY <1>15, JobSteps DEF RestoreFiles, RestoreBranch, RestoreCursor, RebuildFails, disk, timeline, observed
  <2> QED BY <2>1 DEF Vouched, Clean
<1>16. CASE Revert
  <2>1. /\ UNCHANGED <<selected, published, stray, vouched, store>>
        /\ job.at = "revert" /\ job'.at = "idle" /\ live' = With(job.snap.tree)
    BY <1>16, JobSteps DEF Revert, observed
  <2>2. job.snap.tree \in Snapshots /\ live \in Trees
    BY <1>0 DEF Loose, Jobs, Snaps
  <2>3. Of(live') = job.snap.tree
    BY <2>1, <2>2, WithTree
  <2> QED BY <2>1, <2>3 DEF Vouched, Clean
<1>17. ASSUME NEW i \in 1 .. Len(commits), Restore(i) PROVE Vouched'
  <2>1. /\ UNCHANGED <<live, selected, published, stray, vouched, store>>
        /\ job.at = "idle" /\ job'.at = "files" /\ job'.snap.tree = Of(live)
    BY <1>17, JobSteps DEF Restore, Outside, Idle, disk, timeline, observed
  <2> QED BY <2>1 DEF Vouched, Clean
<1>18. CASE Restart
  <2>1. /\ UNCHANGED <<selected, published, vouched, store>>
        /\ job'.at = "build" /\ job'.kind = "startup"
        /\ live' = IF published = {} THEN live ELSE Mirror(selected.tree)
        /\ stray' = IF Of(selected.tree) \in published THEN {} ELSE stray
    BY <1>18, JobSteps DEF Restart
  <2>2. Clean' => Of(selected.tree) \in published
    BY <2>1 DEF Vouched, Clean
  <2>3. selected.tree \in Trees /\ live \in Trees
    BY <1>0 DEF Loose
  <2>4. Of(selected.tree) \in published => Of(live') = Of(selected.tree)
    BY <2>1, <2>3, MirrorTree
  <2> QED BY <2>1, <2>2, <2>4 DEF Vouched
<1>19. CASE UNCHANGED vars
  BY <1>19 DEF Vouched, Clean, vars, disk, timeline, observed
<1> QED
  BY <1>1, <1>2, <1>3, <1>4, <1>5, <1>6, <1>7, <1>8, <1>9, <1>10, <1>11, <1>12, <1>13, <1>14, <1>15,
     <1>16, <1>17, <1>18, <1>19
  DEF Next, Edit, Round, Step, BuildAction

-----------------------------------------------------------------------------
(* Memory, the settings on disk and the selected geometry *)

\* The session has built tree with the parameters that it remembers.
Synced(tree) ==
  /\ selected.params = selected.tree["settings"]
  /\ selected.params = mem.params
  /\ mem.params = tree["settings"]
  /\ ~assembly /\ "skeleton" \notin stray => mem.code = tree["skeleton"]

\* Unless a build has failed, this holds of the workspace between calls, and
\* during a restore of the files that it may have to put back; a round's clone
\* has the parameters in memory.
Remembered ==
  /\ ~torn /\ At({"idle", "commit", "save"}) => Synced(live)
  /\ ~torn /\ At(RestoreSteps) => Synced(job.snap.tree)
  /\ job.at = "params" /\ ~assembly => mem.code = live["skeleton"]
  /\ round.active /\ ~torn => round.clone["settings"] = mem.params

\* No step lets memory, settings and selected geometry differ unnoticed.
LEMMA RememberedNext ==
  ASSUME Shape, Remembered, [Next]_vars
  PROVE  Remembered'
<1> USE DEF At, RestoreSteps, SecondBuild
<1>0. /\ Loose /\ KindsFit /\ TypeOK /\ ~NoRound.active /\ live["settings"] \in Versions /\ 0 \in Versions
      /\ "skeleton" \in Tracked /\ "settings" \in Tracked /\ "brief" \notin Tracked
      /\ "skeleton" \in Files /\ "settings" \in Files /\ "brief" \in Files /\ Tracked \subseteq Files
      /\ "settings" \notin Parts
  BY LooseIs, Zero, NoRoundType, AuthoringAssumption DEF Shape, TypeOK, Trees, Files, Tracked, Sources
<1>1. CASE BuildAction
  <2>1. PICK tree \in Trees, params \in Versions :
          /\ Publish(tree, params)
          /\ tree["settings"] = params /\ mem'.params = params
          /\ ~assembly => mem'.code = tree["skeleton"]
          /\ job'.at = "commit" /\ ~round'.active /\ assembly' = assembly
    BY <1>1, BuildFacts
  <2>2. /\ selected'.tree = tree /\ selected'.params = params
        /\ live'["settings"] = tree["settings"] /\ live'["skeleton"] = tree["skeleton"]
    BY <1>0, <2>1, Published
  <2> QED BY <2>1, <2>2 DEF Remembered, Synced
<1>2. CASE Republish
  <2> DEFINE tree == [live EXCEPT !["settings"] = mem.params]
  <2>1. tree \in Trees /\ mem.params \in Versions /\ tree["settings"] = mem.params
    BY <1>0 DEF Loose, Trees, Memories
  <2> HIDE DEF tree
  <2>2. /\ Publish(tree, mem.params) /\ assembly /\ ~round.active
        /\ UNCHANGED <<assembly, mem, round, job>> /\ job.at = "idle"
    BY <1>2 DEF Republish, Outside, Idle, tree
  <2>3. selected'.tree = tree /\ selected'.params = mem.params /\ live'["settings"] = tree["settings"]
    BY <1>0, <2>1, <2>2, Published
  <2> QED BY <2>1, <2>2, <2>3 DEF Remembered, Synced
<1>3. CASE SetImports
  <2> DEFINE tree == [live EXCEPT !["settings"] = 0]
  <2>1. tree \in Trees /\ tree["settings"] = 0 /\ tree["skeleton"] = live["skeleton"]
    BY <1>0 DEF Loose, Trees
  <2> HIDE DEF tree
  <2>2. /\ Publish(tree, 0) /\ ~assembly /\ UNCHANGED <<assembly, round>>
        /\ mem'.params = 0 /\ mem'.code = live["skeleton"]
        /\ job'.at \in {"commit", "params"}
    BY <1>3, JobSteps DEF SetImports, tree
  <2>3. /\ selected'.tree = tree /\ selected'.params = 0
        /\ live'["settings"] = tree["settings"] /\ live'["skeleton"] = tree["skeleton"]
    BY <1>0, <2>1, <2>2, Published
  <2> QED BY <1>0, <2>1, <2>2, <2>3 DEF Remembered, Synced, KindsFit
<1>4. CASE SetImportsInRound
  <2>1. round.clone \in Trees /\ mem.params \in Versions
    BY <1>0 DEF Loose, Rounds, Memories
  <2>2. /\ Publish(round.clone, mem.params) /\ round.active /\ assembly
        /\ UNCHANGED <<assembly, mem, round, job, torn>> /\ job.at = "idle"
    BY <1>0, <1>4 DEF SetImportsInRound, Idle, KindsFit
  <2>3. /\ selected'.tree = round.clone /\ selected'.params = mem.params
        /\ live'["settings"] = round.clone["settings"]
    BY <1>0, <2>1, <2>2, Published
  <2> QED BY <2>1, <2>2, <2>3 DEF Remembered, Synced
<1>5. CASE Rerender
  <2>1. /\ selected'.tree = live /\ selected'.params = selected.params /\ ~torn /\ job.at = "idle"
        /\ UNCHANGED <<assembly, live, mem, round, job, stray, torn>>
    BY <1>5 DEF Rerender, Idle, observed
  <2> QED BY <2>1 DEF Remembered, Synced
<1>6. ASSUME NEW f \in {"skeleton", "brief"}, WriteFile(f) PROVE Remembered'
  <2>1. /\ live' = [live EXCEPT ![f] = clock'] /\ stray' = stray \cup {f} /\ job.at = "idle"
        /\ UNCHANGED <<assembly, selected, mem, round, job, torn>>
    BY <1>6 DEF WriteFile, Idle
  <2>2. /\ live'["settings"] = live["settings"]
        /\ f = "brief" => live'["skeleton"] = live["skeleton"]
    BY <1>0, <2>1 DEF Loose, Trees
  <2> QED BY <2>1, <2>2 DEF Remembered, Synced
<1>7. CASE BeginRound
  <2>1. /\ round'.active /\ round'.clone = live /\ job.at = "idle"
        /\ UNCHANGED <<assembly, live, selected, mem, job, stray, torn>>
    BY <1>7 DEF BeginRound, Idle, disk, observed
  <2> QED BY <2>1 DEF Remembered, Synced
<1>8. CASE AbortRound \/ BurstEnds \/ \E p \in Parts : SetRoundPart(p) \/ SetRoundPartFails(p)
  <2>1. /\ UNCHANGED <<assembly, live, selected, mem, job, stray, torn>>
        /\ round'.active => round.active /\ round'.clone["settings"] = round.clone["settings"]
    <3>1. round \in Rounds
      BY <1>0 DEF Loose
    <3>2. ASSUME NEW p \in Parts, SetRoundPart(p)
          PROVE  round'.clone["settings"] = round.clone["settings"] /\ round'.active = round.active
      BY <1>0, <3>1, <3>2 DEF SetRoundPart, Rounds, Trees
    <3>3. ASSUME NEW p \in Parts, SetRoundPartFails(p)
          PROVE  round'.clone["settings"] = round.clone["settings"] /\ round'.active = round.active
      BY <3>1, <3>3 DEF SetRoundPartFails, Rounds
    <3>4. AbortRound => round' = NoRound
      BY DEF AbortRound
    <3>5. BurstEnds => round' = round
      BY DEF BurstEnds
    <3>6. UNCHANGED <<assembly, live, selected, mem, job, stray, torn>>
      BY <1>8 DEF AbortRound, BurstEnds, SetRoundPart, SetRoundPartFails, disk, observed
    <3> QED BY <1>0, <1>8, <3>2, <3>3, <3>4, <3>5, <3>6
  <2> QED BY <2>1 DEF Remembered, Synced
<1>9. CASE Commit \/ SaveTimeline \/ CommitFails \/ Checkpoint
  <2>1. /\ UNCHANGED <<assembly, live, selected, mem, round, stray, torn>>
        /\ job.at \in {"idle", "commit", "save"} /\ job'.at \in {"idle", "commit", "save"}
    BY <1>9, JobSteps DEF Commit, SaveTimeline, CommitFails, Checkpoint, Idle, disk, observed
  <2> QED BY <2>1 DEF Remembered, Synced
<1>10. CASE StartupFails \/ SetSavedFails
  <2>1. torn' /\ job'.at # "params"
    BY <1>0, <1>10, JobSteps DEF StartupFails, SetSavedFails
  <2> QED BY <2>1 DEF Remembered
<1>11. CASE Crash
  <2>1. job'.at = "down" /\ UNCHANGED <<mem, round, torn>>
    BY <1>11, JobSteps DEF Crash, observed
  <2> QED BY <2>1 DEF Remembered
<1>12. ASSUME NEW i \in 1 .. Len(commits), Restore(i) PROVE Remembered'
  <2>1. /\ job.at = "idle" /\ job'.at = "files" /\ job'.snap.tree = Of(live)
        /\ UNCHANGED <<assembly, live, selected, mem, round, stray, torn>>
    BY <1>12, JobSteps DEF Restore, Outside, Idle, disk, observed
  <2>2. Of(live)["settings"] = live["settings"] /\ Of(live)["skeleton"] = live["skeleton"]
    BY <1>0, OfTree DEF Loose
  <2> QED BY <2>1, <2>2 DEF Remembered, Synced
<1>13. CASE RestoreFiles \/ RestoreBranch \/ RestoreCursor
  <2>1. /\ job.at \in RestoreSteps /\ job'.at \in RestoreSteps /\ job'.snap = job.snap
        /\ UNCHANGED <<assembly, selected, mem, round, stray, torn>>
    BY <1>13, JobSteps DEF RestoreFiles, RestoreBranch, RestoreCursor, disk, observed
  <2> QED BY <2>1 DEF Remembered, Synced
<1>14. CASE RebuildFails
  <2>1. /\ job.at = "rebuild" /\ job'.at = "revert" /\ job'.snap = job.snap
        /\ UNCHANGED <<assembly, selected, round, stray>>
        /\ ~torn' => ~torn /\ ~assembly
        /\ ~assembly => mem' = mem
    BY <1>14, JobSteps DEF RebuildFails, disk
  <2> QED BY <1>0, <2>1 DEF Remembered, Synced, KindsFit
<1>15. CASE Rebuild
  <2>1. /\ job.at = "rebuild" /\ ~round.active /\ round' = round /\ assembly' = assembly
    BY <1>0, <1>15 DEF Rebuild, KindsFit
  <2>2. live \in Trees /\ mem \in Memories
    BY <1>0 DEF Loose
  <2>3. CASE assembly
    <3>1. Publish(live, live["settings"]) /\ mem'.params = live["settings"] /\ job'.at = "idle"
      BY <1>15, <2>2, <2>3, JobSteps DEF Rebuild, Memories
    <3>2. selected'.tree = live /\ selected'.params = live["settings"] /\ live'["settings"] = live["settings"]
      BY <1>0, <2>2, <3>1, Published
    <3> QED BY <2>1, <2>3, <3>1, <3>2 DEF Remembered, Synced
  <2>4. CASE ~assembly
    <3>1. /\ Publish(live, 0) /\ mem'.params = 0 /\ mem'.code = live["skeleton"]
          /\ \/ job'.at = "idle" /\ live["settings"] = 0
             \/ job'.at = "params"
      <4>1. Publish(live, 0) /\ mem' = [params |-> 0, code |-> live["skeleton"]]
        BY <1>15, <2>4 DEF Rebuild
      <4>2. \/ job'.at = "idle" /\ live["settings"] = 0
            \/ job'.at = "params"
        BY <1>15, <2>4, JobSteps, Zenon
      <4> QED BY <4>1, <4>2
    <3>2. /\ selected'.tree = live /\ selected'.params = 0
          /\ live'["settings"] = live["settings"] /\ live'["skeleton"] = live["skeleton"]
      BY <1>0, <2>2, <3>1, Published
    <3> QED BY <2>1, <2>4, <3>1, <3>2 DEF Remembered, Synced
  <2> QED BY <2>3, <2>4
<1>16. CASE Revert
  <2>1. /\ job.at = "revert" /\ job'.at = "idle" /\ live' = With(job.snap.tree)
        /\ UNCHANGED <<assembly, selected, mem, round, stray, torn>>
    BY <1>16, JobSteps DEF Revert, observed
  <2>2. job.snap.tree \in Snapshots /\ live \in Trees
    BY <1>0 DEF Loose, Jobs, Snaps
  <2>3. live'["settings"] = job.snap.tree["settings"] /\ live'["skeleton"] = job.snap.tree["skeleton"]
    BY <1>0, <2>1, <2>2, WithTree
  <2> QED BY <2>1, <2>3 DEF Remembered, Synced
<1>17. CASE SetSaved
  <2> DEFINE tree == [live EXCEPT !["settings"] = Saved]
  <2>1. Saved \in Versions
    BY <1>0 DEF Saved, Loose, Jobs, Snaps
  <2>2. tree \in Trees /\ tree["settings"] = Saved /\ tree["skeleton"] = live["skeleton"]
    BY <1>0, <2>1 DEF Loose, Trees
  <2> HIDE DEF tree
  <2>3. /\ Publish(tree, Saved) /\ job.at = "params" /\ job'.at \in {"commit", "idle"}
        /\ mem'.params = Saved /\ mem'.code = mem.code /\ UNCHANGED <<assembly, round>>
    BY <1>0, <1>17, JobSteps DEF SetSaved, Loose, Memories, tree
  <2>4. /\ selected'.tree = tree /\ selected'.params = Saved
        /\ live'["settings"] = tree["settings"] /\ live'["skeleton"] = tree["skeleton"]
    BY <1>0, <2>1, <2>2, <2>3, Published
  <2> QED BY <1>0, <2>2, <2>3, <2>4 DEF Remembered, Synced, KindsFit
<1>18. CASE Restart
  <2>1. job'.at = "build" /\ ~round'.active
    BY <1>0, <1>18, JobSteps DEF Restart
  <2> QED BY <2>1 DEF Remembered
<1>19. CASE Startup
  <2>1. /\ job.at = "build" /\ Publish(live, 0) /\ mem'.params = 0
        /\ ~assembly => mem'.code = live["skeleton"]
        /\ UNCHANGED <<assembly, round>>
        /\ \/ job'.at = "params"
           \/ job'.at \in {"commit", "idle"} /\ live["settings"] = 0
    BY <1>19, JobSteps DEF Startup
  <2>2. /\ selected'.tree = live /\ selected'.params = 0
        /\ live'["settings"] = live["settings"] /\ live'["skeleton"] = live["skeleton"]
    BY <1>0, <2>1, Published DEF Loose
  <2> QED BY <1>0, <2>1, <2>2 DEF Remembered, Synced, KindsFit
<1>20. CASE UNCHANGED vars
  BY <1>20 DEF Remembered, Synced, vars, disk, observed
<1> QED
  BY <1>1, <1>2, <1>3, <1>4, <1>5, <1>6, <1>7, <1>8, <1>9, <1>10, <1>11, <1>12, <1>13, <1>14, <1>15,
     <1>16, <1>17, <1>18, <1>19, <1>20
  DEF Next, Edit, Round, Step, BuildAction

-----------------------------------------------------------------------------
(* The timeline, the branch and the files between calls *)

\* What a step outside the history does to the call under way.
LEMMA QuietJob ==
  ASSUME Shape, Next, ~HistoryStep
  PROVE  /\ lapsed => lapsed'
         /\ job.at # "down" /\ job'.at \notin {"save", "cursor"}
         /\ job'.at = "down" => lapsed'
         /\ job.at \in {"save", "cursor"} => job'.at = "down"
         /\ Starting' => Starting \/ job'.at = "down"
         /\ Restoring' =>
              \/ Restoring /\ job'.snap = job.snap /\ job'.to = job.to
              \/ /\ job.at = "idle" /\ job'.at = "files" /\ commits # <<>>
                 /\ job'.snap.branch = branch /\ job'.snap.index = index
<1> USE DEF At, RestoreSteps, SecondBuild, Restoring, Starting
<1>0. KindsFit
  BY DEF Shape
<1>1. CASE BuildAction
  <2>1. job.at = "idle" /\ job'.at = "commit" /\ lapsed' = lapsed
    BY <1>1, BuildFacts DEF Idle
  <2> QED BY <2>1
<1>2. CASE AsideAction
  <2>1. job.at = "idle" /\ job' = job
    BY <1>2 DEF AsideAction, Republish, Rerender, BeginRound, AbortRound, SetImportsInRound, BurstEnds,
                WriteFile, SetRoundPart, SetRoundPartFails, Outside, Idle
  <2>2. CASE Republish
    <3>1. lapsed' = (lapsed \/ stray # {} \/ torn)
      BY <2>2 DEF Republish
    <3> QED BY <2>1, <3>1
  <2>3. CASE SetImportsInRound
    <3>1. lapsed' = TRUE
      BY <2>3 DEF SetImportsInRound
    <3> QED BY <2>1, <3>1
  <2>4. CASE AsideAction /\ ~Republish /\ ~SetImportsInRound
    <3>1. lapsed' = lapsed
      BY <2>4 DEF AsideAction, Rerender, BeginRound, AbortRound, BurstEnds, WriteFile, SetRoundPart,
                  SetRoundPartFails, observed
    <3> QED BY <2>1, <3>1
  <2> QED BY <1>2, <2>2, <2>3, <2>4
<1>3. CASE SetImports \/ Checkpoint
  <2>1. job.at = "idle" /\ job'.at \in {"commit", "params"} /\ lapsed' = lapsed
        /\ (job'.at = "params" => job'.kind = "imports")
    BY <1>3, JobSteps DEF SetImports, Checkpoint, Idle, observed
  <2> QED BY <2>1
<1>4. CASE CommitFails
  <2>1. job.at = "commit" /\ job'.at = "idle" /\ lapsed'
    BY <1>4, JobSteps DEF CommitFails
  <2> QED BY <2>1
<1>5. CASE RestoreFiles \/ RebuildFails
  <2>1. /\ job.at \in {"files", "rebuild"} /\ job'.at \in {"branch", "revert"} /\ lapsed' = lapsed
        /\ job'.snap = job.snap /\ job'.to = job.to
    BY <1>5, JobSteps DEF RestoreFiles, RebuildFails, observed
  <2> QED BY <2>1
<1>6. CASE Rebuild
  <2>1. /\ job.at = "rebuild" /\ lapsed' = lapsed
        /\ \/ job'.at = "idle"
           \/ job'.at = "params" /\ job'.kind = job.kind /\ job'.snap = job.snap /\ job'.to = job.to
    BY <1>6, JobSteps DEF Rebuild
  <2> QED BY <1>0, <2>1 DEF KindsFit
<1>7. CASE SetSaved
  <2>1. job.at = "params" /\ lapsed' = lapsed /\ job'.at \in {"commit", "idle"}
    BY <1>7, JobSteps DEF SetSaved
  <2> QED BY <2>1
<1>8. CASE SetSavedFails
  <2>1. /\ job.at = "params" /\ (lapsed => lapsed')
        /\ \/ /\ job.kind = "restore" /\ job'.at = "revert" /\ job'.kind = job.kind
              /\ job'.snap = job.snap /\ job'.to = job.to
           \/ job'.at \in {"commit", "idle"}
    BY <1>8, JobSteps DEF SetSavedFails
  <2> QED BY <2>1
<1>9. CASE Startup
  <2>1. /\ job.at = "build" /\ lapsed' = lapsed
        /\ \/ job'.at = "params" /\ job'.kind = job.kind
           \/ job'.at \in {"commit", "idle"}
    BY <1>9, JobSteps DEF Startup
  <2> QED BY <1>0, <2>1 DEF KindsFit
<1>10. CASE StartupFails
  <2>1. job.at = "build" /\ lapsed' = lapsed /\ job'.at \in {"commit", "idle"}
    BY <1>10, JobSteps DEF StartupFails
  <2> QED BY <2>1
<1>11. CASE Crash
  <2>1. job.at # "down" /\ job'.at = "down" /\ lapsed'
    BY <1>11, JobSteps DEF Crash
  <2> QED BY <2>1
<1>12. ASSUME NEW i \in 1 .. Len(commits), Restore(i)
       PROVE  /\ job.at = "idle" /\ job'.at = "files" /\ lapsed' = lapsed /\ commits # <<>>
              /\ job'.snap.branch = branch /\ job'.snap.index = index
  <2>1. commits # <<>>
    BY <1>12
  <2> QED BY <1>12, <2>1, JobSteps DEF Restore, Outside, Idle, observed
<1>13. CASE \E i \in 1 .. Len(commits) : Restore(i)
  <2>1. /\ job.at = "idle" /\ job'.at = "files" /\ lapsed' = lapsed /\ commits # <<>>
        /\ job'.snap.branch = branch /\ job'.snap.index = index
    BY <1>12, <1>13
  <2> QED BY <2>1
<1> QED
  BY <1>1, <1>2, <1>3, <1>4, <1>5, <1>6, <1>7, <1>8, <1>9, <1>10, <1>11, <1>13
  DEF Next, Edit, Round, Step, BuildAction, AsideAction, HistoryStep

\* As long as no commit failed and no worker died, the timeline is a chain of
\* parents, the branch is at the cursor except while a restore moves them, and
\* the file has what memory has except while a call saves it.
Lineage == ~lapsed =>
  /\ Starting => commits = <<>> /\ branch = 0 /\ saved.commits = <<>>
  /\ \A i \in 2 .. Len(commits) : store[commits[i]].parent = commits[i - 1]
  /\ index > 0 /\ job.at # "cursor" => branch = commits[index]
  /\ job.at = "cursor" => branch = commits[job.to]
  /\ index > 0 /\ job.at # "save" => saved = [commits |-> commits, index |-> index]
  /\ Restoring => job.snap.branch = commits[job.snap.index]

\* No step moves the branch, the cursor or the file alone, unless it sets lapsed.
LEMMA LineageNext ==
  ASSUME Shape, Shape', Lineage, [Next]_vars
  PROVE  Lineage'
<1> SUFFICES ASSUME ~lapsed' PROVE Lineage'
  BY DEF Lineage
<1> USE DEF At, RestoreSteps, SecondBuild, Restoring, Starting
<1>1. CASE UNCHANGED vars
  BY <1>1 DEF Lineage, vars, timeline, observed
<1>2. CASE Next /\ ~HistoryStep
  <2>1. UNCHANGED <<commits, index, saved, branch, store>>
    BY <1>2, QuietSteps
  <2>2. /\ ~lapsed /\ job'.at \notin {"save", "cursor", "down"} /\ job.at \notin {"save", "cursor"}
        /\ Starting' => Starting
        /\ Restoring' =>
             \/ Restoring /\ job'.snap = job.snap
             \/ /\ commits # <<>> /\ job'.snap.branch = branch /\ job'.snap.index = index
    BY <1>2, QuietJob
  <2>3. commits # <<>> => index > 0
    BY DEF Shape, Grown
  <2>4. Restoring' => job'.snap.branch = commits[job'.snap.index]
    BY <2>2, <2>3 DEF Lineage
  <2> QED BY <2>1, <2>2, <2>4 DEF Lineage
<1>3. CASE Commit
  <2>1. job.at = "commit" /\ ~lapsed /\ job'.at = "save"
    BY <1>3, JobSteps DEF Commit
  <2>2. /\ \A i \in 2 .. Len(commits) : store[commits[i]].parent = commits[i - 1]
        /\ index > 0 => branch = commits[index]
    BY <2>1 DEF Lineage
  <2>3. /\ index' = (IF Replaces THEN index ELSE index + 1) /\ index' \in Nat /\ index' > 0
        /\ Len(commits') = index' /\ commits'[index'] = Len(store') /\ branch' = Len(store')
        /\ \A i \in 1 .. index' - 1 : commits'[i] = commits[i] /\ i \in 1 .. Len(commits) /\ i <= index
    BY <1>3, CommitLine
  <2>4. /\ store'[Len(store')].parent = (IF Replaces THEN store[branch].parent ELSE branch)
        /\ \A id \in 1 .. Len(store) : store'[id] = store[id]
    BY <1>3, CommitStore
  <2>5. index \in Nat /\ \A i \in 1 .. Len(commits) : commits[i] \in 1 .. Len(store)
    BY StoreType, SMTT(20) DEF Shape, Grown
  <2>6. ASSUME NEW i \in 2 .. Len(commits') PROVE store'[commits'[i]].parent = commits'[i - 1]
    <3>1. i - 1 \in 1 .. index' - 1 /\ commits'[i - 1] = commits[i - 1] /\ i \in 2 .. index'
      BY <2>3
    <3>2. CASE i # index'
      <4>1. i \in 1 .. index' - 1
        BY <2>3, <3>1, <3>2
      <4>2. commits'[i] = commits[i] /\ i \in 2 .. Len(commits) /\ commits[i] \in 1 .. Len(store)
        BY <2>3, <2>5, <4>1
      <4> QED BY <2>2, <2>4, <3>1, <4>2
    <3>3. CASE i = index' /\ Replaces
      <4>1. i = index /\ i \in 2 .. Len(commits) /\ branch = commits[i]
        BY <2>1, <2>2, <2>3, <2>5, <3>1, <3>3, Amended
      <4> QED BY <2>2, <2>3, <2>4, <3>1, <3>3, <4>1
    <3>4. CASE i = index' /\ ~Replaces
      <4>1. index = i - 1 /\ index > 0
        BY <2>3, <2>5, <3>1, <3>4
      <4> QED BY <2>2, <2>3, <2>4, <3>1, <3>4, <4>1
    <3> QED BY <3>2, <3>3, <3>4
  <2> QED BY <2>1, <2>3, <2>6 DEF Lineage
<1>4. CASE SaveTimeline
  <2>1. /\ job.at = "save" /\ lapsed' = lapsed /\ job'.at \in {"idle", "commit"}
        /\ saved' = [commits |-> commits, index |-> index]
        /\ UNCHANGED <<commits, index, branch, store>>
    BY <1>4, JobSteps DEF SaveTimeline, observed
  <2> QED BY <2>1 DEF Lineage
<1>5. CASE RestoreBranch
  <2>1. /\ job.at = "branch" /\ lapsed' = lapsed /\ job'.at = "cursor" /\ job'.to = job.to /\ job'.snap = job.snap
        /\ branch' = commits[job.to] /\ UNCHANGED <<commits, index, saved, store>>
    BY <1>5, JobSteps DEF RestoreBranch, observed
  <2> QED BY <2>1 DEF Lineage
<1>6. CASE RestoreCursor
  <2>1. /\ job.at = "cursor" /\ lapsed' = lapsed /\ job'.at = "rebuild" /\ job'.to = job.to /\ job'.snap = job.snap
        /\ index' = job.to /\ saved' = [commits |-> commits, index |-> job.to]
        /\ UNCHANGED <<commits, branch, store>>
    BY <1>6, JobSteps DEF RestoreCursor, observed
  <2> QED BY <2>1 DEF Lineage
<1>7. CASE Revert
  <2>1. /\ job.at = "revert" /\ lapsed' = lapsed /\ job'.at = "idle"
        /\ index' = job.snap.index /\ saved' = [commits |-> commits, index |-> job.snap.index]
        /\ branch' = job.snap.branch /\ UNCHANGED <<commits, store>>
    BY <1>7, JobSteps DEF Revert, observed
  <2> QED BY <2>1 DEF Lineage
<1>8. CASE Restart
  <2>1. /\ job.at = "down" /\ lapsed' = lapsed /\ job'.at = "build"
        /\ commits' = Persisted.commits /\ index' = Persisted.index
        /\ UNCHANGED <<saved, branch, store>>
    BY <1>8, JobSteps DEF Restart, LoadTimeline
  <2>2. branch = 0 /\ saved.commits = <<>>
    BY <2>1 DEF Lineage
  <2>3. Chain[0] = <<>>
    BY ChainNow, ChainShape, StoreType
  <2>4. commits' = <<>> /\ index' = 0
    <3>1. Persisted = [commits |-> <<>>, index |-> Len(<<>>)]
      BY <2>2, <2>3 DEF Persisted
    <3> QED BY <2>1, <3>1
  <2> QED BY <2>1, <2>2, <2>4 DEF Lineage
<1> QED BY <1>1, <1>2, <1>3, <1>4, <1>5, <1>6, <1>7, <1>8 DEF HistoryStep

\* The files are those of the commit under the cursor, or under the one that a
\* restore goes to; what a restore puts back are those of the commit it came from.
Matched ==
  /\ ~lapsed /\ job.at = "idle" /\ index > 0 => \A f \in Tracked \ stray : live[f] = TreeAt(index)[f]
  /\ job.at = "save" => Of(live) = TreeAt(index)
  /\ At({"branch", "cursor", "rebuild"}) \/ SecondBuild => Of(live) = TreeAt(job.to)
  /\ job.at = "rebuild" \/ SecondBuild => index = job.to
  /\ ~lapsed /\ Restoring => \A f \in Tracked \ stray : job.snap.tree[f] = TreeAt(job.snap.index)[f]

\* No step leaves the workspace with other files than its commit, unless it sets lapsed.
LEMMA MatchedNext ==
  ASSUME Shape, Lineage, Remembered, Matched, [Next]_vars
  PROVE  Matched'
<1> USE DEF At, RestoreSteps, SecondBuild, Restoring, Starting, TreeAt
<1>0. /\ Loose /\ TypeOK /\ KindsFit /\ live \in Trees /\ live["settings"] \in Versions /\ 0 \in Versions
      /\ "skeleton" \in Tracked /\ "settings" \in Tracked /\ "brief" \notin Tracked
      /\ Tracked \subseteq Files /\ "settings" \in Files
      /\ \A f \in Tracked : Of(live)[f] = live[f]
  BY LooseIs, Zero, OfTree, AuthoringAssumption DEF Shape, TypeOK, Trees, Files, Tracked, Sources
<1>1. CASE BuildAction
  <2>1. job'.at = "commit"
    BY <1>1, BuildFacts
  <2> QED BY <2>1 DEF Matched
<1>2. CASE Republish
  <2> DEFINE tree == [live EXCEPT !["settings"] = mem.params]
  <2>1. /\ Publish(tree, mem.params) /\ job.at = "idle" /\ job' = job
        /\ lapsed' = (lapsed \/ stray # {} \/ torn) /\ stray' = {}
        /\ UNCHANGED <<commits, index, store>>
    BY <1>2 DEF Republish, Outside, Idle, timeline
  <2>2. tree \in Trees /\ mem.params \in Versions /\ \A f \in Tracked : f # "settings" => tree[f] = live[f]
    BY <1>0 DEF Loose, Trees, Memories
  <2>3. tree["settings"] = mem.params
    BY <1>0 DEF Trees
  <2> HIDE DEF tree
  <2>4. ~lapsed' => ~lapsed /\ stray = {} /\ mem.params = live["settings"]
    BY <2>1 DEF Remembered, Synced
  <2>5. \A f \in Tracked : live'[f] = tree[f]
    BY <1>0, <2>1, <2>2, Published
  <2>6. ~lapsed' => \A f \in Tracked : live'[f] = live[f]
    BY <2>2, <2>3, <2>4, <2>5
  <2> QED BY <2>1, <2>4, <2>6 DEF Matched
<1>3. CASE SetImports \/ Checkpoint
  <2>1. job'.at \in {"commit", "params"} /\ (job'.at = "params" => job'.kind = "imports")
    BY <1>3, JobSteps
  <2> QED BY <2>1 DEF Matched
<1>4. CASE CommitFails \/ SetImportsInRound
  <2>1. job'.at = "idle" /\ lapsed'
    BY <1>4, JobSteps DEF CommitFails, SetImportsInRound, Idle
  <2> QED BY <2>1 DEF Matched
<1>5. CASE Crash \/ Restart
  <2>1. job'.at \in {"down", "build"}
    BY <1>5, JobSteps
  <2> QED BY <2>1 DEF Matched
<1>6. CASE \/ Rerender \/ BeginRound \/ AbortRound \/ BurstEnds
           \/ \E p \in Parts : SetRoundPart(p) \/ SetRoundPartFails(p)
  <2>1. UNCHANGED <<job, live, commits, index, store, stray, lapsed>>
    BY <1>6 DEF Rerender, BeginRound, AbortRound, BurstEnds, SetRoundPart, SetRoundPartFails, disk, timeline, observed
  <2> QED BY <2>1 DEF Matched
<1>7. ASSUME NEW f \in {"skeleton", "brief"}, WriteFile(f) PROVE Matched'
  <2>1. /\ job.at = "idle" /\ live' = [live EXCEPT ![f] = clock'] /\ stray' = stray \cup {f}
        /\ UNCHANGED <<job, commits, index, store, lapsed>>
    BY <1>7 DEF WriteFile, Idle, timeline
  <2>2. \A g \in Tracked \ stray' : g \in Tracked \ stray /\ live'[g] = live[g]
    BY <1>0, <2>1 DEF Trees
  <2> QED BY <2>1, <2>2 DEF Matched
<1>8. CASE Commit
  <2>1. job'.at = "save" /\ live' = live
    BY <1>8, JobSteps DEF Commit, disk
  <2>2. store'[commits'[index']].tree = Of(live)
    BY <1>8, CommitLine, CommitStore
  <2> QED BY <2>1, <2>2 DEF Matched
<1>9. CASE SaveTimeline
  <2>1. /\ job.at = "save" /\ job'.at \in {"idle", "commit"}
        /\ UNCHANGED <<live, commits, index, store, stray, lapsed>>
    BY <1>9, JobSteps DEF SaveTimeline, disk, observed
  <2>2. \A f \in Tracked : live[f] = store[commits[index]].tree[f]
    BY <1>0, <2>1 DEF Matched
  <2> QED BY <2>1, <2>2 DEF Matched
<1>10. CASE RestoreFiles
  <2>1. /\ job.at = "files" /\ job'.at = "branch" /\ job'.to = job.to /\ job'.snap = job.snap
        /\ live' = With(store[commits[job.to]].tree)
        /\ UNCHANGED <<commits, index, store, stray, lapsed>>
    BY <1>10, JobSteps DEF RestoreFiles, timeline, observed
  <2>2. job.to \in 1 .. Len(commits)
    BY <2>1 DEF Shape, Targets
  <2>3. Of(live') = store[commits[job.to]].tree
    BY <1>0, <2>1, <2>2, StoreType, WithTree
  <2> QED BY <2>1, <2>3 DEF Matched
<1>11. CASE RestoreBranch \/ RestoreCursor \/ RebuildFails
  <2>1. /\ job.at \in {"branch", "cursor", "rebuild"} /\ job'.to = job.to /\ job'.snap = job.snap
        /\ \/ job.at = "branch" /\ job'.at = "cursor"
           \/ job.at = "cursor" /\ job'.at = "rebuild" /\ index' = job.to
           \/ job.at = "rebuild" /\ job'.at = "revert"
        /\ UNCHANGED <<live, commits, store, stray, lapsed>>
    BY <1>11, JobSteps DEF RestoreBranch, RestoreCursor, RebuildFails, disk, timeline, observed
  <2> QED BY <2>1 DEF Matched
<1>12. CASE Rebuild
  <2>1. /\ job.at = "rebuild" /\ (\E params \in Versions : Publish(live, params))
        /\ \/ job'.at = "idle"
           \/ /\ job'.at = "params" /\ job'.kind = job.kind /\ job'.to = job.to /\ job'.snap = job.snap
              /\ stray' = stray
        /\ UNCHANGED <<commits, index, store, lapsed>>
    BY <1>0, <1>12, JobSteps DEF Rebuild, timeline
  <2>2. Of(live') = Of(live) /\ \A f \in Tracked : live'[f] = live[f]
    BY <1>0, <2>1, Published
  <2>3. \A f \in Tracked : live[f] = store[commits[job.to]].tree[f]
    BY <1>0, <2>1 DEF Matched
  <2> QED BY <2>1, <2>2, <2>3 DEF Matched
<1>13. CASE Revert
  <2>1. /\ job.at = "revert" /\ job'.at = "idle" /\ live' = With(job.snap.tree) /\ index' = job.snap.index
        /\ UNCHANGED <<commits, store, stray, lapsed>>
    BY <1>13, JobSteps DEF Revert, observed
  <2>2. job.snap.tree \in Snapshots
    BY <1>0 DEF Loose, Jobs, Snaps
  <2>3. \A f \in Tracked : live'[f] = job.snap.tree[f]
    BY <1>0, <2>1, <2>2, WithTree
  <2> QED BY <2>1, <2>3 DEF Matched
<1>14. CASE SetSaved
  <2>1. /\ job.at = "params" /\ job'.at \in {"commit", "idle"}
        /\ Publish([live EXCEPT !["settings"] = Saved], Saved)
        /\ job'.at = "idle" => job.kind # "imports" /\ (job.kind = "startup" => commits # <<>>)
        /\ UNCHANGED <<commits, index, store, lapsed>>
        /\ stray' = IF job.kind = "restore" THEN stray \ Tracked ELSE stray
    BY <1>14, JobSteps DEF SetSaved, timeline
  <2>2. ~lapsed /\ job'.at = "idle" => job.kind = "restore" /\ Saved = live["settings"]
    BY <1>0, <2>1 DEF Lineage, KindsFit, Saved
  <2>3. ASSUME Saved = live["settings"] PROVE \A f \in Tracked : live'[f] = live[f]
    <3>1. [live EXCEPT !["settings"] = Saved] = live
      BY <1>0, <2>3 DEF Trees
    <3>2. Publish(live, Saved)
      BY <2>1, <3>1
    <3> QED BY <1>0, <2>3, <3>2, Published
  <2>4. job.kind = "restore" => index = job.to /\ \A f \in Tracked : live[f] = store[commits[job.to]].tree[f]
    BY <1>0, <2>1 DEF Matched
  <2> QED BY <2>1, <2>2, <2>3, <2>4 DEF Matched
<1>15. CASE SetSavedFails
  <2>1. /\ job.at = "params"
        /\ \/ job.kind = "restore" /\ job'.at = "revert" /\ job'.snap = job.snap
           \/ job'.at = "commit"
           \/ job'.at = "idle" /\ job.kind # "restore" /\ (job.kind = "startup" => commits # <<>>)
        /\ lapsed' = (lapsed \/ job.kind = "imports")
        /\ UNCHANGED <<commits, index, store, stray>>
    BY <1>15, JobSteps DEF SetSavedFails, disk, timeline
  <2>2. ~lapsed' /\ job.kind # "restore" => job.kind = "startup" /\ ~lapsed
    BY <1>0, <2>1 DEF KindsFit
  <2>3. ~lapsed' => job'.at # "idle"
    BY <2>1, <2>2 DEF Lineage
  <2> QED BY <2>1, <2>2, <2>3 DEF Matched
<1>16. CASE Startup \/ StartupFails
  <2>1. /\ job.at = "build" /\ lapsed' = lapsed
        /\ \/ job'.at = "params" /\ job'.kind = "startup"
           \/ job'.at = "commit"
           \/ job'.at = "idle" /\ commits # <<>>
    BY <1>0, <1>16, JobSteps DEF Startup, StartupFails, KindsFit
  <2>2. ~lapsed => job'.at # "idle"
    BY <2>1 DEF Lineage
  <2> QED BY <2>1, <2>2 DEF Matched
<1>17. ASSUME NEW i \in 1 .. Len(commits), Restore(i) PROVE Matched'
  <2>1. /\ job.at = "idle" /\ job'.at = "files" /\ job'.snap.tree = Of(live) /\ job'.snap.index = index
        /\ UNCHANGED <<live, commits, index, store, stray, lapsed>>
    BY <1>17, JobSteps DEF Restore, Outside, Idle, disk, timeline, observed
  <2>2. index > 0
    <3>1. commits # <<>>
      BY <1>17
    <3> QED BY <3>1 DEF Shape, Grown
  <2> QED BY <1>0, <2>1, <2>2 DEF Matched
<1>18. CASE UNCHANGED vars
  BY <1>18 DEF Matched, vars, disk, timeline, observed
<1> QED
  BY <1>1, <1>2, <1>3, <1>4, <1>5, <1>6, <1>7, <1>8, <1>9, <1>10, <1>11, <1>12, <1>13, <1>14, <1>15,
     <1>16, <1>17, <1>18
  DEF Next, Edit, Round, Step, BuildAction

-----------------------------------------------------------------------------
(* What a parameter change may replace *)

\* While a burst is open its commit is the last of the line.
TipOpen == burst /\ commits # <<>> => commits[Len(commits)] \notin sealed

\* A structural commit and a checkpoint close the burst.
LEMMA TipOpenNext ==
  ASSUME Shape, TipOpen, [Next]_vars
  PROVE  TipOpen'
<1>1. CASE Commit
  <2>1. /\ burst' = (job.kind = "params") /\ sealed' = IF job.kind = "params" THEN sealed ELSE sealed \cup {Len(store) + 1}
    BY <1>1 DEF Commit, BurstAfter
  <2>2. commits'[Len(commits')] = Len(store) + 1 /\ sealed \subseteq 1 .. Len(store) /\ Len(store) \in Nat
    BY <1>1, CommitLine, CommitStore, StoreType DEF Shape, Grown
  <2>3. CASE job.kind = "params"
    <3>1. sealed' = sealed /\ Len(store) + 1 \notin sealed
      BY <2>1, <2>2, <2>3
    <3> QED BY <2>2, <3>1 DEF TipOpen
  <2>4. CASE job.kind # "params"
    <3>1. ~burst'
      BY <2>1, <2>4
    <3> QED BY <3>1 DEF TipOpen
  <2> QED BY <2>3, <2>4
<1>2. CASE Restart
  <2>1. burst' = FALSE
    BY <1>2 DEF Restart
  <2> QED BY <2>1 DEF TipOpen
<1>3. CASE UNCHANGED <<burst, commits, sealed>>
  BY <1>3 DEF TipOpen
<1>4. CASE BurstEnds
  BY <1>4 DEF BurstEnds, TipOpen
<1>5. Commit \/ Restart \/ BurstEnds \/ UNCHANGED <<burst, commits, sealed>>
  <2>1. CASE BuildAction
    BY <2>1, BuildFacts DEF timeline
  <2>2. CASE Edit /\ ~BuildAction
    BY <2>2 DEF BuildAction, Edit, Republish, Rerender, SetImports, WriteFile, timeline, observed
  <2>3. CASE Round /\ ~BuildAction
    BY <2>3 DEF BuildAction, Round, BeginRound, SetRoundPart, SetRoundPartFails, AbortRound,
                SetImportsInRound, timeline, observed
  <2>4. CASE Step
    BY <2>4 DEF Step, CommitFails, SaveTimeline, RestoreFiles, RestoreBranch, RestoreCursor, Rebuild,
                RebuildFails, Revert, SetSaved, SetSavedFails, Startup, StartupFails, timeline, observed
  <2>5. CASE Checkpoint \/ Crash \/ \E i \in 1 .. Len(commits) : Restore(i)
    BY <2>5 DEF Checkpoint, Crash, Restore, timeline, observed
  <2> QED BY <2>1, <2>2, <2>3, <2>4, <2>5 DEF Next, vars, timeline, observed
<1> QED BY <1>1, <1>2, <1>3, <1>4, <1>5

\* So a parameter commit replaces only another parameter commit.
LEMMA SealedNext ==
  ASSUME Shape, TipOpen, [Next]_vars, NEW i \in DOMAIN commits, commits[i] \in sealed
  PROVE  \/ commits[i] \in InLine'
         \/ i > index
         \/ job.kind = "checkpoint"
         \/ job.at = "down"
<1>0. /\ i \in 1 .. Len(commits) /\ DOMAIN commits = 1 .. Len(commits)
      /\ Len(commits) \in Nat /\ index \in 0 .. Len(commits)
  <2>1. commits \in Seq(1 .. Len(store)) /\ index \in 0 .. Len(commits)
    BY DEF Shape, Grown
  <2> QED BY <2>1, LenProperties
<1>1. CASE commits' = commits
  BY <1>1 DEF InLine
<1>2. CASE Commit /\ i <= index /\ job.kind # "checkpoint"
  <2>1. /\ index' = (IF Replaces THEN index ELSE index + 1) /\ Len(commits') = index'
        /\ commits' \in Seq(1 .. Len(store'))
        /\ \A j \in 1 .. index' - 1 : commits'[j] = commits[j] /\ j \in 1 .. Len(commits) /\ j <= index
    BY <1>2, CommitLine
  <2>2. DOMAIN commits' = 1 .. index'
    BY <2>1, LenProperties
  <2>3. ~(i = index /\ Replaces)
    <3>1. SUFFICES ASSUME i = index, Replaces PROVE FALSE
      OBVIOUS
    <3>2. burst /\ index = Len(commits) /\ commits # <<>>
      BY <1>2, <3>1 DEF Replaces, AtTip
    <3> QED BY <3>1, <3>2 DEF TipOpen
  <2>4. i \in 1 .. index' - 1
    BY <1>0, <1>2, <2>1, <2>3
  <2>5. commits'[i] = commits[i] /\ i \in DOMAIN commits'
    BY <1>0, <2>1, <2>2, <2>4
  <2> QED BY <2>5 DEF InLine
<1>3. CASE Restart
  BY <1>3 DEF Restart
<1>4. Commit \/ Restart \/ commits' = commits
  BY QuietSteps DEF HistoryStep, SaveTimeline, RestoreBranch, RestoreCursor, Revert, vars, timeline
<1> QED BY <1>0, <1>1, <1>2, <1>3, <1>4

-----------------------------------------------------------------------------
(* The timeline file *)

\* The file has what memory has, up to the commit that is being saved; before
\* there is a file, memory has the branch's chain of commits.
Filed ==
  /\ saved.commits # <<>> /\ ~At({"save", "down"}) => saved.commits = commits /\ saved.index = index
  /\ saved.commits # <<>> /\ job.at = "save" =>
       \/ /\ index = saved.index + 1 /\ Len(commits) = index
          /\ \A i \in 1 .. saved.index : commits[i] = saved.commits[i]
       \/ /\ index = saved.index /\ index = Len(saved.commits) /\ index = Len(commits)
          /\ \A i \in 1 .. index - 1 : commits[i] = saved.commits[i]
  /\ saved.commits = <<>> /\ ~At({"down", "cursor"}) => commits = Chain[branch] /\ index = Len(commits)
  /\ saved.commits = <<>> /\ job.at = "cursor" =>
       /\ commits = Chain[job.snap.branch] /\ index = Len(commits) /\ branch = commits[job.to]
  /\ saved.commits = <<>> /\ At({"files", "branch"}) => branch = job.snap.branch
  /\ At({"rebuild", "revert"}) \/ SecondBuild => saved.commits # <<>>

\* Chain once more, in the names of the state.
LEMMA ChainFacts ==
  ASSUME Shape
  PROVE  /\ Chain[0] = <<>>
         /\ \A id \in 0 .. Len(store) : Chain[id] \in Seq(1 .. id) /\ Len(Chain[id]) <= id
         /\ \A id \in 1 .. Len(store) : Chain[id] = Append(Chain[store[id].parent], id)
         /\ \A id \in 0 .. Len(store) : \A i \in 1 .. Len(Chain[id]) : Chain[Chain[id][i]] = SubSeq(Chain[id], 1, i)
         /\ \A id \in 0 .. Len(store) : \A i \in 1 .. Len(Chain[id]) : Chain[id][i] \in 1 .. Len(store)
<1>1. Rooted(store) /\ IsChain(Chain, store, Len(store)) /\ Len(store) \in Nat
  BY ChainNow, StoreType
<1>2. /\ Chain[0] = <<>>
      /\ \A id \in 0 .. Len(store) : Chain[id] \in Seq(1 .. id) /\ Len(Chain[id]) <= id
      /\ \A id \in 1 .. Len(store) : Chain[id] = Append(Chain[store[id].parent], id)
  BY <1>1, ChainShape
<1>3. \A id \in 0 .. Len(store) : \A i \in 1 .. Len(Chain[id]) : Chain[Chain[id][i]] = SubSeq(Chain[id], 1, i)
  BY <1>1, ChainPrefix
<1>4. ASSUME NEW id \in 0 .. Len(store), NEW i \in 1 .. Len(Chain[id]) PROVE Chain[id][i] \in 1 .. Len(store)
  <2>1. Chain[id] \in Seq(1 .. id)
    BY <1>2
  <2>2. Chain[id][i] \in 1 .. id
    BY <2>1, ElementOfSeq
  <2> QED BY <1>1, <2>2
<1> QED BY <1>2, <1>3, <1>4

\* A commit leaves the chains as they were and makes one more.
LEMMA ChainCommit ==
  ASSUME Shape, Shape', Commit
  PROVE  /\ \A id \in 0 .. Len(store) : Chain'[id] = Chain[id]
         /\ Chain'[Len(store')] = Append(Chain[IF Replaces THEN store[branch].parent ELSE branch], Len(store'))
<1>1. Rooted(store) /\ IsChain(Chain, store, Len(store))
  BY ChainNow, StoreType
<1>2. Chain' = ChainOf(store')
  BY DEF Chain, ChainOf, IsChain
<1>3. Rooted(store')
  BY CommitStore
<1>4. IsChain(Chain', store', Len(store'))
  BY <1>2, <1>3, ChainDefined
<1>5. Len(store') = Len(store) + 1 /\ \A id \in 1 .. Len(store) : store'[id] = store[id]
  BY CommitStore
<1>6. store'[Len(store')].parent = IF Replaces THEN store[branch].parent ELSE branch
  BY CommitStore
<1> HIDE DEF Chain
<1>7. \A f, g : IsChain(f, store, Len(store)) /\ IsChain(g, store', Len(store')) =>
        /\ \A id \in 0 .. Len(store) : g[id] = f[id]
        /\ g[Len(store')] = Append(f[store'[Len(store')].parent], Len(store'))
  BY <1>1, <1>3, <1>5, ChainGrows
<1>8. /\ \A id \in 0 .. Len(store) : Chain'[id] = Chain[id]
      /\ Chain'[Len(store')] = Append(Chain[store'[Len(store')].parent], Len(store'))
  BY <1>1, <1>4, <1>7, Zenon
<1> QED BY <1>6, <1>8

\* The chains depend only on the store.
LEMMA ChainSame ==
  ASSUME UNCHANGED store
  PROVE  Chain' = Chain
BY DEF Chain

\* No step outside the history takes a restore from its files to its rebuild.
LEMMA QuietRestore ==
  ASSUME Shape, Next, ~HistoryStep, job.at \in {"files", "branch"}
  PROVE  RestoreFiles \/ ~Restoring'
<1> USE DEF At, RestoreSteps, SecondBuild, Restoring
<1>1. CASE BuildAction
  BY <1>1, BuildFacts DEF Idle
<1>2. CASE Crash
  BY <1>2, JobSteps
<1>3. CASE RestoreFiles
  BY <1>3
<1> QED
  BY <1>1, <1>2, <1>3
  DEF Next, Edit, Round, Step, BuildAction, HistoryStep, Republish, Rerender, SetImports, WriteFile, BeginRound,
      SetRoundPart, SetRoundPartFails, AbortRound, SetImportsInRound, Checkpoint, BurstEnds, Restore, Outside,
      Idle, CommitFails, Rebuild, RebuildFails, SetSaved, SetSavedFails, Startup, StartupFails

\* Before there is a file, a commit makes the timeline the branch's new chain.
LEMMA CommitChain ==
  ASSUME Shape, Shape', Filed, Commit, saved.commits = <<>>
  PROVE  commits' = Chain'[branch']
<1> DEFINE new == Len(store')
<1>1. /\ commits' = IF Replaces THEN [commits EXCEPT ![index] = Len(store) + 1] ELSE Append(Truncated, Len(store) + 1)
      /\ branch' = new /\ job.at = "commit"
  BY CommitLine DEF Commit
<1>2. commits = Chain[branch] /\ index = Len(commits)
  BY <1>1 DEF Filed, At
<1>3. Chain'[branch'] = Append(Chain[IF Replaces THEN store[branch].parent ELSE branch], new)
  BY <1>1, ChainCommit
<1>4. new = Len(store) + 1 /\ new \in 1 .. new
  BY CommitStore, StoreType
<1> HIDE DEF Chain, new
<1>5. /\ \A id \in 0 .. Len(store) : Chain[id] \in Seq(1 .. id)
      /\ \A id \in 1 .. Len(store) : Chain[id] = Append(Chain[store[id].parent], id)
  BY ChainFacts
<1>6. commits \in Seq(1 .. Len(store)) /\ branch \in 0 .. Len(store)
  BY DEF Shape, Grown
<1>7. CASE ~Replaces
  <2>1. Truncated = commits
    BY <1>2, <1>6 DEF Truncated
  <2> QED BY <1>1, <1>2, <1>3, <1>4, <1>7, <2>1
<1>8. CASE Replaces
  <2> DEFINE before == Chain[store[branch].parent]
  <2>1. branch \in 1 .. Len(store)
    BY <1>1, <1>8, Amended
  <2>2. store[branch].parent \in 0 .. Len(store) /\ before \in Seq(1 .. store[branch].parent)
    BY <1>5, <2>1, StoreType
  <2>3. commits = Append(before, branch)
    BY <1>2, <1>5, <2>1
  <2>4. Chain'[branch'] = Append(before, new)
    BY <1>3, <1>8
  <2> HIDE DEF before
  <2>5. index = Len(before) + 1 /\ Len(before) \in Nat
    BY <1>2, <2>2, <2>3
  <2>6. [Append(before, branch) EXCEPT ![Len(before) + 1] = new] = Append(before, new)
    <3> DEFINE old == Append(before, branch)
    <3>1. before \in Seq(Int) /\ branch \in Int /\ new \in Int
      BY <1>4, <1>6, <2>1, <2>2, SeqMonotonic, StoreType
    <3>2. /\ old \in Seq(Int) /\ Len(old) = Len(before) + 1
          /\ \A i \in 1 .. Len(before) : old[i] = before[i]
      BY <3>1, AppendProperties
    <3>3. /\ Append(before, new) \in Seq(Int) /\ Len(Append(before, new)) = Len(before) + 1
          /\ \A i \in 1 .. Len(before) : Append(before, new)[i] = before[i]
          /\ Append(before, new)[Len(before) + 1] = new
      BY <3>1, AppendProperties
    <3> HIDE DEF old
    <3>4. Len(before) + 1 \in 1 .. Len(old)
      BY <2>5, <3>2
    <3>5. /\ [old EXCEPT ![Len(before) + 1] = new] \in Seq(Int)
          /\ Len([old EXCEPT ![Len(before) + 1] = new]) = Len(old)
          /\ \A j \in 1 .. Len(old) :
               [old EXCEPT ![Len(before) + 1] = new][j] = IF j = Len(before) + 1 THEN new ELSE old[j]
      BY <3>1, <3>2, <3>4, ExceptSeq
    <3>6. \A j \in 1 .. Len(old) : [old EXCEPT ![Len(before) + 1] = new][j] = Append(before, new)[j]
      BY <2>5, <3>2, <3>3, <3>5
    <3>7. [old EXCEPT ![Len(before) + 1] = new] = Append(before, new)
      <4> DEFINE s == [old EXCEPT ![Len(before) + 1] = new]
                 t == Append(before, new)
      <4>1. s \in Seq(Int) /\ t \in Seq(Int) /\ Len(s) = Len(t)
        BY <3>2, <3>3, <3>5
      <4>2. \A j \in 1 .. Len(s) : s[j] = t[j]
        BY <3>5, <3>6
      <4> HIDE DEF s, t
      <4>3. s = t
        BY ONLY <4>1, <4>2, SeqEqual
      <4> QED BY <4>3 DEF s, t
    <3> QED BY <3>7 DEF old
  <2> QED BY <1>1, <1>4, <1>8, <2>3, <2>4, <2>5, <2>6
<1> QED BY <1>7, <1>8

\* No step parts the file, or the branch before there is a file, from memory but
\* while it is being saved.
LEMMA FiledNext ==
  ASSUME Shape, Shape', Filed, [Next]_vars
  PROVE  Filed'
<1> USE DEF At, RestoreSteps, SecondBuild, Restoring
<1>0. /\ index \in 0 .. Len(commits) /\ (commits # <<>> => index > 0) /\ Len(commits) \in Nat
      /\ saved.index \in 0 .. Len(saved.commits) /\ (saved.commits # <<>> => saved.index > 0)
      /\ Len(saved.commits) \in Nat
  BY StoreType DEF Shape, Grown
<1>1. CASE UNCHANGED vars
  <2>1. Chain' = Chain /\ UNCHANGED <<commits, index, saved, branch, job>>
    BY <1>1, ChainSame DEF vars, timeline
  <2> HIDE DEF Chain
  <2> QED BY <2>1 DEF Filed
<1>2. CASE Next /\ ~HistoryStep
  <2>1. UNCHANGED <<commits, index, saved, branch, store>> /\ Chain' = Chain
    BY <1>2, QuietSteps, ChainSame
  <2>2. /\ job.at # "down" /\ job'.at \notin {"save", "cursor"}
        /\ job.at \in {"save", "cursor"} => job'.at = "down"
        /\ Restoring' =>
             \/ Restoring /\ job'.snap = job.snap
             \/ job.at = "idle" /\ job'.at = "files" /\ job'.snap.branch = branch
    BY <1>2, QuietJob
  <2>3. job'.at \in {"rebuild", "revert"} \/ SecondBuild' => saved.commits # <<>>
    <3>1. CASE job'.at = "files"
      BY <3>1
    <3>2. CASE RestoreFiles
      <4>1. job'.at = "branch"
        BY <3>2, JobSteps
      <4> QED BY <4>1
    <3>3. CASE job.at \in {"rebuild", "revert"} \/ SecondBuild
      BY <3>3 DEF Filed
    <3>4. job'.at = "files" \/ RestoreFiles \/ (Restoring' => job.at \in {"rebuild", "revert"} \/ SecondBuild)
      <4>1. CASE job.at \in {"files", "branch"}
        BY <1>2, <2>2, <4>1, QuietRestore
      <4> QED BY <2>2, <4>1
    <3> QED BY <3>1, <3>2, <3>3, <3>4
  <2> HIDE DEF Chain
  <2> QED BY <2>1, <2>2, <2>3 DEF Filed
<1>3. CASE Commit
  <2>1. job.at = "commit" /\ job'.at = "save" /\ saved' = saved
    BY <1>3, JobSteps DEF Commit
  <2>2. /\ index' = (IF Replaces THEN index ELSE index + 1) /\ Len(commits') = index'
        /\ commits'[index'] = Len(store') /\ branch' = Len(store')
        /\ \A i \in 1 .. index' - 1 : commits'[i] = commits[i]
    BY <1>3, CommitLine
  <2>3. Replaces => index = Len(commits)
    BY <1>3, <2>1, Amended
  <2>4. CASE saved.commits # <<>>
    <3>1. saved.commits = commits /\ saved.index = index
      BY <2>1, <2>4 DEF Filed
    <3> QED BY <1>0, <2>1, <2>2, <2>3, <2>4, <3>1 DEF Filed
  <2>5. CASE saved.commits = <<>>
    <3>1. commits' = Chain'[branch']
      BY <1>3, <2>5, CommitChain
    <3> HIDE DEF Chain
    <3> QED BY <2>1, <2>2, <2>5, <3>1 DEF Filed
  <2> QED BY <2>4, <2>5
<1>4. CASE SaveTimeline
  <2>1. /\ job.at = "save" /\ job'.at \in {"idle", "commit"} /\ saved' = [commits |-> commits, index |-> index]
        /\ UNCHANGED <<commits, index, branch, store>> /\ Chain' = Chain
    BY <1>4, JobSteps, ChainSame DEF SaveTimeline
  <2>2. saved.commits = <<>> => commits = Chain[branch] /\ index = Len(commits)
    BY <2>1 DEF Filed
  <2>3. commits = <<>> => saved.commits = <<>>
    <3>1. SUFFICES ASSUME commits = <<>>, saved.commits # <<>> PROVE FALSE
      OBVIOUS
    <3>2. index = 0
      BY <1>0, <3>1
    <3> QED BY <1>0, <2>1, <3>1, <3>2 DEF Filed
  <2> HIDE DEF Chain
  <2> QED BY <2>1, <2>2, <2>3 DEF Filed
<1>5. CASE RestoreBranch
  <2>1. /\ job.at = "branch" /\ job'.at = "cursor" /\ job'.to = job.to /\ job'.snap = job.snap
        /\ branch' = commits[job.to] /\ UNCHANGED <<commits, index, saved, store>> /\ Chain' = Chain
    BY <1>5, JobSteps, ChainSame DEF RestoreBranch
  <2> HIDE DEF Chain
  <2> QED BY <2>1 DEF Filed
<1>6. CASE RestoreCursor
  <2>1. /\ job.at = "cursor" /\ job'.at = "rebuild"
        /\ index' = job.to /\ saved' = [commits |-> commits, index |-> job.to] /\ commits' = commits
    BY <1>6, JobSteps DEF RestoreCursor
  <2>2. commits # <<>>
    BY <1>0, <2>1 DEF Shape, Targets
  <2> QED BY <2>1, <2>2 DEF Filed
<1>7. CASE Revert
  <2>1. /\ job.at = "revert" /\ job'.at = "idle" /\ index' = job.snap.index
        /\ saved' = [commits |-> commits, index |-> job.snap.index] /\ commits' = commits
    BY <1>7, JobSteps DEF Revert
  <2>2. commits # <<>>
    BY <1>0, <2>1 DEF Shape, Targets
  <2> QED BY <2>1, <2>2 DEF Filed
<1>8. CASE Restart
  <2>1. /\ job.at = "down" /\ job'.at = "build" /\ job'.kind = "startup"
        /\ commits' = Persisted.commits /\ index' = Persisted.index
        /\ UNCHANGED <<saved, branch, store>> /\ Chain' = Chain
    BY <1>8, JobSteps, ChainSame DEF Restart, LoadTimeline
  <2> HIDE DEF Chain
  <2>2. saved.commits # <<>> => Persisted = saved
    BY DEF Persisted
  <2>3. saved.commits = <<>> => Persisted = [commits |-> Chain[branch], index |-> Len(Chain[branch])]
    BY DEF Persisted
  <2>4. saved.commits = <<>> => commits' = Chain'[branch'] /\ index' = Len(commits')
    BY <2>1, <2>3
  <2> QED BY <2>1, <2>2, <2>4 DEF Filed
<1> QED BY <1>1, <1>2, <1>3, <1>4, <1>5, <1>6, <1>7, <1>8 DEF HistoryStep

-----------------------------------------------------------------------------
(* The inductive invariant, and what follows from it *)

\* History, files, builds and memory in every state, in the middle of a call too.
InStep == Shape /\ Vouched /\ Remembered /\ Lineage /\ Matched /\ TipOpen /\ Filed

\* The invariant holds of a new workspace.
LEMMA InitInStep == Init => InStep
<1> SUFFICES ASSUME Init PROVE InStep
  OBVIOUS
<1>1. Shape
  BY InitShape
<1>2. /\ job.at = "down" /\ job.kind = "none" /\ commits = <<>> /\ index = 0 /\ saved.commits = <<>>
      /\ branch = 0 /\ vouched = {} /\ stray = Files /\ ~burst /\ ~round.active /\ store = <<>>
  BY NoRoundType, RestType DEF Init, Steps
<1>3. Tracked \subseteq Files /\ "skeleton" \in Tracked
  BY DEF Files, Tracked, Sources
<1>4. Vouched /\ Remembered
  BY <1>2, <1>3 DEF Vouched, Clean, Remembered, At, Restoring, RestoreSteps, SecondBuild
<1>5. Lineage
  <2>1. Len(commits) = 0
    BY <1>2
  <2> QED BY <1>2, <2>1 DEF Lineage, At, Restoring, RestoreSteps, SecondBuild
<1>6. Matched /\ TipOpen
  BY <1>2 DEF Matched, TipOpen, At, Restoring, RestoreSteps, SecondBuild
<1>7. Filed
  BY <1>2 DEF Filed, At, SecondBuild
<1> QED BY <1>1, <1>4, <1>5, <1>6, <1>7 DEF InStep

\* It is inductive.
LEMMA InStepNext ==
  ASSUME InStep, [Next]_vars
  PROVE  InStep'
<1>1. Shape /\ Vouched /\ Remembered /\ Lineage /\ Matched /\ TipOpen /\ Filed
  BY DEF InStep
<1>2. Shape'
  BY <1>1, ShapeNext
<1>3. Vouched' /\ Remembered'
  BY <1>1, <1>2, VouchedNext, RememberedNext
<1>4. Lineage' /\ Filed'
  BY <1>1, <1>2, LineageNext, FiledNext
<1>5. Matched' /\ TipOpen'
  BY <1>1, MatchedNext, TipOpenNext
<1> QED BY <1>2, <1>3, <1>4, <1>5 DEF InStep

\* It holds in every reachable state.
LEMMA AlwaysInStep == Spec => []InStep
<1>1. InStep /\ [Next]_vars => InStep'
  BY InStepNext
<1> QED BY InitInStep, <1>1, PTL DEF Spec

\* What the timeline offers was built, the branch, the cursor and the file name
\* one commit, and its files are those of the workspace.
THEOREM HistoryStaysInStep == Spec => []HistoryInStep
<1>1. ASSUME InStep PROVE HistoryInStep
  <2>1. Shape /\ Vouched /\ Lineage /\ Matched
    BY <1>1 DEF InStep
  <2>2. EntriesWereBuilt
    BY <2>1 DEF EntriesWereBuilt, TreeAt, Vouched
  <2>3. CursorNamesBranch
    BY <2>1 DEF CursorNamesBranch, Lineage, Idle
  <2>4. DiskAtCursor
    BY <2>1 DEF DiskAtCursor, Matched, Idle
  <2> QED BY <2>2, <2>3, <2>4 DEF HistoryInStep
<1>2. InStep => HistoryInStep
  BY <1>1
<1> QED BY <1>2, AlwaysInStep, PTL

\* The parameters and the script in memory are those on disk, and the selected
\* geometry was built with the settings it is stored with.
THEOREM SessionStaysInStep == Spec => []SessionInStep
<1>1. ASSUME InStep PROVE SessionInStep
  <2>1. Shape /\ Remembered
    BY <1>1 DEF InStep
  <2>2. Idle /\ ~torn => Synced(live)
    BY <2>1 DEF Idle, Remembered, At
  <2>3. MemoryMatchesDisk /\ BuiltWithItsSettings
    BY <2>2 DEF MemoryMatchesDisk, BuiltWithItsSettings, Synced
  <2> QED BY <2>1, <2>3 DEF SessionInStep, Shape
<1>2. InStep => SessionInStep
  BY <1>1
<1> QED BY <1>2, AlwaysInStep, PTL

\* A parameter change never takes a structural edit or a checkpoint out of the
\* timeline.
THEOREM SealedStaysInLine == Spec => SealedKept
<1> DEFINE A == \A i \in DOMAIN commits :
                  commits[i] \in sealed =>
                    \/ commits[i] \in InLine'
                    \/ i > index
                    \/ job.kind = "checkpoint"
                    \/ job.at = "down"
<1>1. ASSUME InStep, [Next]_vars PROVE A
  <2>1. Shape /\ TipOpen
    BY <1>1 DEF InStep
  <2> QED BY <1>1, <2>1, SealedNext
<1>2. InStep /\ [Next]_vars => [A]_vars
  BY <1>1
<1>3. Spec => [][A]_vars
  BY <1>2, AlwaysInStep, PTL DEF Spec
<1> QED BY <1>3 DEF SealedKept

-----------------------------------------------------------------------------
(* The timeline of the user *)

Stack == [i \in DOMAIN Persisted.commits |-> store[Persisted.commits[i]].tree]
Cursor == Persisted.index
Written == saved.commits # <<>>

\* The stack that the file, or the branch, stands for, one snapshot for each
\* commit of the line.
StackFits ==
  /\ Persisted.commits \in Seq(1 .. Len(store)) /\ Len(Persisted.commits) \in Nat
  /\ Cursor \in 0 .. Len(Persisted.commits) /\ (Persisted.commits # <<>> => Cursor > 0)
  /\ Stack \in Seq(Snapshots)
  /\ Len(Stack) = Len(Persisted.commits) /\ DOMAIN Stack = 1 .. Len(Persisted.commits)
  /\ \A i \in 1 .. Len(Persisted.commits) :
       /\ Persisted.commits[i] \in 1 .. Len(store)
       /\ Stack[i] = store[Persisted.commits[i]].tree
       /\ Stack[i] \in Snapshots

\* It has these in every state of this shape.
LEMMA StackIs == Shape => StackFits
<1> SUFFICES ASSUME Shape PROVE StackFits
  OBVIOUS
<1>1. /\ Persisted.commits \in Seq(1 .. Len(store))
      /\ Cursor \in 0 .. Len(Persisted.commits) /\ (Persisted.commits # <<>> => Cursor > 0)
  BY PersistedLine DEF Cursor
<1> HIDE DEF Persisted
<1>2. Len(Persisted.commits) \in Nat /\ DOMAIN Persisted.commits = 1 .. Len(Persisted.commits)
  BY <1>1, LenProperties
<1>3. DOMAIN Stack = 1 .. Len(Persisted.commits)
      /\ \A i \in 1 .. Len(Persisted.commits) : Stack[i] = store[Persisted.commits[i]].tree
  BY <1>2 DEF Stack
<1>4. \A i \in 1 .. Len(Persisted.commits) : Persisted.commits[i] \in 1 .. Len(store)
  BY <1>1, ElementOfSeq
<1>5. \A i \in 1 .. Len(Persisted.commits) : Stack[i] \in Snapshots
  BY <1>3, <1>4, StoreType
<1>6. Stack \in Seq(Snapshots)
  <2>1. Stack \in [1 .. Len(Persisted.commits) -> Snapshots]
    BY <1>2, <1>5 DEF Stack
  <2> QED BY <1>2, <2>1, SeqDef
<1>7. Len(Stack) = Len(Persisted.commits)
  BY <1>2, <1>3, <1>6, LenProperties
<1> QED BY <1>1, <1>2, <1>3, <1>4, <1>5, <1>6, <1>7 DEF StackFits

\* Two stacks of the same trees are the same stack.
LEMMA SameStack ==
  ASSUME Shape, Shape', Len(Persisted.commits') = Len(Persisted.commits),
         \A i \in 1 .. Len(Persisted.commits) : Stack'[i] = Stack[i]
  PROVE  Stack' = Stack
<1>1. DOMAIN Stack = 1 .. Len(Persisted.commits)
  BY StackIs DEF StackFits
<1>2. (Shape => StackFits)'
  BY StackIs, PTL
<1>3. DOMAIN Stack' = DOMAIN Stack
  <2>1. StackFits'
    BY <1>2
  <2> QED BY <1>1, <2>1 DEF StackFits
<1> HIDE DEF Persisted
<1> QED BY <1>1, <1>3 DEF Stack

\* What a step of the program does to the timeline's file, and before there is
\* one to the branch, is a step of the abstract timeline.
LEMMA TimelineStep ==
  ASSUME InStep, InStep', [Next]_vars
  PROVE  \/ UNCHANGED <<Stack, Cursor, Written>>
         \/ /\ Cursor' = Cursor + 1 /\ Len(Stack') = Cursor' /\ Written' = Written
            /\ \A i \in 1 .. Cursor : Stack'[i] = Stack[i]
            /\ Stack'[Cursor'] \in Snapshots
         \/ /\ Cursor > 0 /\ Cursor = Len(Stack) /\ Len(Stack') = Cursor
            /\ UNCHANGED <<Cursor, Written>>
            /\ \A i \in 1 .. Cursor - 1 : Stack'[i] = Stack[i]
            /\ Stack'[Cursor] \in Snapshots
         \/ Cursor' \in 1 .. Len(Stack) /\ UNCHANGED <<Stack, Written>>
         \/ /\ ~Written /\ Written' = Written
            /\ Cursor' \in 1 .. Len(Stack) /\ Stack' = SubSeq(Stack, 1, Cursor')
         \/ /\ ~Written /\ Written' /\ Cursor' = Cursor /\ Len(Stack') >= Len(Stack)
            /\ \A i \in 1 .. Len(Stack) : Stack'[i] = Stack[i]
            /\ \A i \in 1 .. Len(Stack') : Stack'[i] \in Snapshots
<1> DEFINE Goal ==
         \/ UNCHANGED <<Stack, Cursor, Written>>
         \/ /\ Cursor' = Cursor + 1 /\ Len(Stack') = Cursor' /\ Written' = Written
            /\ \A i \in 1 .. Cursor : Stack'[i] = Stack[i]
            /\ Stack'[Cursor'] \in Snapshots
         \/ /\ Cursor > 0 /\ Cursor = Len(Stack) /\ Len(Stack') = Cursor
            /\ UNCHANGED <<Cursor, Written>>
            /\ \A i \in 1 .. Cursor - 1 : Stack'[i] = Stack[i]
            /\ Stack'[Cursor] \in Snapshots
         \/ Cursor' \in 1 .. Len(Stack) /\ UNCHANGED <<Stack, Written>>
         \/ /\ ~Written /\ Written' = Written
            /\ Cursor' \in 1 .. Len(Stack) /\ Stack' = SubSeq(Stack, 1, Cursor')
         \/ /\ ~Written /\ Written' /\ Cursor' = Cursor /\ Len(Stack') >= Len(Stack)
            /\ \A i \in 1 .. Len(Stack) : Stack'[i] = Stack[i]
            /\ \A i \in 1 .. Len(Stack') : Stack'[i] \in Snapshots
<1> SUFFICES Goal
  OBVIOUS
<1>0. Shape /\ Shape' /\ Filed /\ Filed'
  BY DEF InStep
<1>a. /\ Persisted.commits \in Seq(1 .. Len(store)) /\ Len(Persisted.commits) \in Nat
      /\ Cursor \in 0 .. Len(Persisted.commits) /\ (Persisted.commits # <<>> => Cursor > 0)
      /\ Stack \in Seq(Snapshots)
      /\ Len(Stack) = Len(Persisted.commits) /\ DOMAIN Stack = 1 .. Len(Persisted.commits)
      /\ \A i \in 1 .. Len(Persisted.commits) :
           /\ Persisted.commits[i] \in 1 .. Len(store)
           /\ Stack[i] = store[Persisted.commits[i]].tree
           /\ Stack[i] \in Snapshots
  BY <1>0, StackIs DEF StackFits
<1>b. /\ Len(Persisted'.commits) \in Nat /\ Stack' \in Seq(Snapshots)
      /\ Cursor' \in 0 .. Len(Persisted'.commits)
      /\ Len(Stack') = Len(Persisted'.commits) /\ DOMAIN Stack' = 1 .. Len(Persisted'.commits)
      /\ \A i \in 1 .. Len(Persisted'.commits) :
           /\ Stack'[i] = store'[Persisted'.commits[i]].tree
           /\ Stack'[i] \in Snapshots
  <2>1. (Shape => StackFits)'
    BY StackIs, PTL
  <2>2. StackFits'
    BY <1>0, <2>1
  <2> QED BY <2>2 DEF StackFits
<1>c. /\ Persisted.index = Cursor
      /\ saved.commits # <<>> => Persisted = saved
      /\ saved.commits = <<>> => Persisted.commits = Chain[branch] /\ Persisted.index = Len(Chain[branch])
  BY DEF Persisted, Cursor
<1>s. \/ UNCHANGED <<saved, branch, store>>
      \/ Commit \/ SaveTimeline \/ RestoreBranch \/ RestoreCursor \/ Revert
  BY QuietSteps DEF HistoryStep, Restart, vars, timeline
<1>t. \A id \in 1 .. Len(store) : store'[id] = store[id]
  <2>1. CASE Commit
    BY <1>0, <2>1, CommitStore
  <2>2. CASE UNCHANGED store
    BY <2>2
  <2> QED BY <1>s, <2>1, <2>2 DEF SaveTimeline, RestoreBranch, RestoreCursor, Revert
<1>d. ASSUME NEW i, i \in 1 .. Len(Persisted.commits), i \in 1 .. Len(Persisted'.commits),
             Persisted'.commits[i] = Persisted.commits[i]
      PROVE  Stack'[i] = Stack[i]
  <2> HIDE DEF Persisted
  <2>1. Persisted.commits[i] \in 1 .. Len(store) /\ Stack[i] = store[Persisted.commits[i]].tree
    BY <1>a, <1>d
  <2>2. Stack'[i] = store'[Persisted'.commits[i]].tree
    BY <1>b, <1>d
  <2> QED BY <1>d, <1>t, <2>1, <2>2
<1>e. /\ Len(Persisted.commits) \in Nat /\ Cursor \in 0 .. Len(Persisted.commits)
      /\ Len(Stack) = Len(Persisted.commits) /\ (Persisted.commits # <<>> => Cursor > 0)
      /\ Len(Persisted'.commits) \in Nat /\ Cursor' \in 0 .. Len(Persisted'.commits)
      /\ Len(Stack') = Len(Persisted'.commits)
  BY <1>a, <1>b
<1>f. ASSUME Persisted'.commits = Persisted.commits PROVE Stack' = Stack
  <2> HIDE DEF Persisted
  <2>1. \A i \in 1 .. Len(Persisted.commits) : Stack'[i] = Stack[i]
    BY <1>d, <1>f
  <2> QED BY <1>0, <1>f, <2>1, SameStack
<1>1. CASE UNCHANGED <<saved, branch, store>>
  <2>1. Chain' = Chain
    BY <1>1, ChainSame
  <2>2. Persisted' = Persisted
    <3> HIDE DEF Chain
    <3> QED BY <1>1, <2>1 DEF Persisted
  <2> HIDE DEF Persisted
  <2> QED BY <1>1, <2>2 DEF Stack, Cursor, Written
<1>2. CASE Commit /\ saved.commits # <<>>
  <2>1. saved' = saved /\ \A id \in 1 .. Len(store) : store'[id] = store[id]
    BY <1>2, CommitStore DEF Commit
  <2>2. Persisted = saved /\ Persisted' = saved
    BY <1>2, <2>1 DEF Persisted
  <2> HIDE DEF Persisted
  <2>3. Stack' = Stack
    BY <1>f, <2>2
  <2> QED BY <1>c, <2>1, <2>2, <2>3 DEF Cursor, Written
<1>3. CASE Commit /\ saved.commits = <<>>
  <2>1. /\ job.at = "commit" /\ job'.at = "save" /\ saved' = saved
        /\ \A id \in 1 .. Len(store) : store'[id] = store[id]
    BY <1>0, <1>3, CommitStore, JobSteps DEF Commit
  <2>2. commits = Persisted.commits /\ index = Len(commits) /\ Cursor = index
    BY <1>0, <1>3, <1>c, <2>1 DEF Filed, At
  <2>3. commits' = Chain'[branch'] /\ index' = Len(commits')
    <3>1. commits' = Chain'[branch']
      BY <1>0, <1>3, CommitChain
    <3> QED BY <1>0, <1>3, <3>1, CommitLine
  <2>4. Persisted'.commits = commits' /\ Cursor' = index' /\ Persisted'.index = index'
    <3> HIDE DEF Chain
    <3>1. Persisted' = [commits |-> Chain'[branch'], index |-> Len(Chain'[branch'])]
      BY <1>3, <2>1 DEF Persisted
    <3> QED BY <2>3, <3>1 DEF Cursor
  <2> HIDE DEF Persisted
  <2>5. /\ index' = (IF Replaces THEN index ELSE index + 1) /\ index' \in Nat /\ index' > 0
        /\ \A i \in 1 .. index' - 1 : commits'[i] = commits[i] /\ i \in 1 .. Len(commits) /\ i <= index
    BY <1>0, <1>3, CommitLine
  <2>6. \A i \in 1 .. index' - 1 : Stack'[i] = Stack[i]
    BY <1>d, <1>e, <2>2, <2>3, <2>4, <2>5
  <2>7. Stack'[Cursor'] \in Snapshots
    BY <1>b, <2>3, <2>4, <2>5
  <2>8. Written' = Written
    BY <2>1 DEF Written
  <2>9. Replaces => index = Len(commits) /\ index > 0
    BY <1>0, <2>1, Amended
  <2>10. CASE Replaces
    BY <1>e, <2>2, <2>3, <2>4, <2>5, <2>6, <2>7, <2>8, <2>9, <2>10
  <2>11. CASE ~Replaces
    <3>1. index' - 1 = index /\ Cursor' = Cursor + 1 /\ index \in Nat
      BY <1>a, <2>2, <2>4, <2>5, <2>11
    <3> QED BY <1>e, <2>2, <2>3, <2>4, <2>6, <2>7, <2>8, <3>1
  <2> QED BY <2>10, <2>11
<1>4. CASE SaveTimeline
  <2>1. job.at = "save" /\ saved' = [commits |-> commits, index |-> index] /\ UNCHANGED <<commits, index, branch, store>>
    BY <1>4 DEF SaveTimeline
  <2>2. commits # <<>> => Persisted' = [commits |-> commits, index |-> index]
    BY <2>1 DEF Persisted
  <2>3. CASE saved.commits = <<>>
    <3>1. commits = Persisted.commits /\ index = Len(commits) /\ Cursor = index
      BY <1>0, <1>c, <2>1, <2>3 DEF Filed, At
    <3>2. CASE commits = <<>>
      <4>1. Chain' = Chain
        BY <2>1, ChainSame
      <4>2. Persisted' = Persisted
        <5> HIDE DEF Chain
        <5> QED BY <2>1, <2>3, <3>2, <4>1 DEF Persisted
      <4> HIDE DEF Persisted
      <4> QED BY <2>1, <2>3, <3>2, <4>2 DEF Stack, Cursor, Written
    <3>3. CASE commits # <<>>
      <4> HIDE DEF Persisted
      <4>1. Persisted'.commits = commits /\ Cursor' = index
        BY <2>2, <3>3 DEF Cursor
      <4>2. ~Written /\ Written'
        BY <2>1, <2>3, <3>3 DEF Written
      <4>3. Persisted'.commits = Persisted.commits
        BY <3>1, <4>1
      <4>4. Stack' = Stack
        BY <1>f, <4>3
      <4>5. \A i \in 1 .. Len(Stack') : Stack'[i] \in Snapshots
        BY <1>b, <1>e
      <4>6. Cursor' = Cursor /\ Len(Stack') >= Len(Stack) /\ \A i \in 1 .. Len(Stack) : Stack'[i] = Stack[i]
        BY <1>e, <3>1, <4>1, <4>4
      <4> QED BY <4>2, <4>5, <4>6
    <3> QED BY <3>2, <3>3
  <2>4. CASE saved.commits # <<>>
    <3>1. /\ saved = Persisted /\ saved.index = Cursor /\ Cursor > 0
      BY <1>a, <1>c, <2>4
    <3>2. \/ /\ index = Cursor + 1 /\ Len(commits) = index
             /\ \A i \in 1 .. Cursor : commits[i] = Persisted.commits[i]
          \/ /\ index = Cursor /\ index = Len(Persisted.commits) /\ index = Len(commits)
             /\ \A i \in 1 .. index - 1 : commits[i] = Persisted.commits[i]
      BY <1>0, <2>1, <2>4, <3>1, Zenon DEF Filed, At
    <3> HIDE DEF Persisted
    <3>3. commits # <<>>
      BY <1>a, <3>1, <3>2
    <3>4. Persisted'.commits = commits /\ Cursor' = index /\ Written' = Written
      BY <2>1, <2>2, <2>4, <3>3 DEF Cursor, Written
    <3>5. CASE index = Cursor + 1 /\ Len(commits) = index /\ \A i \in 1 .. Cursor : commits[i] = Persisted.commits[i]
      <4>1. \A i \in 1 .. Cursor : Stack'[i] = Stack[i]
        BY <1>d, <1>e, <3>4, <3>5
      <4>2. Stack'[Cursor'] \in Snapshots
        BY <1>b, <1>e, <3>4, <3>5
      <4> QED BY <1>e, <3>4, <3>5, <4>1, <4>2
    <3>6. CASE /\ index = Cursor /\ index = Len(Persisted.commits) /\ index = Len(commits)
               /\ \A i \in 1 .. index - 1 : commits[i] = Persisted.commits[i]
      <4>1. \A i \in 1 .. Cursor - 1 : Stack'[i] = Stack[i]
        BY <1>d, <1>e, <3>4, <3>6
      <4>2. Stack'[Cursor] \in Snapshots
        BY <1>b, <1>e, <3>1, <3>4, <3>6
      <4> QED BY <1>e, <3>1, <3>4, <3>6, <4>1, <4>2
    <3> QED BY <3>2, <3>5, <3>6
  <2> QED BY <2>3, <2>4
<1>5. CASE RestoreBranch
  <2>1. /\ job.at = "branch" /\ branch' = commits[job.to] /\ UNCHANGED <<commits, index, saved, store>>
        /\ job.to \in 1 .. Len(commits) /\ Chain' = Chain
    BY <1>0, <1>5, ChainSame DEF RestoreBranch, Shape, Targets, At, Restoring, RestoreSteps
  <2> HIDE DEF Chain
  <2>2. CASE saved.commits # <<>>
    <3>1. Persisted' = Persisted
      BY <2>1, <2>2 DEF Persisted
    <3> HIDE DEF Persisted
    <3> QED BY <2>1, <3>1 DEF Stack, Cursor, Written
  <2>3. CASE saved.commits = <<>>
    <3>1. commits = Chain[branch] /\ index = Len(commits) /\ commits = Persisted.commits /\ Cursor = index
      BY <1>0, <1>c, <2>1, <2>3 DEF Filed, At
    <3>2. branch \in 0 .. Len(store)
      BY <1>0 DEF Shape, Grown
    <3>3. Chain[branch'] = SubSeq(commits, 1, job.to)
      BY <1>0, <2>1, <3>1, <3>2, ChainFacts
    <3>4. Persisted' = [commits |-> Chain[branch'], index |-> Len(Chain[branch'])]
      BY <2>1, <2>3 DEF Persisted
    <3> HIDE DEF Persisted
    <3>5. /\ Len(SubSeq(commits, 1, job.to)) = job.to
          /\ \A i \in 1 .. job.to : SubSeq(commits, 1, job.to)[i] = commits[i]
      BY <1>a, <2>1, <3>1
    <3>6. Persisted'.commits = SubSeq(commits, 1, job.to) /\ Cursor' = job.to
      BY <3>3, <3>4, <3>5 DEF Cursor
    <3>7. \A i \in 1 .. job.to : Stack'[i] = Stack[i]
      <4>1. Len(Persisted.commits) = Len(commits) /\ Len(Persisted'.commits) = job.to /\ Len(commits) \in Nat
        BY <1>e, <3>1, <3>5, <3>6
      <4>2. ASSUME NEW i \in 1 .. job.to PROVE Stack'[i] = Stack[i]
        <5>1. i \in 1 .. Len(Persisted.commits) /\ i \in 1 .. Len(Persisted'.commits)
          BY <2>1, <4>1
        <5>2. Persisted'.commits[i] = Persisted.commits[i]
          BY <3>1, <3>5, <3>6
        <5> QED BY <1>d, <5>1, <5>2
      <4> QED BY <4>2
    <3>8. Stack' = SubSeq(Stack, 1, job.to)
      <4>1. Stack' \in Seq(Snapshots) /\ Stack \in Seq(Snapshots)
        BY <1>a, <1>b
      <4> QED BY <1>a, <1>b, <2>1, <3>1, <3>5, <3>6, <3>7, <4>1
    <3> QED BY <1>a, <2>1, <2>3, <3>1, <3>6, <3>8 DEF Written
  <2> QED BY <2>2, <2>3
<1>6. CASE RestoreCursor
  <2>1. /\ job.at = "cursor" /\ saved' = [commits |-> commits, index |-> job.to]
        /\ UNCHANGED <<commits, branch, store>> /\ job.to \in 1 .. Len(commits)
    BY <1>0, <1>6 DEF RestoreCursor, Shape, Targets, At, Restoring, RestoreSteps
  <2>2. commits # <<>>
    BY <2>1
  <2>3. Persisted' = [commits |-> commits, index |-> job.to]
    BY <2>1, <2>2 DEF Persisted
  <2>4. Persisted'.commits = commits /\ Cursor' = job.to /\ Written'
    BY <2>1, <2>2, <2>3 DEF Cursor, Written
  <2>5. CASE saved.commits # <<>>
    <3>1. commits = Persisted.commits /\ Written
      BY <1>0, <1>c, <2>1, <2>5 DEF Filed, At, Written
    <3> HIDE DEF Persisted
    <3>2. Stack' = Stack
      BY <1>f, <2>4, <3>1
    <3> QED BY <1>a, <2>1, <2>4, <3>1, <3>2
  <2>6. CASE saved.commits = <<>>
    <3>1. commits = Chain[job.snap.branch] /\ branch = commits[job.to]
      BY <1>0, <2>1, <2>6 DEF Filed, At
    <3>2. job.snap.branch \in 0 .. Len(store)
      BY <1>0, <2>1 DEF Shape, Targets, At, Restoring, RestoreSteps
    <3>3. Chain[branch] = SubSeq(commits, 1, job.to)
      BY <1>0, <2>1, <3>1, <3>2, ChainFacts
    <3>4. Persisted.commits = SubSeq(commits, 1, job.to) /\ Cursor = Len(SubSeq(commits, 1, job.to)) /\ ~Written
      BY <1>c, <2>6, <3>3 DEF Written
    <3> HIDE DEF Persisted
    <3>5. /\ Len(SubSeq(commits, 1, job.to)) = job.to
          /\ \A i \in 1 .. job.to : SubSeq(commits, 1, job.to)[i] = commits[i]
      <4>1. commits \in Seq(1 .. Len(store)) /\ Len(commits) \in Nat
        BY <1>0, StoreType DEF Shape, Grown
      <4> QED BY <2>1, <4>1
    <3>6. \A i \in 1 .. Len(Stack) : Stack'[i] = Stack[i]
      <4>1. Len(Stack) = job.to /\ Len(Persisted.commits) = job.to /\ Persisted'.commits = commits
            /\ Len(commits) \in Nat
        BY <1>e, <2>4, <3>4, <3>5
      <4>2. ASSUME NEW i \in 1 .. job.to PROVE Stack'[i] = Stack[i]
        <5>1. i \in 1 .. Len(Persisted.commits) /\ i \in 1 .. Len(Persisted'.commits)
          BY <2>1, <4>1
        <5>2. Persisted'.commits[i] = Persisted.commits[i]
          BY <3>4, <3>5, <4>1
        <5> QED BY <1>d, <5>1, <5>2
      <4> QED BY <4>1, <4>2
    <3>7. \A i \in 1 .. Len(Stack') : Stack'[i] \in Snapshots
      BY <1>b, <1>e
    <3>8. Cursor' = Cursor /\ Len(Stack') >= Len(Stack)
      BY <1>e, <2>1, <2>4, <3>4, <3>5
    <3> QED BY <2>4, <3>4, <3>6, <3>7, <3>8
  <2> QED BY <2>5, <2>6
<1>7. CASE Revert
  <2>1. /\ job.at = "revert" /\ saved' = [commits |-> commits, index |-> job.snap.index]
        /\ UNCHANGED <<commits, store>> /\ job.snap.index \in 1 .. Len(commits)
    BY <1>0, <1>7 DEF Revert, Shape, Targets, At, Restoring, RestoreSteps
  <2>2. commits # <<>> /\ saved.commits # <<>> /\ saved.commits = commits
    BY <1>0, <2>1 DEF Filed, At
  <2>3. Persisted' = [commits |-> commits, index |-> job.snap.index]
    BY <2>1, <2>2 DEF Persisted
  <2>4. Persisted'.commits = commits /\ Cursor' = job.snap.index /\ Written' /\ Written
        /\ Persisted.commits = commits
    BY <1>c, <2>1, <2>2, <2>3 DEF Cursor, Written
  <2> HIDE DEF Persisted
  <2>5. Stack' = Stack
    BY <1>f, <2>4
  <2> QED BY <1>a, <2>1, <2>4, <2>5
<1> QED BY <1>s, <1>1, <1>2, <1>3, <1>4, <1>5, <1>6, <1>7

\* The timeline file, and before there is one the branch, changes only as the
\* abstract timeline does, also when the worker dies between two steps of a call.
THEOREM TimelineIsImplemented == Spec => TimelineImplemented
<1>1. Init => T!TInit
  <2> SUFFICES ASSUME Init PROVE T!TInit
    OBVIOUS
  <2>1. saved.commits = <<>> /\ branch = 0 /\ Shape
    BY InitShape DEF Init
  <2>2. Chain[0] = <<>>
    BY <2>1, ChainFacts
  <2>3. Persisted = [commits |-> <<>>, index |-> 0]
    <3>1. Len(<<>>) = 0
      OBVIOUS
    <3> HIDE DEF Chain
    <3> QED BY <2>1, <2>2, <3>1 DEF Persisted
  <2>4. Stack = <<>>
    <3>1. Shape => StackFits
      BY StackIs
    <3>2. Len(Stack) = 0 /\ Stack \in Seq(Snapshots)
      BY <2>1, <2>3, <3>1 DEF StackFits
    <3> QED BY <3>2
  <2> HIDE DEF Persisted
  <2> QED BY <2>1, <2>3, <2>4 DEF T!TInit, Stack
<1>2. ASSUME InStep, InStep', [Next]_vars PROVE [T!TNext]_T!tvars
  BY <1>2, TimelineStep
  DEF T!TNext, T!Push, T!Amend, T!Move, T!Cut, T!FirstFile, T!tvars, Stack, Cursor, Written
<1>3. InStep /\ InStep' /\ [Next]_vars => [T!TNext]_T!tvars
  BY <1>2
<1> QED BY <1>1, <1>3, AlwaysInStep, PTL DEF Spec, TimelineImplemented, T!TSpec
=============================================================================
