--------------------------- MODULE PartCacheProofs ---------------------------
(***************************************************************************)
(* Proofs about PartCache, for any sources, inputs and assets and any      *)
(* number of edits, clones and crashes.  A hit is right because, as long   *)
(* as nobody edits the asset under a build or a round, every tree that a   *)
(* build can see has the workspace's asset: a fingerprint that holds, of   *)
(* whatever root, is one of that asset.                                    *)
(***************************************************************************)
EXTENDS PartCache, TLAPS

\* A call that has built or found something has a geometry, one that has taken the
\* fingerprint has that too.
CallFilled ==
  ~Idle =>
    /\ call.at \in {"print", "brep", "meta", "publish"} => call.geom \in Trees
    /\ call.at \in {"brep", "meta"} => call.fp \in Prints

\* The trees that builds see have one asset.
OneAsset ==
  /\ ~Idle => call.tree.asset = live.asset
  /\ round # None => round.tree.asset = live.asset

\* What a call has built or found is what its tree builds.
CallTrue ==
  ~Idle =>
    /\ call.at \in {"print", "brep", "meta", "publish"} => call.geom = call.tree
    /\ call.at \in {"brep", "meta"} => call.fp.asset = call.tree.asset

MemorySound ==
  \A k \in Keys :
    memory[k] # None => memory[k].fp # None /\ Sound(k, memory[k].geom, memory[k].fp)

\* Between the two files of an entry the pair is not one, but the first is there.
Dumping(k) == ~Idle /\ call.at = "meta" /\ k = K
Served(k) == meta[k] # None /\ meta[k].cacheable /\ brep[k] # None
HalfDumped == ~Idle /\ call.at = "meta" /\ Cacheable => brep[K] = call.geom
DiskSound == HalfDumped /\ \A k \in Keys : Served(k) => Dumping(k) \/ Sound(k, brep[k], meta[k].fp)

Clean == ~raced /\ ~torn
Undisturbed == OneAsset /\ CallTrue /\ MemorySound /\ DiskSound /\ Fresh(selected)

Inv == TypeOK /\ CallFilled /\ (Clean => Undisturbed)

-----------------------------------------------------------------------------
(* Data *)

\* Nothing a build handles is None.
LEMMA NotNone ==
  /\ \A t \in Trees : t # None
  /\ \A p \in Prints : p # None
  /\ \A c \in Calls : c # None
  /\ \A r \in [root : Roots, tree : Trees] : r # None
  /\ \A m \in [geom : Trees, fp : Prints \cup {None}] : m # None
  /\ \A m \in [fp : Prints, cacheable : BOOLEAN] : m # None
<1>1. DOMAIN None = {"none"}
  BY DEF None
<1>2. \A t \in Trees : DOMAIN t = {"source", "scalar", "asset"}
  BY DEF Trees
<1>3. \A p \in Prints : DOMAIN p = {"root", "asset"}
  BY DEF Prints
<1>4. \A c \in Calls : DOMAIN c = {"at", "root", "tree", "geom", "fp"}
  BY DEF Calls
<1>5. \A r \in [root : Roots, tree : Trees] : DOMAIN r = {"root", "tree"}
  OBVIOUS
<1>6. \A m \in [geom : Trees, fp : Prints \cup {None}] : DOMAIN m = {"geom", "fp"}
  OBVIOUS
<1>7. \A m \in [fp : Prints, cacheable : BOOLEAN] : DOMAIN m = {"fp", "cacheable"}
  OBVIOUS
<1> QED BY <1>1, <1>2, <1>3, <1>4, <1>5, <1>6, <1>7

LEMMA KeyTyped == \A t \in Trees : Key(t) \in Keys
BY DEF Keys

\* The key and the asset determine the geometry.
LEMMA KeyAndAsset ==
  ASSUME CacheAssumption, NEW t \in Trees, NEW u \in Trees, Key(t) = Key(u), t.asset = u.asset
  PROVE  t = u
<1>1. t.source = u.source /\ t.scalar.type = u.scalar.type /\ t.scalar.value = u.scalar.value
  BY DEF Key, CanonScalar
<1>2. t.scalar = u.scalar
  BY <1>1 DEF CacheAssumption, Trees
<1> QED BY <1>1, <1>2 DEF Trees

LEMMA BoundsTyped == CacheAssumption => MaxEdits \in Nat /\ MaxClones \in Nat /\ MaxCrashes \in Nat
BY DEF CacheAssumption

LEMMA RootsTyped == CacheAssumption => Workspace \in Roots
BY DEF CacheAssumption, Workspace, Roots

\* The tree that a call sees is a tree, and has the one asset.
LEMMA TreeSeen ==
  ASSUME TypeOK, ~Idle
  PROVE  TreeAt(call.root) \in Trees /\ (OneAsset => TreeAt(call.root).asset = live.asset)
<1>1. call \in Calls
  BY DEF TypeOK, Idle
<1> QED BY <1>1 DEF TreeAt, TypeOK, Calls, OneAsset

\* A fingerprint that holds is of the one asset.
LEMMA PrintHolds ==
  ASSUME TypeOK, OneAsset, ~Idle, NEW fp \in Prints, Holds(fp)
  PROVE  fp.asset = live.asset
<1>1. Present(fp.root) /\ TreeAt(fp.root).asset = fp.asset
  BY NotNone DEF Holds
<1> QED BY <1>1 DEF TreeAt, OneAsset

LEMMA InitInv == CacheAssumption /\ Init => Inv
<1> SUFFICES ASSUME CacheAssumption, Init PROVE Inv
  OBVIOUS
<1>1. clones \in Roots /\ edits \in 0 .. MaxEdits /\ crashes \in 0 .. MaxCrashes
  BY DEF Init, CacheAssumption, Roots
<1>2. TypeOK
  BY <1>1 DEF Init, TypeOK
<1> QED BY <1>2 DEF Init, Inv, CallFilled, Undisturbed, OneAsset, CallTrue, MemorySound, DiskSound,
        Served, HalfDumped, Fresh, Idle

-----------------------------------------------------------------------------
(* Calls and rounds *)

\* A call that begins has nothing yet.
LEMMA BeginTyped ==
  ASSUME NEW root \in Roots, NEW tree \in Trees, Begin(root, tree)
  PROVE  call' \in Calls /\ call'.at = "lookup" /\ call'.tree = tree
BY DEF Begin, Calls, Steps

LEMMA BeginKeeps ==
  ASSUME Inv, TypeOK', NEW tree \in Trees, tree.asset = live.asset, Idle,
         call' \in Calls, call'.at = "lookup", call'.tree = tree,
         UNCHANGED <<live, caches, selected, ghosts>>,
         \/ round' = round
         \/ round # None /\ round'.tree.asset = round.tree.asset
  PROVE  Inv'
<1>1. CallFilled' /\ CallTrue'
  BY DEF CallFilled, CallTrue
<1>2. ASSUME Clean PROVE OneAsset' /\ MemorySound' /\ DiskSound' /\ Fresh(selected)'
  BY <1>2 DEF Inv, Undisturbed, OneAsset, MemorySound, DiskSound, Served, Dumping, HalfDumped, Fresh, caches, Sound
<1> QED BY <1>1, <1>2 DEF Inv, Undisturbed, Clean, ghosts

LEMMA CallsBegin ==
  ASSUME CacheAssumption, Inv,
         \/ BuildWorkspace
         \/ \E s \in Sources, v \in Scalars : BuildClone(s, v)
         \/ \E s \in Sources : RoundSetPart(s)
  PROVE  Inv'
<1> USE DEF Inv
<1>1. CASE BuildWorkspace
  <2>1. call' \in Calls /\ call'.at = "lookup" /\ call'.tree = live /\ live \in Trees
    BY <1>1, BeginTyped, RootsTyped DEF BuildWorkspace, TypeOK
  <2>2. TypeOK'
    BY <1>1, <2>1 DEF BuildWorkspace, TypeOK, caches, ghosts
  <2> QED BY <1>1, <2>1, <2>2, BeginKeeps DEF BuildWorkspace
<1>2. ASSUME NEW s \in Sources, NEW v \in Scalars, BuildClone(s, v) PROVE Inv'
  <2>1. clones' \in Roots
    <3>1. clones' = clones + 1 /\ clones < MaxClones
      BY <1>2 DEF BuildClone
    <3> QED BY <3>1, BoundsTyped DEF TypeOK, Roots
  <2>2. PICK tree \in Trees : tree = [live EXCEPT !.source = s, !.scalar = v] /\ tree.asset = live.asset
    <3>1. live \in Trees
      BY DEF TypeOK
    <3>2. [live EXCEPT !.source = s, !.scalar = v] \in Trees
      BY <3>1 DEF Trees
    <3>3. [live EXCEPT !.source = s, !.scalar = v].asset = live.asset
      BY <3>1 DEF Trees
    <3> QED BY <3>2, <3>3
  <2>3. call' \in Calls /\ call'.at = "lookup" /\ call'.tree = tree
    BY <1>2, <2>1, <2>2, BeginTyped DEF BuildClone
  <2>4. TypeOK'
    BY <1>2, <2>1, <2>3 DEF BuildClone, TypeOK, caches, ghosts
  <2> QED BY <1>2, <2>2, <2>3, <2>4, BeginKeeps DEF BuildClone
<1>3. ASSUME NEW s \in Sources, RoundSetPart(s) PROVE Inv'
  <2>1. round \in [root : Roots, tree : Trees]
    BY <1>3 DEF RoundSetPart, TypeOK
  <2>2. /\ round' \in [root : Roots, tree : Trees] /\ round'.root = round.root
        /\ round'.tree.asset = round.tree.asset
    BY <1>3, <2>1 DEF RoundSetPart, Trees
  <2>3. call' \in Calls /\ call'.at = "lookup" /\ call'.tree = round'.tree
    BY <1>3, <2>1, <2>2, BeginTyped DEF RoundSetPart
  <2>4. TypeOK'
    BY <1>3, <2>2, <2>3 DEF RoundSetPart, TypeOK, caches, ghosts
  <2>5. CallFilled' /\ CallTrue'
    BY <2>3 DEF CallFilled, CallTrue
  <2>6. ASSUME Clean PROVE OneAsset' /\ MemorySound' /\ DiskSound' /\ Fresh(selected)'
    BY <1>3, <2>2, <2>3, <2>6 DEF RoundSetPart, Undisturbed, OneAsset, MemorySound, DiskSound, Served,
       Dumping, HalfDumped, Fresh, caches, Sound
  <2> QED BY <1>3, <2>4, <2>5, <2>6 DEF RoundSetPart, Undisturbed, Clean, ghosts
<1> QED BY <1>1, <1>2, <1>3

\* Steps of nobody's build: a round begins or is given up, the asset is edited, the
\* worker dies, a call ends with nothing.
LEMMA OutsideSteps ==
  ASSUME CacheAssumption, Inv,
         \/ BeginRound \/ AbortRound \/ EndUnpublished \/ Crash
         \/ \E a \in Assets : EditAsset(a)
  PROVE  Inv'
<1> USE DEF Inv
<1>1. CASE BeginRound
  <2>1. clones' \in Roots
    BY <1>1 DEF BeginRound, TypeOK, Roots, CacheAssumption
  <2>2. TypeOK'
    BY <1>1, <2>1 DEF BeginRound, TypeOK, caches, ghosts
  <2>3. round'.tree = live
    BY <1>1 DEF BeginRound
  <2> QED BY <1>1, <2>2, <2>3 DEF BeginRound, CallFilled, Clean, Undisturbed, OneAsset, CallTrue,
          MemorySound, DiskSound, Served, Dumping, HalfDumped, Fresh, caches, ghosts, Idle, Sound
<1>2. CASE AbortRound \/ EndUnpublished
  <2>1. TypeOK'
    BY <1>2 DEF AbortRound, EndUnpublished, TypeOK, caches, ghosts
  <2>2. CallFilled' /\ (Clean => OneAsset' /\ CallTrue')
    BY <1>2 DEF AbortRound, EndUnpublished, CallFilled, Undisturbed, OneAsset, CallTrue, Idle
  <2>3. Clean => MemorySound' /\ DiskSound' /\ Fresh(selected)'
    BY <1>2 DEF AbortRound, EndUnpublished, Undisturbed, MemorySound, DiskSound, Served, Dumping, HalfDumped,
       Fresh, caches, Idle, Sound
  <2> QED BY <1>2, <2>1, <2>2, <2>3 DEF AbortRound, EndUnpublished, Clean, Undisturbed, ghosts
<1>3. CASE Crash
  <2>1. memory' \in [Keys -> [geom : Trees, fp : Prints \cup {None}] \cup {None}]
    BY <1>3 DEF Crash
  <2>2. TypeOK'
    BY <1>3, <2>1 DEF Crash, TypeOK, CacheAssumption
  <2>3. CallFilled' /\ OneAsset' /\ CallTrue' /\ MemorySound'
    BY <1>3 DEF Crash, CallFilled, OneAsset, CallTrue, MemorySound, Idle
  <2>4. Clean' => DiskSound' /\ Fresh(selected)'
    BY <1>3 DEF Crash, Clean, Undisturbed, DiskSound, Served, Dumping, HalfDumped, Fresh, Sound, Idle
  <2> QED BY <2>2, <2>3, <2>4 DEF Undisturbed
<1>4. ASSUME NEW a \in Assets, EditAsset(a) PROVE Inv'
  <2>1. live' \in Trees
    BY <1>4 DEF EditAsset, TypeOK, Trees
  <2>2. TypeOK'
    BY <1>4, <2>1 DEF EditAsset, TypeOK, caches, CacheAssumption
  <2>3. CallFilled'
    BY <1>4 DEF EditAsset, CallFilled, Idle
  <2>4. Clean' => Clean /\ Idle /\ round = None
    BY <1>4 DEF EditAsset, Clean
  <2>5. Clean' => Undisturbed'
    BY <1>4, <2>4 DEF EditAsset, Undisturbed, OneAsset, CallTrue, MemorySound, DiskSound, Served,
       Dumping, HalfDumped, Fresh, caches, Idle, Sound
  <2> QED BY <2>2, <2>3, <2>5
<1> QED BY <1>1, <1>2, <1>3, <1>4

-----------------------------------------------------------------------------
(* The steps of a build *)

\* A step of a call changes where it is and what it holds, not its tree or root.
LEMMA CallTyped ==
  ASSUME TypeOK, ~Idle
  PROVE  call \in Calls /\ K \in Keys /\ call.tree \in Trees /\ call.root \in Roots
<1>1. call \in Calls
  BY DEF TypeOK, Idle
<1> QED BY <1>1, KeyTyped DEF K, Calls

\* A hit has the tree's own key and the one asset.
LEMMA HitTrue ==
  ASSUME CacheAssumption, TypeOK, OneAsset, ~Idle, NEW geom \in Trees, NEW fp \in Prints,
         Holds(fp), Sound(K, geom, fp)
  PROVE  geom = call.tree
<1>1. fp.asset = live.asset
  BY PrintHolds
<1>2. geom.asset = call.tree.asset /\ Key(geom) = Key(call.tree)
  BY <1>1 DEF Sound, OneAsset, K
<1> QED BY <1>2, CallTyped, KeyAndAsset

\* The call goes to another step with a geometry that is what its tree builds.
LEMMA CallGoes ==
  ASSUME Inv, ~Idle, NEW at \in Steps \ {"lookup"}, NEW geom \in Trees, NEW fp \in Prints \cup {None},
         call' = [call EXCEPT !.at = at, !.geom = geom, !.fp = fp],
         at \in {"brep", "meta"} => fp \in Prints,
         Clean => geom = call.tree,
         Clean => (at \in {"brep", "meta"} => fp.asset = call.tree.asset),
         UNCHANGED <<live, round>>
  PROVE  call' \in Calls /\ ~Idle' /\ CallFilled' /\ K' = K /\ call'.at = at
         /\ (Clean => OneAsset' /\ CallTrue')
<1>1. call \in Calls
  BY CallTyped DEF Inv
<1>2. call' \in Calls /\ call'.at = at /\ call'.tree = call.tree /\ call'.geom = geom /\ call'.fp = fp
  BY <1>1 DEF Calls
<1>3. ~Idle'
  BY <1>2, NotNone DEF Idle
<1>4. CallFilled'
  BY <1>2 DEF CallFilled
<1>5. Clean => OneAsset' /\ CallTrue'
  BY <1>2 DEF Inv, Undisturbed, OneAsset, CallTrue
<1> QED BY <1>2, <1>3, <1>4, <1>5 DEF K

LEMMA CallFinds ==
  ASSUME Inv, ~Idle, NEW at \in {"print", "publish"}, NEW geom \in Trees, NEW fp \in Prints \cup {None},
         call' = [call EXCEPT !.at = at, !.geom = geom, !.fp = fp],
         Clean => geom = call.tree, UNCHANGED <<live, round>>
  PROVE  call' \in Calls /\ ~Idle' /\ CallFilled' /\ K' = K /\ call'.at = at
         /\ (Clean => OneAsset' /\ CallTrue')
<1>1. at \in Steps \ {"lookup"} /\ at \notin {"brep", "meta"}
  BY DEF Steps
<1> QED BY <1>1, CallGoes

LEMMA HitMemoryStep == ASSUME CacheAssumption, Inv, HitMemory PROVE Inv'
<1> USE DEF Inv
<1>1. ~Idle /\ call.at = "lookup" /\ K \in Keys /\ call \in Calls
  BY CallTyped DEF HitMemory
<1>2. memory[K] \in [geom : Trees, fp : Prints \cup {None}] /\ Holds(memory[K].fp)
  BY <1>1 DEF HitMemory, InMemory, TypeOK
<1>3. PICK geom \in Trees, fp \in Prints \cup {None} : geom = memory[K].geom /\ fp = call.fp
  BY <1>1, <1>2 DEF Calls
<1>4. Clean => geom = call.tree
  <2> SUFFICES ASSUME Clean PROVE geom = call.tree
    OBVIOUS
  <2>1. memory[K] # None
    BY <1>1 DEF HitMemory, InMemory
  <2>2. memory[K].fp # None /\ Sound(K, memory[K].geom, memory[K].fp)
    BY <1>1, <2>1 DEF Undisturbed, MemorySound
  <2>3. memory[K].fp \in Prints
    BY <1>2, <2>2
  <2> QED BY <1>1, <1>2, <1>3, <2>2, <2>3, HitTrue DEF Undisturbed
<1>5. call' = [call EXCEPT !.at = "publish", !.geom = geom, !.fp = fp]
  BY <1>1, <1>3 DEF HitMemory, Calls
<1>6. UNCHANGED <<live, round, memory, brep, meta, selected, clones, edits, crashes, raced, torn>>
  BY DEF HitMemory, caches, ghosts
<1>7. /\ call' \in Calls /\ CallFilled' /\ call'.at = "publish"
      /\ (Clean => OneAsset' /\ CallTrue')
  BY <1>1, <1>3, <1>4, <1>5, <1>6, CallFinds
<1>8. TypeOK'
  BY <1>6, <1>7 DEF TypeOK
<1>9. Clean => MemorySound' /\ DiskSound' /\ Fresh(selected)'
  BY <1>1, <1>6, <1>7 DEF Undisturbed, MemorySound, DiskSound, Served, Dumping, HalfDumped, Fresh, Sound
<1> QED BY <1>6, <1>7, <1>8, <1>9 DEF Undisturbed, Clean

LEMMA HitDiskStep == ASSUME CacheAssumption, Inv, HitDisk PROVE Inv'
<1> USE DEF Inv
<1>1. ~Idle /\ call.at = "lookup" /\ K \in Keys /\ call \in Calls /\ OnDisk
  BY CallTyped DEF HitDisk
<1>2. /\ meta[K] \in [fp : Prints, cacheable : BOOLEAN] /\ Holds(meta[K].fp) /\ Served(K)
      /\ brep[K] \in Trees
  BY <1>1 DEF OnDisk, Served, TypeOK
<1>3. PICK geom \in Trees, fp \in Prints \cup {None} : geom = brep[K] /\ fp = call.fp
  BY <1>1, <1>2 DEF Calls
<1>4. Clean => Sound(K, brep[K], meta[K].fp)
  BY <1>1, <1>2 DEF Undisturbed, DiskSound, Dumping
<1>5. Clean => geom = call.tree
  BY <1>1, <1>2, <1>3, <1>4, HitTrue DEF Undisturbed
<1>6. call' = [call EXCEPT !.at = "publish", !.geom = geom, !.fp = fp]
  BY <1>1, <1>3 DEF HitDisk, Calls
<1>7. /\ UNCHANGED <<live, round, brep, meta, selected, clones, edits, crashes, raced, torn>>
      /\ memory' = [memory EXCEPT ![K] = [geom |-> brep[K], fp |-> meta[K].fp]]
  BY DEF HitDisk, ghosts, Promoted
<1>8. /\ call' \in Calls /\ CallFilled' /\ call'.at = "publish"
      /\ (Clean => OneAsset' /\ CallTrue')
  BY <1>1, <1>3, <1>5, <1>6, <1>7, CallFinds
<1>9. TypeOK'
  <2>1. memory' \in [Keys -> [geom : Trees, fp : Prints \cup {None}] \cup {None}]
    BY <1>2, <1>7 DEF TypeOK
  <2> QED BY <1>7, <1>8, <2>1 DEF TypeOK
<1>10. Clean => MemorySound'
  <2> SUFFICES ASSUME Clean, NEW k \in Keys, memory'[k] # None
               PROVE  memory'[k].fp # None /\ Sound(k, memory'[k].geom, memory'[k].fp)
    BY DEF MemorySound, Sound
  <2>1. CASE k = K
    <3>1. memory'[k] = [geom |-> brep[K], fp |-> meta[K].fp] /\ meta[K].fp \in Prints
      BY <1>2, <1>7, <2>1 DEF TypeOK
    <3> QED BY <1>4, <2>1, <3>1, NotNone
  <2>2. CASE k # K
    BY <1>7, <2>2 DEF Undisturbed, MemorySound, TypeOK
  <2> QED BY <2>1, <2>2
<1>11. Clean => DiskSound' /\ Fresh(selected)'
  BY <1>1, <1>7, <1>8 DEF Undisturbed, DiskSound, Served, Dumping, HalfDumped, Fresh, Sound
<1> QED BY <1>7, <1>8, <1>9, <1>10, <1>11 DEF Undisturbed, Clean

LEMMA RunPartStep == ASSUME CacheAssumption, Inv, RunPart PROVE Inv'
<1> USE DEF Inv
<1>1. ~Idle /\ call.at = "lookup" /\ call \in Calls /\ call.tree \in Trees
  BY CallTyped DEF RunPart
<1>2. PICK geom \in Trees, fp \in Prints \cup {None} :
          geom = [call.tree EXCEPT !.asset = TreeAt(call.root).asset] /\ fp = call.fp
  BY <1>1, TreeSeen DEF Calls, Trees
<1>3. Clean => geom = call.tree
  BY <1>1, <1>2, TreeSeen DEF Undisturbed, OneAsset, Trees
<1>4. call' = [call EXCEPT !.at = "print", !.geom = geom, !.fp = fp]
  BY <1>1, <1>2 DEF RunPart, Geometry, Calls
<1>5. UNCHANGED <<live, round, memory, brep, meta, selected, clones, edits, crashes, raced, torn>>
  BY DEF RunPart, caches, ghosts
<1>6. /\ call' \in Calls /\ CallFilled' /\ call'.at = "print"
      /\ (Clean => OneAsset' /\ CallTrue')
  BY <1>1, <1>2, <1>3, <1>4, <1>5, CallFinds
<1>7. TypeOK'
  BY <1>5, <1>6 DEF TypeOK
<1>8. Clean => MemorySound' /\ DiskSound' /\ Fresh(selected)'
  BY <1>1, <1>5, <1>6 DEF Undisturbed, MemorySound, DiskSound, Served, Dumping, HalfDumped, Fresh, Sound
<1> QED BY <1>5, <1>6, <1>7, <1>8 DEF Undisturbed, Clean

LEMMA FingerprintStep == ASSUME CacheAssumption, Inv, Fingerprint PROVE Inv'
<1> USE DEF Inv
<1>1. ~Idle /\ call.at = "print" /\ call \in Calls /\ K \in Keys /\ call.root \in Roots
  BY CallTyped DEF Fingerprint
<1>2. call.geom \in Trees
  BY <1>1 DEF CallFilled
<1>3. PICK fp \in Prints : fp = [root |-> call.root, asset |-> TreeAt(call.root).asset]
  BY <1>1, TreeSeen DEF Prints, Trees
<1>4. Clean => call.geom = call.tree /\ fp.asset = call.tree.asset
  BY <1>1, <1>3, TreeSeen DEF Undisturbed, OneAsset, CallTrue
<1>5. call' = [call EXCEPT !.at = "brep", !.geom = call.geom, !.fp = fp]
  BY <1>1, <1>3 DEF Fingerprint, Calls
<1>6. /\ UNCHANGED <<live, round, brep, meta, selected, clones, edits, crashes, raced, torn>>
      /\ memory' = [memory EXCEPT ![K] = [geom |-> call.geom, fp |-> fp]]
  BY <1>3 DEF Fingerprint, ghosts
<1>7. /\ call' \in Calls /\ CallFilled' /\ call'.at = "brep"
      /\ (Clean => OneAsset' /\ CallTrue')
  BY <1>1, <1>2, <1>4, <1>5, <1>6, CallGoes DEF Steps
<1>8. TypeOK'
  <2>1. memory' \in [Keys -> [geom : Trees, fp : Prints \cup {None}] \cup {None}]
    BY <1>2, <1>6 DEF TypeOK
  <2> QED BY <1>6, <1>7, <2>1 DEF TypeOK
<1>9. Clean => MemorySound'
  <2> SUFFICES ASSUME Clean, NEW k \in Keys, memory'[k] # None
               PROVE  memory'[k].fp # None /\ Sound(k, memory'[k].geom, memory'[k].fp)
    BY DEF MemorySound, Sound
  <2>1. CASE k = K
    <3>1. memory'[k] = [geom |-> call.geom, fp |-> fp]
      BY <1>6, <2>1 DEF TypeOK
    <3> QED BY <1>4, <2>1, <3>1, NotNone DEF Sound, K
  <2>2. CASE k # K
    BY <1>6, <2>2 DEF Undisturbed, MemorySound, TypeOK
  <2> QED BY <2>1, <2>2
<1>10. Clean => DiskSound' /\ Fresh(selected)'
  BY <1>1, <1>6, <1>7 DEF Undisturbed, DiskSound, Served, Dumping, HalfDumped, Fresh, Sound
<1> QED BY <1>6, <1>7, <1>8, <1>9, <1>10 DEF Undisturbed, Clean

LEMMA DumpFirstStep == ASSUME CacheAssumption, Inv, DumpFirst PROVE Inv'
<1> USE DEF Inv
<1>1. ~Idle /\ call.at = "brep" /\ call \in Calls /\ K \in Keys
  BY CallTyped DEF DumpFirst
<1>2. call.geom \in Trees /\ call.fp \in Prints
  BY <1>1 DEF CallFilled
<1>3. Clean => call.geom = call.tree /\ call.fp.asset = call.tree.asset
  BY <1>1 DEF Undisturbed, CallTrue
<1>4. call' = [call EXCEPT !.at = "meta", !.geom = call.geom, !.fp = call.fp]
  BY <1>1 DEF DumpFirst, Goto, Calls
<1>5. UNCHANGED <<live, round, memory, selected, clones, edits, crashes, raced, torn>>
  BY DEF DumpFirst, ghosts
<1>6. /\ call' \in Calls /\ CallFilled' /\ call'.at = "meta" /\ ~Idle' /\ K' = K
      /\ (Clean => OneAsset' /\ CallTrue')
  BY <1>1, <1>2, <1>3, <1>4, <1>5, CallGoes DEF Steps
<1>7. brep' \in [Keys -> Trees \cup {None}]
  BY <1>2 DEF DumpFirst, TypeOK
<1>8. meta' \in [Keys -> [fp : Prints, cacheable : BOOLEAN] \cup {None}]
  <2>1. \A b \in BOOLEAN : [fp |-> call.fp, cacheable |-> b] \in [fp : Prints, cacheable : BOOLEAN]
    BY <1>2
  <2> QED BY <2>1 DEF DumpFirst, TypeOK
<1>9. TypeOK'
  BY <1>5, <1>6, <1>7, <1>8 DEF TypeOK
<1>10. HalfDumped'
  <2>1. call'.geom = call.geom
    BY <1>1, <1>4 DEF Calls
  <2>2. Cacheable' <=> Cacheable
    BY <2>1 DEF Cacheable
  <2>3. Cacheable => brep'[K] = call.geom
    BY <1>1 DEF DumpFirst, TypeOK
  <2> QED BY <1>6, <2>1, <2>2, <2>3 DEF HalfDumped
<1>11. Clean => DiskSound'
  <2> SUFFICES ASSUME Clean, NEW k \in Keys, Served(k)'
               PROVE  Dumping(k)' \/ Sound(k, brep[k], meta[k].fp)'
    BY <1>10 DEF DiskSound
  <2>1. CASE k = K
    BY <1>6, <2>1 DEF Dumping
  <2>2. CASE k # K
    <3>1. brep'[k] = brep[k] /\ meta'[k] = meta[k]
      BY <2>2 DEF DumpFirst, TypeOK
    <3>2. Sound(k, brep[k], meta[k].fp)
      BY <1>1, <2>2, <3>1 DEF Undisturbed, DiskSound, Served, Dumping
    <3> QED BY <3>1, <3>2 DEF Sound
  <2> QED BY <2>1, <2>2
<1>12. Clean => MemorySound' /\ Fresh(selected)'
  BY <1>5 DEF Undisturbed, MemorySound, Fresh, Sound
<1> QED BY <1>5, <1>6, <1>9, <1>11, <1>12 DEF Undisturbed, Clean

LEMMA DumpSecondStep == ASSUME CacheAssumption, Inv, DumpSecond PROVE Inv'
<1> USE DEF Inv
<1>1. ~Idle /\ call.at = "meta" /\ call \in Calls /\ K \in Keys
  BY CallTyped DEF DumpSecond
<1>2. call.geom \in Trees /\ call.fp \in Prints
  BY <1>1 DEF CallFilled
<1>3. Clean => call.geom = call.tree /\ call.fp.asset = call.tree.asset
  BY <1>1 DEF Undisturbed, CallTrue
<1>4. call' = [call EXCEPT !.at = "publish", !.geom = call.geom, !.fp = call.fp]
  BY <1>1 DEF DumpSecond, Goto, Calls
<1>5. UNCHANGED <<live, round, memory, selected, clones, edits, crashes, raced, torn>>
  BY DEF DumpSecond, ghosts
<1>6. /\ call' \in Calls /\ CallFilled' /\ call'.at = "publish" /\ ~Idle' /\ K' = K
      /\ (Clean => OneAsset' /\ CallTrue')
  BY <1>1, <1>2, <1>3, <1>4, <1>5, CallFinds
<1>7. brep' \in [Keys -> Trees \cup {None}]
  BY DEF DumpSecond, TypeOK
<1>8. meta' \in [Keys -> [fp : Prints, cacheable : BOOLEAN] \cup {None}]
  <2>1. \A b \in BOOLEAN : [fp |-> call.fp, cacheable |-> b] \in [fp : Prints, cacheable : BOOLEAN]
    BY <1>2
  <2> QED BY <2>1 DEF DumpSecond, TypeOK
<1>9. TypeOK'
  BY <1>5, <1>6, <1>7, <1>8 DEF TypeOK
<1>10. HalfDumped'
  BY <1>6 DEF HalfDumped
<1>11. Clean => DiskSound'
  <2> SUFFICES ASSUME Clean, NEW k \in Keys, Served(k)'
               PROVE  Sound(k, brep[k], meta[k].fp)'
    BY <1>10 DEF DiskSound
  <2>1. CASE k = K /\ Cacheable
    <3>1. brep'[k] = call.geom
      BY <1>1, <2>1 DEF DumpSecond, Undisturbed, DiskSound, HalfDumped
    <3>2. meta'[k] = [fp |-> call.fp, cacheable |-> TRUE]
      BY <1>1, <2>1 DEF DumpSecond, TypeOK
    <3> QED BY <1>3, <2>1, <3>1, <3>2 DEF Sound, K
  <2>2. CASE k = K /\ ~Cacheable
    <3>1. brep'[k] = None
      BY <1>1, <2>2 DEF DumpSecond, TypeOK
    <3> QED BY <3>1 DEF Served
  <2>3. CASE k # K
    <3>1. brep'[k] = brep[k] /\ meta'[k] = meta[k]
      BY <2>3 DEF DumpSecond, TypeOK
    <3>2. Sound(k, brep[k], meta[k].fp)
      BY <1>1, <2>3, <3>1 DEF Undisturbed, DiskSound, Served, Dumping
    <3> QED BY <3>1, <3>2 DEF Sound
  <2> QED BY <2>1, <2>2, <2>3
<1>12. Clean => MemorySound' /\ Fresh(selected)'
  BY <1>5 DEF Undisturbed, MemorySound, Fresh, Sound
<1> QED BY <1>5, <1>6, <1>9, <1>11, <1>12 DEF Undisturbed, Clean

LEMMA PublishStep == ASSUME CacheAssumption, Inv, Publish PROVE Inv'
<1> USE DEF Inv
<1>1. ~Idle /\ call.at = "publish" /\ call \in Calls /\ call.tree \in Trees
  BY CallTyped DEF Publish
<1>2. call.geom \in Trees
  BY <1>1 DEF CallFilled
<1>3. PICK tree \in Trees :
        /\ tree = [call.tree EXCEPT !.asset = TreeAt(call.root).asset]
        /\ selected' = [tree |-> tree, geom |-> call.geom] /\ live' = tree
  BY <1>1, TreeSeen DEF Publish, Trees
<1>4. /\ call' = None /\ round' \in {round, None}
      /\ UNCHANGED <<memory, brep, meta, clones, edits, crashes, raced, torn>>
  BY DEF Publish, caches, ghosts
<1>5. TypeOK'
  BY <1>2, <1>3, <1>4 DEF TypeOK
<1>6. CallFilled' /\ CallTrue'
  BY <1>4 DEF CallFilled, CallTrue, Idle
<1>7. ASSUME Clean PROVE tree = call.tree /\ tree.asset = live.asset
  BY <1>1, <1>3, <1>7, TreeSeen DEF Undisturbed, OneAsset, Trees
<1>8. Clean => OneAsset'
  BY <1>3, <1>4, <1>7 DEF Undisturbed, OneAsset, Idle
<1>9. Clean => Fresh(selected)'
  BY <1>1, <1>3, <1>7 DEF Undisturbed, CallTrue, Fresh, Geometry
<1>10. Clean => MemorySound' /\ DiskSound'
  BY <1>1, <1>4 DEF Undisturbed, MemorySound, DiskSound, HalfDumped, Served, Dumping, Idle, Sound
<1> QED BY <1>4, <1>5, <1>6, <1>8, <1>9, <1>10 DEF Undisturbed, Clean

-----------------------------------------------------------------------------
(* The theorem *)

LEMMA NextInv == CacheAssumption /\ Inv /\ [Next]_vars => Inv'
<1> SUFFICES ASSUME CacheAssumption, Inv, [Next]_vars PROVE Inv'
  OBVIOUS
<1>1. CASE UNCHANGED vars
  <2>1. UNCHANGED <<live, round, call, memory, brep, meta, selected, clones, edits, crashes, raced, torn>>
    BY <1>1 DEF vars, caches, ghosts
  <2>2. TypeOK' /\ CallFilled'
    BY <2>1 DEF Inv, TypeOK, CallFilled, Idle
  <2>3. Clean => OneAsset' /\ CallTrue' /\ MemorySound'
    BY <2>1 DEF Inv, Undisturbed, OneAsset, CallTrue, MemorySound, Idle, Sound
  <2>4. Clean => DiskSound' /\ Fresh(selected)'
    BY <2>1 DEF Inv, Undisturbed, DiskSound, HalfDumped, Cacheable, Served, Dumping, Idle, Fresh, Sound, K
  <2> QED BY <2>1, <2>2, <2>3, <2>4 DEF Inv, Undisturbed, Clean
<1>2. CASE Next
  BY <1>2, CallsBegin, OutsideSteps, HitMemoryStep, HitDiskStep, RunPartStep, FingerprintStep,
     DumpFirstStep, DumpSecondStep, PublishStep DEF Next
<1> QED BY <1>1, <1>2

LEMMA InvIsSound == Inv => CachesSound
<1> SUFFICES ASSUME Inv PROVE CachesSound
  OBVIOUS
<1>1. EntriesSound
  BY DEF Inv, Clean, Undisturbed, MemorySound, DiskSound, Served, Dumping, EntriesSound
<1>2. PublishedIsFresh
  BY DEF Inv, Clean, Undisturbed, PublishedIsFresh
<1> QED BY <1>1, <1>2 DEF Inv, CachesSound

\* However many edits, clones, rounds and crashes there are: no entry of the memory or
\* of the disk says what it is not, and what is published is what its own inputs build
\* (build_child, graph.py; cache.py, diskcache.py).
THEOREM CachesStaySound == Spec => []CachesSound
<1> QED BY CacheAssumption, InitInv, NextInv, InvIsSound, PTL DEF Spec
=============================================================================
