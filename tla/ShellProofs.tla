----------------------------- MODULE ShellProofs -----------------------------
(***************************************************************************)
(* Proofs about the two sides of the shell that outlive an engine: the     *)
(* supervisor in the host and the parameter scheduler in its window.       *)
(*                                                                         *)
(* EngineSupervisor, for any number of opens and closes of the path.  A    *)
(* kill is final because the bumps of a generation are all different: no   *)
(* supervisor ever carries the number of a kill, and one that carries an   *)
(* older number never fills the slot again.  An open tab is served because *)
(* a bump of its engine comes from an open that will claim it again, and   *)
(* its one current supervisor ends only in an error.                       *)
(*                                                                         *)
(* ParamCommit, whose specification is PSpec: no edit is lost, for any     *)
(* number of parameters, values, edits and engine deaths.  NoLostEdit is   *)
(* inductive once FlagsAgree is known: a flush that finds hasPending false *)
(* must not be hiding a batch, and a send that starts while another        *)
(* payload is held would drop it.                                          *)
(***************************************************************************)
EXTENDS EngineSupervisor, ParamCommit, FiniteSetTheorems, TLAPS

Supervised(o) == sups[o].pc # "none"
EngineOf(o) == opens[o].engine

Typed ==
    /\ tab \in Engines \cup {None} /\ focused \in BOOLEAN /\ made \in Nat
    /\ gen \in [Engines -> Nat]
    /\ slot \in [Engines -> Processes \cup {None}]
    /\ service \in [Engines -> Processes \cup {None}]
    /\ status \in [Engines -> {"provisioning", "ready", "error"}]
    /\ opens \in [Opens -> [pc : OpenPcs, engine : Engines \cup {None},
                            errored : BOOLEAN, bumped : Nat]]
    /\ sups \in [Opens -> [pc : SupPcs, gen : Nat, attempts : 0 .. 2]]
    /\ closes \in [Closes -> [pc : ClosePcs, engine : Engines \cup {None}, bumped : Nat]]
    /\ alive \subseteq Processes /\ exits \in 0 .. MaxExits
    /\ killed \in [Engines -> Nat] /\ excused \subseteq Engines

\* An open makes an engine when it asks ensure_new and again when it starts.
Ensured == {o \in Opens : opens[o].pc \notin {"new", "ensure"}}
Started == {o \in Opens : opens[o].pc \in {"provision", "done"}}
Counted == made <= Cardinality(Ensured) + Cardinality(Started)

\* A thread that works on an engine has one, and a supervisor's open has ended.
EnginesNamed ==
    /\ \A o \in Opens : opens[o].pc \in {"kill", "reap", "start", "provision"} => EngineOf(o) \in Engines
    /\ \A c \in Closes : closes[c].pc \in {"kill", "reap"} => closes[c].engine \in Engines
    /\ \A o \in Opens : Supervised(o) => opens[o].pc = "done" /\ EngineOf(o) \in Engines

\* A supervisor tries twice.
AttemptsCounted ==
    \A o \in Opens :
        /\ sups[o].pc \in {"begin", "announce", "resolve", "loop", "restart"} => sups[o].attempts <= 1
        /\ sups[o].pc \in {"service", "spawn", "store", "ready", "wait", "gone", "exited"}
               => sups[o].attempts \in Attempts

\* g is the number of a bump that was no supervisor's.
KillNumber(e, g) ==
    g <= gen[e] /\ \A o \in Opens : Supervised(o) /\ EngineOf(o) = e => sups[o].gen # g

BumpsApart ==
    /\ \A o \in Opens : Supervised(o) => sups[o].gen <= gen[EngineOf(o)]
    /\ \A e \in Engines : KillNumber(e, killed[e])
    /\ \A o \in Opens : opens[o].pc = "reap" => KillNumber(EngineOf(o), opens[o].bumped)
    /\ \A c \in Closes : closes[c].pc = "reap" => KillNumber(closes[c].engine, closes[c].bumped)

\* What a slot holds is of a supervisor of that engine.
SlotsOwned ==
    \A e \in Engines : slot[e] # None => Supervised(Owner(slot[e])) /\ EngineOf(Owner(slot[e])) = e

Inv ==
    /\ Typed /\ Counted /\ EnginesNamed /\ AttemptsCounted /\ BumpsApart /\ SlotsOwned
    /\ KillIsFinal /\ NoStrayService

-----------------------------------------------------------------------------
(* How many engines there are *)

LEMMA CardinalitiesBounded ==
    ASSUME NEW S \in SUBSET Opens, NEW T \in SUBSET Opens
    PROVE  /\ IsFiniteSet(S) /\ IsFiniteSet(T)
           /\ Cardinality(S) \in Nat /\ Cardinality(T) \in Nat /\ Cardinality(Opens) \in Nat
           /\ Cardinality(S) + Cardinality(T) <= 2 * Cardinality(Opens)
<1>1. IsFiniteSet(S) /\ Cardinality(S) <= Cardinality(Opens)
    BY OpensFinite, FS_Subset
<1>2. IsFiniteSet(T) /\ Cardinality(T) <= Cardinality(Opens)
    BY OpensFinite, FS_Subset
<1>3. Cardinality(S) \in Nat /\ Cardinality(T) \in Nat /\ Cardinality(Opens) \in Nat
    BY <1>1, <1>2, OpensFinite, FS_CardinalityType
<1> QED BY <1>1, <1>2, <1>3

LEMMA EnginesCounted == Cardinality(Engines) = 2 * Cardinality(Opens)
<1>1. Cardinality(Opens) \in Nat
    BY OpensFinite, FS_CardinalityType
<1> QED BY <1>1, FS_Interval DEF Engines

\* An engine is made for an open that is added to one of the two sets.
LEMMA EngineMade ==
    ASSUME Counted, made \in Nat, NEW o \in Opens, made' = made + 1,
           \/ o \notin Ensured /\ Ensured' = Ensured \cup {o} /\ Started' = Started
           \/ o \notin Started /\ Started' = Started \cup {o} /\ Ensured' = Ensured
    PROVE  Counted' /\ made' \in Engines
<1>1. Ensured \in SUBSET Opens /\ Started \in SUBSET Opens
    BY DEF Ensured, Started
<1>2. Ensured' \in SUBSET Opens /\ Started' \in SUBSET Opens
    BY <1>1
<1>3. /\ Cardinality(Ensured) \in Nat /\ Cardinality(Started) \in Nat
      /\ IsFiniteSet(Ensured) /\ IsFiniteSet(Started)
    BY <1>1, CardinalitiesBounded
<1>4. Cardinality(Ensured') + Cardinality(Started') = Cardinality(Ensured) + Cardinality(Started) + 1
  <2>1. ASSUME o \notin Ensured, Ensured' = Ensured \cup {o}
        PROVE  Cardinality(Ensured') = Cardinality(Ensured) + 1
    <3>1. Cardinality(Ensured \cup {o}) = Cardinality(Ensured) + 1
      BY <1>3, <2>1, FS_AddElement, Zenon
    <3> QED BY <2>1, <3>1
  <2>2. ASSUME o \notin Started, Started' = Started \cup {o}
        PROVE  Cardinality(Started') = Cardinality(Started) + 1
    <3>1. Cardinality(Started \cup {o}) = Cardinality(Started) + 1
      BY <1>3, <2>2, FS_AddElement, Zenon
    <3> QED BY <2>2, <3>1
  <2>3. Ensured' = Ensured => Cardinality(Ensured') = Cardinality(Ensured)
    OBVIOUS
  <2>4. Started' = Started => Cardinality(Started') = Cardinality(Started)
    OBVIOUS
  <2> QED BY <1>3, <2>1, <2>2, <2>3, <2>4
<1>5. Counted'
    BY <1>4, <1>3 DEF Counted
<1>6. /\ Cardinality(Ensured') + Cardinality(Started') <= 2 * Cardinality(Opens)
      /\ Cardinality(Ensured') \in Nat /\ Cardinality(Started') \in Nat
      /\ Cardinality(Opens) \in Nat
    BY <1>2, CardinalitiesBounded
<1>7. made' <= 2 * Cardinality(Opens)
    BY <1>5, <1>6 DEF Counted
<1> QED BY <1>5, <1>6, <1>7 DEF Engines

\* A step that makes no engine and takes no open out of the sets.
LEMMA NoEngineMade ==
    ASSUME Counted, made \in Nat, made' = made,
           Ensured \subseteq Ensured', Started \subseteq Started'
    PROVE  Counted'
<1>1. Ensured' \in SUBSET Opens /\ Started' \in SUBSET Opens
    BY DEF Ensured, Started
<1>2. /\ Cardinality(Ensured) <= Cardinality(Ensured') /\ Cardinality(Started) <= Cardinality(Started')
    BY <1>1, CardinalitiesBounded, FS_Subset
<1>3. /\ Cardinality(Ensured) \in Nat /\ Cardinality(Started) \in Nat
      /\ Cardinality(Ensured') \in Nat /\ Cardinality(Started') \in Nat
    BY <1>1, CardinalitiesBounded DEF Ensured, Started
<1> QED BY <1>2, <1>3 DEF Counted

-----------------------------------------------------------------------------
(* What the parts need of a step *)

\* Nothing that supervision is about has changed.
Unsupervised == <<gen, slot, service, sups, killed>>

\* An open that is not done has no supervisor.
LEMMA OpenHasNone ==
    ASSUME EnginesNamed, NEW o \in Opens, opens[o].pc # "done"
    PROVE  ~Supervised(o)
BY DEF EnginesNamed

LEMMA Owners == \A p \in Processes : Owner(p) \in Opens
BY DEF Processes, Owner

LEMMA StartingTyped == Init /\ ExitsNatural => Typed
<1> SUFFICES ASSUME Init, ExitsNatural PROVE Typed
    OBVIOUS
<1>1. opens \in [Opens -> [pc : OpenPcs, engine : Engines \cup {None}, errored : BOOLEAN, bumped : Nat]]
    BY DEF Init, OpenPcs
<1>2. sups \in [Opens -> [pc : SupPcs, gen : Nat, attempts : 0 .. 2]]
    BY DEF Init, SupPcs
<1>3. closes \in [Closes -> [pc : ClosePcs, engine : Engines \cup {None}, bumped : Nat]]
    BY DEF Init, ClosePcs
<1>4. gen \in [Engines -> Nat] /\ killed \in [Engines -> Nat] /\ exits \in 0 .. MaxExits
    BY DEF Init, ExitsNatural
<1>5. /\ slot \in [Engines -> Processes \cup {None}] /\ service \in [Engines -> Processes \cup {None}]
      /\ status \in [Engines -> {"provisioning", "ready", "error"}]
    BY DEF Init
<1> QED BY <1>1, <1>2, <1>3, <1>4, <1>5 DEF Init, Typed

LEMMA InitInv == Init => Inv
<1> SUFFICES ASSUME Init PROVE Inv
    OBVIOUS
<1>1. Typed
    BY StartingTyped, ExitsNatural
<1>2. Counted
  <2>1. Ensured \in SUBSET Opens /\ Started \in SUBSET Opens
    BY DEF Ensured, Started
  <2>2. Cardinality(Ensured) \in Nat /\ Cardinality(Started) \in Nat
    BY <2>1, CardinalitiesBounded
  <2> QED BY <2>2 DEF Counted, Init
<1>3. EnginesNamed /\ AttemptsCounted /\ BumpsApart /\ SlotsOwned /\ KillIsFinal /\ NoStrayService
    BY DEF Init, EnginesNamed, AttemptsCounted, BumpsApart, KillNumber, SlotsOwned, KillIsFinal,
           NoStrayService, Supervised
<1> QED BY <1>1, <1>2, <1>3 DEF Inv

\* An open that moves on, with another engine or the same one, disturbs no
\* supervisor.
LEMMA OpenMoves ==
    ASSUME Inv, Typed', NEW o \in Opens, opens[o].pc # "done", UNCHANGED Unsupervised,
           \A x \in Opens \ {o} : opens'[x] = opens[x],
           UNCHANGED closes,
           opens'[o].pc \in {"kill", "start", "provision"} => opens'[o].engine \in Engines,
           opens'[o].pc # "reap"
    PROVE  /\ EnginesNamed' /\ AttemptsCounted' /\ BumpsApart' /\ SlotsOwned'
           /\ KillIsFinal' /\ NoStrayService'
<1> USE DEF Inv, Unsupervised
<1>1. ~Supervised(o)
    BY OpenHasNone
<1>2. \A x \in Opens : Supervised(x)' <=> Supervised(x)
    BY DEF Supervised
<1>3. \A x \in Opens : Supervised(x) => EngineOf(x)' = EngineOf(x)
    BY <1>1 DEF EngineOf
<1>4. EnginesNamed'
    BY <1>1, <1>2 DEF EnginesNamed, EngineOf
<1>5. AttemptsCounted'
    BY DEF AttemptsCounted
<1>6. \A e \in Engines, g \in Nat : KillNumber(e, g) => KillNumber(e, g)'
    BY <1>2, <1>3 DEF KillNumber
<1>7. BumpsApart'
  <2>1. \A x \in Opens : Supervised(x)' => sups'[x].gen <= gen'[EngineOf(x)']
    BY <1>2, <1>3 DEF BumpsApart
  <2>2. \A e \in Engines : KillNumber(e, killed[e])'
    BY <1>6 DEF BumpsApart, Typed
  <2>3. \A x \in Opens : opens'[x].pc = "reap" => KillNumber(EngineOf(x), opens[x].bumped)'
    BY <1>6 DEF BumpsApart, Typed, EnginesNamed, EngineOf
  <2>4. \A c \in Closes : closes[c].pc = "reap" => KillNumber(closes[c].engine, closes[c].bumped)'
    BY <1>6 DEF BumpsApart, Typed, EnginesNamed
  <2> QED BY <2>1, <2>2, <2>3, <2>4 DEF BumpsApart
<1>8. SlotsOwned'
    BY <1>2, <1>3, Owners DEF SlotsOwned, Typed
<1>9. KillIsFinal' 
    BY DEF KillIsFinal
<1>10. NoStrayService'
    BY <1>1, Owners DEF NoStrayService, Typed, InAttempt, Busy, Waiting, Process, Supervised
<1> QED BY <1>4, <1>5, <1>7, <1>8, <1>9, <1>10

-----------------------------------------------------------------------------
(* The steps of an open that start and stop nothing *)

LEMMA OpenCheckStep == ASSUME Inv, NEW o \in Opens, OpenCheck(o) PROVE Inv'
<1>1. opens[o] \in [pc : OpenPcs, engine : Engines \cup {None}, errored : BOOLEAN, bumped : Nat]
    BY DEF Inv, Typed
<1>2. PICK pc \in {"done", "ensure"} : \E errored \in BOOLEAN :
            opens' = [opens EXCEPT ![o].pc = pc, ![o].errored = errored]
    BY DEF OpenCheck
<1>3. Typed'
  <2> DEFINE Thread == [pc : OpenPcs, engine : Engines \cup {None}, errored : BOOLEAN, bumped : Nat]
  <2>1. opens' \in [Opens -> Thread]
    <3>1. PICK errored \in BOOLEAN :
            opens' = [opens EXCEPT ![o].pc = pc, ![o].errored = errored]
      BY <1>2
    <3>2. [opens[o] EXCEPT !.pc = pc, !.errored = errored] \in Thread
      BY <1>1, <3>1 DEF OpenPcs
    <3>3. opens \in [Opens -> Thread] BY DEF Inv, Typed
    <3>4. opens' = [opens EXCEPT ![o] = [opens[o] EXCEPT !.pc = pc, !.errored = errored]]
      BY <3>1, <3>3
    <3> HIDE DEF Thread
    <3> QED BY <3>2, <3>3, <3>4
  <2> QED BY <2>1 DEF OpenCheck, Inv, Typed, host, state, history
<1>4. Counted'
  <2>1. opens'[o].pc \in {"done", "ensure"} /\ \A x \in Opens \ {o} : opens'[x] = opens[x]
    BY <1>1, <1>2 DEF Inv, Typed
  <2> QED BY <1>1, <1>2, <2>1, NoEngineMade DEF OpenCheck, Inv, Typed, Ensured, Started, host
<1>5. /\ opens[o].pc # "done" /\ opens'[o].pc \in {"done", "ensure"}
      /\ \A x \in Opens \ {o} : opens'[x] = opens[x]
    BY <1>1, <1>2 DEF OpenCheck, Inv, Typed
<1>6. UNCHANGED Unsupervised /\ UNCHANGED closes
    BY DEF OpenCheck, Unsupervised, state, history
<1> QED BY <1>3, <1>4, <1>5, <1>6, OpenMoves DEF Inv

LEMMA OpenEnsureStep == ASSUME Inv, NEW o \in Opens, OpenEnsure(o) PROVE Inv'
<1>1. opens[o] \in [pc : OpenPcs, engine : Engines \cup {None}, errored : BOOLEAN, bumped : Nat]
    BY DEF Inv, Typed
<1>2. PICK pc \in {"start", "kill", "done"} :
            /\ opens' = [opens EXCEPT ![o].engine = tab', ![o].pc = pc]
            /\ \/ tab = None /\ pc = "start" /\ made' = made + 1 /\ tab' = made + 1
               \/ tab # None /\ pc # "start" /\ made' = made /\ tab' = tab
    BY DEF OpenEnsure
<1>3. made' \in Nat /\ tab' \in Engines /\ Counted'
  <2>1. CASE tab = None
    <3>1. o \notin Ensured /\ Ensured' = Ensured \cup {o} /\ Started' = Started
      BY <1>1, <1>2, <2>1 DEF OpenEnsure, Ensured, Started, Inv, Typed
    <3> QED BY <1>2, <2>1, <3>1, EngineMade DEF Inv, Typed
  <2>2. CASE tab # None
    <3>1. Ensured \subseteq Ensured' /\ Started \subseteq Started'
      BY <1>1, <1>2, <2>2 DEF OpenEnsure, Ensured, Started, Inv, Typed
    <3> QED BY <1>2, <2>2, <3>1, NoEngineMade DEF Inv, Typed
  <2> QED BY <2>1, <2>2
<1>4. Typed'
    BY <1>1, <1>2, <1>3 DEF OpenEnsure, Inv, Typed, OpenPcs, state, history
<1> QED BY <1>1, <1>2, <1>3, <1>4, OpenMoves DEF OpenEnsure, Unsupervised, state, history, Inv, Typed

LEMMA OpenStartStep == ASSUME Inv, NEW o \in Opens, OpenStart(o) PROVE Inv'
<1>1. opens[o] \in [pc : OpenPcs, engine : Engines \cup {None}, errored : BOOLEAN, bumped : Nat]
    BY DEF Inv, Typed
<1>2. opens' = [opens EXCEPT ![o].pc = "provision", ![o].engine = tab']
    BY DEF OpenStart
<1>3. made' \in Nat /\ tab' \in Engines /\ Counted'
  <2>1. o \notin Started /\ Started' = Started \cup {o} /\ Ensured' = Ensured
    BY <1>1, <1>2 DEF OpenStart, Ensured, Started, Inv, Typed
  <2>2. CASE tab = None
    BY <2>1, <2>2, EngineMade DEF OpenStart, Inv, Typed
  <2>3. CASE tab # None
    BY <2>1, <2>3, NoEngineMade DEF OpenStart, Inv, Typed
  <2> QED BY <2>2, <2>3
<1>4. Typed'
  <2>1. opens' \in [Opens -> [pc : OpenPcs, engine : Engines \cup {None}, errored : BOOLEAN, bumped : Nat]]
    BY <1>1, <1>2, <1>3 DEF Inv, Typed, OpenPcs
  <2> QED BY <1>3, <2>1 DEF OpenStart, Inv, Typed, state, history
<1> QED BY <1>1, <1>2, <1>3, <1>4, OpenMoves DEF OpenStart, Unsupervised, state, history, Inv, Typed

LEMMA OpenFailsStep == ASSUME Inv, NEW o \in Opens, OpenFails(o) PROVE Inv'
<1>1. opens[o] \in [pc : OpenPcs, engine : Engines \cup {None}, errored : BOOLEAN, bumped : Nat]
    BY DEF Inv, Typed
<1>2. opens[o].engine \in Engines
    BY DEF OpenFails, Inv, EnginesNamed, EngineOf
<1>3. Typed'
    BY <1>1, <1>2 DEF OpenFails, OpenGoes, Inv, Typed, OpenPcs, host, state
<1>4. Counted'
    BY <1>1, NoEngineMade DEF OpenFails, OpenGoes, Inv, Typed, Ensured, Started, host
<1> QED BY <1>1, <1>3, <1>4, OpenMoves DEF OpenFails, OpenGoes, Unsupervised, state, Inv, Typed

-----------------------------------------------------------------------------
(* Kills *)

\* Who has a supervisor, and for which engine, has not changed.
SameSupervisors ==
    /\ sups' = sups
    /\ \A o \in Opens : opens[o].pc = "done" => opens'[o] = opens[o]

\* A bump leaves every kill number one, and its own number is nobody's.
LEMMA BumpIsFresh ==
    ASSUME Inv, NEW e \in Engines, Bump(e), SameSupervisors
    PROVE  /\ \A x \in Engines, g \in Nat : KillNumber(x, g) => KillNumber(x, g)'
           /\ \A g \in Nat : g = gen[e] + 1 => KillNumber(e, g)'
           /\ \A o \in Opens : Supervised(o)' => sups'[o].gen <= gen'[EngineOf(o)']
<1> USE DEF Inv, Typed
<1>1. \A o \in Opens : Supervised(o)' <=> Supervised(o)
    BY DEF SameSupervisors, Supervised
<1>2. \A o \in Opens : Supervised(o) => EngineOf(o)' = EngineOf(o) /\ EngineOf(o) \in Engines
    BY DEF SameSupervisors, EngineOf, EnginesNamed
<1>3. \A x \in Engines : gen'[x] \in Nat /\ gen[x] \in Nat /\ gen'[x] >= gen[x]
    BY DEF Bump
<1>4. \A o \in Opens : Supervised(o) => sups'[o].gen <= gen[EngineOf(o)]
    BY DEF SameSupervisors, BumpsApart
<1>5. gen'[e] = gen[e] + 1
    BY DEF Bump
<1>6. \A x \in Engines, g \in Nat : KillNumber(x, g) => KillNumber(x, g)'
    BY <1>1, <1>2, <1>3 DEF KillNumber, SameSupervisors
<1>7. ASSUME NEW g \in Nat, g = gen[e] + 1 PROVE KillNumber(e, g)'
  <2>1. g <= gen'[e]
    BY <1>3, <1>5, <1>7
  <2>2. ASSUME NEW o \in Opens, Supervised(o)', EngineOf(o)' = e PROVE sups'[o].gen # g
    <3>1. sups'[o].gen <= gen[e]
      BY <1>1, <1>2, <1>4, <2>2
    <3>2. sups'[o].gen \in Nat
      BY DEF SameSupervisors
    <3> QED BY <1>7, <1>3, <3>1, <3>2
  <2> QED BY <2>1, <2>2 DEF KillNumber
<1>8. ASSUME NEW o \in Opens, Supervised(o)' PROVE sups'[o].gen <= gen'[EngineOf(o)']
  <2>1. sups'[o].gen <= gen[EngineOf(o)] /\ EngineOf(o)' = EngineOf(o) /\ EngineOf(o) \in Engines
    BY <1>1, <1>2, <1>4, <1>8
  <2>2. sups'[o].gen \in Nat
    BY DEF SameSupervisors
  <2> QED BY <1>3, <2>1, <2>2
<1> QED BY <1>6, <1>7, <1>8

\* The parts that a bump or a reaping does not depend on.
LEMMA SupervisorsKept ==
    ASSUME Inv, SameSupervisors, NEW e \in Engines,
           \/ UNCHANGED <<slot, service>>
           \/ slot' = [slot EXCEPT ![e] = None] /\ service' = [service EXCEPT ![e] = None]
    PROVE  AttemptsCounted' /\ SlotsOwned' /\ NoStrayService'
<1> USE DEF Inv, Typed
<1>1. AttemptsCounted'
    BY DEF AttemptsCounted, SameSupervisors
<1>2. \A x \in Engines : slot'[x] # None => slot'[x] = slot[x]
    OBVIOUS
<1>3. \A x \in Engines : service'[x] # None => service'[x] = service[x]
    OBVIOUS
<1>4. \A o \in Opens : Supervised(o) => Supervised(o)' /\ opens'[o] = opens[o]
    BY DEF SameSupervisors, Supervised, EnginesNamed
<1>5. SlotsOwned'
    BY <1>2, <1>4, Owners DEF SlotsOwned, EngineOf
<1>6. \A x \in Engines, o \in Opens :
          InAttempt(o, x) /\ service'[x] = service[x] => InAttempt(o, x)'
    BY <1>4 DEF InAttempt, Busy, Waiting, Process, Supervised, SameSupervisors
<1>7. NoStrayService'
    BY <1>3, <1>6, Owners DEF NoStrayService
<1> QED BY <1>1, <1>5, <1>7

LEMMA OpenKillStep == ASSUME Inv, NEW o \in Opens, OpenKill(o) PROVE Inv'
<1> USE DEF Inv
<1> DEFINE e == opens[o].engine
<1>1. opens[o] \in [pc : OpenPcs, engine : Engines \cup {None}, errored : BOOLEAN, bumped : Nat]
    BY DEF Typed
<1>2. e \in Engines /\ gen[e] \in Nat
    BY DEF OpenKill, EnginesNamed, EngineOf, Typed
<1>3. opens' = [opens EXCEPT ![o].pc = "reap", ![o].bumped = gen[e] + 1] /\ Bump(e)
    BY DEF OpenKill
<1>4. Typed'
  <2>1. opens' \in [Opens -> [pc : OpenPcs, engine : Engines \cup {None}, errored : BOOLEAN, bumped : Nat]]
    <3>1. PICK n \in Nat : opens' = [opens EXCEPT ![o].pc = "reap", ![o].bumped = n]
      <4>1. gen[e] + 1 \in Nat
        BY <1>2
      <4> QED BY <1>3, <4>1
    <3> QED BY <1>1, <3>1 DEF Typed, OpenPcs
  <2>2. gen' \in [Engines -> Nat]
    BY <1>2, <1>3 DEF Bump, Typed
  <2> QED BY <2>1, <2>2 DEF OpenKill, Typed, host, history
<1>5. Counted'
    BY <1>1, <1>3, NoEngineMade DEF OpenKill, Typed, Ensured, Started, host
<1>6. SameSupervisors
    BY <1>3 DEF OpenKill, SameSupervisors, Typed
<1>7. AttemptsCounted' /\ SlotsOwned' /\ NoStrayService'
    BY <1>2, <1>6, SupervisorsKept DEF OpenKill
<1>8. EnginesNamed'
    BY <1>1, <1>2, <1>3 DEF OpenKill, EnginesNamed, EngineOf, Supervised, Typed
<1>9. BumpsApart'
  <2>1. \A x \in Engines : KillNumber(x, killed[x])'
    BY <1>2, <1>3, <1>6, BumpIsFresh DEF BumpsApart, Typed, OpenKill, history
  <2>2. ASSUME NEW x \in Opens, opens'[x].pc = "reap"
        PROVE  KillNumber(EngineOf(x), opens[x].bumped)'
    <3>1. CASE x = o
      <4>1. opens'[x].engine = e /\ opens'[x].bumped = gen[e] + 1
        BY <1>1, <1>3, <3>1 DEF Typed
      <4> QED BY <1>2, <1>3, <1>6, <4>1, BumpIsFresh DEF EngineOf
    <3>2. CASE x # o
      <4>1. opens'[x] = opens[x] /\ opens[x].bumped \in Nat /\ opens[x].engine \in Engines
        BY <1>3, <2>2, <3>2 DEF Typed, EnginesNamed, EngineOf
      <4>2. KillNumber(opens[x].engine, opens[x].bumped)'
        BY <1>2, <1>3, <1>6, <2>2, <4>1, BumpIsFresh DEF BumpsApart, EngineOf
      <4> QED BY <4>1, <4>2 DEF EngineOf
    <3> QED BY <3>1, <3>2
  <2>3. ASSUME NEW c \in Closes, closes[c].pc = "reap"
        PROVE  KillNumber(closes[c].engine, closes[c].bumped)'
    <3>1. closes'[c] = closes[c] /\ closes[c].engine \in Engines /\ closes[c].bumped \in Nat
      BY <2>3 DEF OpenKill, Typed, EnginesNamed
    <3>2. KillNumber(closes[c].engine, closes[c].bumped)
      BY <2>3 DEF BumpsApart
    <3> QED BY <1>2, <1>3, <1>6, <3>1, <3>2, BumpIsFresh
  <2> QED BY <1>2, <1>3, <1>6, <2>1, <2>2, <2>3, BumpIsFresh DEF BumpsApart, OpenKill
<1>10. KillIsFinal'
    BY <1>6 DEF KillIsFinal, OpenKill, SameSupervisors, history
<1> QED BY <1>4, <1>5, <1>7, <1>8, <1>9, <1>10

LEMMA CloseKillStep == ASSUME Inv, NEW c \in Closes, CloseKill(c) PROVE Inv'
<1> USE DEF Inv
<1> DEFINE e == closes[c].engine
<1>1. closes[c] \in [pc : ClosePcs, engine : Engines \cup {None}, bumped : Nat]
    BY DEF Typed
<1>2. e \in Engines /\ gen[e] \in Nat
    BY DEF CloseKill, EnginesNamed, Typed
<1>3. closes' = [closes EXCEPT ![c].pc = "reap", ![c].bumped = gen[e] + 1] /\ Bump(e)
    BY DEF CloseKill
<1>4. Typed'
  <2>1. closes' \in [Closes -> [pc : ClosePcs, engine : Engines \cup {None}, bumped : Nat]]
    <3>1. PICK n \in Nat : closes' = [closes EXCEPT ![c].pc = "reap", ![c].bumped = n]
      <4>1. gen[e] + 1 \in Nat
        BY <1>2
      <4> QED BY <1>3, <4>1
    <3> QED BY <1>1, <3>1 DEF Typed, ClosePcs
  <2>2. gen' \in [Engines -> Nat]
    BY <1>2, <1>3 DEF Bump, Typed
  <2> QED BY <2>1, <2>2 DEF CloseKill, Typed, host, history
<1>5. Counted'
    BY NoEngineMade DEF CloseKill, Typed, Ensured, Started, host
<1>6. SameSupervisors
    BY DEF CloseKill, SameSupervisors
<1>7. AttemptsCounted' /\ SlotsOwned' /\ NoStrayService'
    BY <1>2, <1>6, SupervisorsKept DEF CloseKill
<1>8. EnginesNamed'
    BY <1>1, <1>2, <1>3 DEF CloseKill, EnginesNamed, EngineOf, Supervised, Typed
<1>9. BumpsApart'
  <2>1. \A x \in Engines : KillNumber(x, killed[x])'
    BY <1>2, <1>3, <1>6, BumpIsFresh DEF BumpsApart, Typed, CloseKill, history
  <2>2. ASSUME NEW x \in Closes, closes'[x].pc = "reap"
        PROVE  KillNumber(closes[x].engine, closes[x].bumped)'
    <3>1. CASE x = c
      <4>1. closes'[x].engine = e /\ closes'[x].bumped = gen[e] + 1
        BY <1>1, <1>3, <3>1 DEF Typed
      <4> QED BY <1>2, <1>3, <1>6, <4>1, BumpIsFresh
    <3>2. CASE x # c
      <4>1. closes'[x] = closes[x] /\ closes[x].bumped \in Nat /\ closes[x].engine \in Engines
        BY <1>3, <2>2, <3>2 DEF Typed, EnginesNamed
      <4>2. KillNumber(closes[x].engine, closes[x].bumped)
        BY <2>2, <4>1 DEF BumpsApart
      <4> QED BY <1>2, <1>3, <1>6, <4>1, <4>2, BumpIsFresh
    <3> QED BY <3>1, <3>2
  <2>3. ASSUME NEW x \in Opens, opens[x].pc = "reap"
        PROVE  KillNumber(EngineOf(x), opens[x].bumped)'
    <3>1. opens'[x] = opens[x] /\ opens[x].engine \in Engines /\ opens[x].bumped \in Nat
      BY <2>3 DEF CloseKill, Typed, EnginesNamed, EngineOf
    <3>2. KillNumber(opens[x].engine, opens[x].bumped)
      BY <2>3 DEF BumpsApart, EngineOf
    <3> QED BY <1>2, <1>3, <1>6, <3>1, <3>2, BumpIsFresh DEF EngineOf
  <2> QED BY <1>2, <1>3, <1>6, <2>1, <2>2, <2>3, BumpIsFresh DEF BumpsApart, CloseKill
<1>10. KillIsFinal'
    BY <1>6 DEF KillIsFinal, CloseKill, SameSupervisors, history
<1> QED BY <1>4, <1>5, <1>7, <1>8, <1>9, <1>10

\* A reaping empties the slots and records a kill number.
LEMMA Reaped ==
    ASSUME Inv, NEW e \in Engines, NEW g \in Nat, KillNumber(e, g), Reap(e, g), SameSupervisors, gen' = gen
    PROVE  /\ slot' \in [Engines -> Processes \cup {None}]
           /\ service' \in [Engines -> Processes \cup {None}]
           /\ alive' \subseteq Processes /\ killed' \in [Engines -> Nat]
           /\ AttemptsCounted' /\ SlotsOwned' /\ NoStrayService' /\ KillIsFinal'
           /\ \A x \in Engines, n \in Nat : KillNumber(x, n) => KillNumber(x, n)'
           /\ \A x \in Engines : KillNumber(x, killed[x])'
           /\ \A o \in Opens : Supervised(o)' => sups'[o].gen <= gen'[EngineOf(o)']
<1> USE DEF Inv, Typed
<1>1. slot' = [slot EXCEPT ![e] = None] /\ service' = [service EXCEPT ![e] = None] /\ alive' \subseteq alive
    BY DEF Reap
<1>2. killed'[e] \in {g, killed[e]} /\ \A x \in Engines \ {e} : killed'[x] = killed[x]
    BY DEF Reap
<1>3. killed' \in [Engines -> Nat]
    BY DEF Reap
<1>4. AttemptsCounted' /\ SlotsOwned' /\ NoStrayService'
    BY <1>1, SupervisorsKept
<1>5. KillIsFinal'
    BY <1>1, <1>2 DEF KillIsFinal, SameSupervisors
<1>6. \A o \in Opens : /\ Supervised(o)' <=> Supervised(o)
                       /\ Supervised(o) => EngineOf(o)' = EngineOf(o)
    BY DEF SameSupervisors, Supervised, EnginesNamed, EngineOf
<1>7. \A x \in Engines, n \in Nat : KillNumber(x, n) => KillNumber(x, n)'
    BY <1>6 DEF KillNumber, SameSupervisors
<1>8. ASSUME NEW x \in Engines PROVE KillNumber(x, killed[x])'
  <2>1. KillNumber(x, killed'[x])
    BY <1>2 DEF BumpsApart
  <2> QED BY <1>3, <1>7, <2>1
<1>9. \A o \in Opens : Supervised(o)' => sups'[o].gen <= gen'[EngineOf(o)']
    BY <1>6 DEF BumpsApart, SameSupervisors
<1> QED BY <1>1, <1>3, <1>4, <1>5, <1>7, <1>8, <1>9

LEMMA OpenReapStep == ASSUME Inv, NEW o \in Opens, OpenReap(o) PROVE Inv'
<1> USE DEF Inv
<1> DEFINE e == opens[o].engine
           g == opens[o].bumped
<1>1. opens[o] \in [pc : OpenPcs, engine : Engines \cup {None}, errored : BOOLEAN, bumped : Nat]
    BY DEF Typed
<1>2. e \in Engines /\ g \in Nat /\ KillNumber(e, g)
    BY <1>1 DEF OpenReap, EnginesNamed, EngineOf, BumpsApart
<1>3. opens' = [opens EXCEPT ![o].pc = "start"] /\ Reap(e, g)
    BY DEF OpenReap, OpenGoes
<1>4. SameSupervisors
    BY <1>3 DEF OpenReap, SameSupervisors, Typed
<1>5. /\ slot' \in [Engines -> Processes \cup {None}]
      /\ service' \in [Engines -> Processes \cup {None}]
      /\ alive' \subseteq Processes /\ killed' \in [Engines -> Nat]
      /\ AttemptsCounted' /\ SlotsOwned' /\ NoStrayService' /\ KillIsFinal'
      /\ \A x \in Engines, n \in Nat : KillNumber(x, n) => KillNumber(x, n)'
      /\ \A x \in Engines : KillNumber(x, killed[x])'
      /\ \A x \in Opens : Supervised(x)' => sups'[x].gen <= gen'[EngineOf(x)']
    BY <1>2, <1>3, <1>4, Reaped DEF OpenReap
<1>6. Typed'
  <2>1. opens' \in [Opens -> [pc : OpenPcs, engine : Engines \cup {None}, errored : BOOLEAN, bumped : Nat]]
    BY <1>1, <1>3 DEF Typed, OpenPcs
  <2> QED BY <1>5, <2>1 DEF OpenReap, Typed, host
<1>7. Counted'
    BY <1>1, <1>3, NoEngineMade DEF OpenReap, Typed, Ensured, Started, host
<1>8. EnginesNamed'
    BY <1>1, <1>2, <1>3 DEF OpenReap, EnginesNamed, EngineOf, Supervised, Typed
<1>9. BumpsApart'
  <2>1. ASSUME NEW x \in Opens, opens'[x].pc = "reap"
        PROVE  KillNumber(EngineOf(x), opens[x].bumped)'
    <3>1. opens'[x] = opens[x] /\ opens[x].engine \in Engines /\ opens[x].bumped \in Nat
      BY <1>3, <2>1 DEF Typed, EnginesNamed, EngineOf
    <3>2. KillNumber(opens[x].engine, opens[x].bumped)
      BY <2>1, <3>1 DEF BumpsApart, EngineOf
    <3> QED BY <1>5, <3>1, <3>2 DEF EngineOf
  <2>2. ASSUME NEW c \in Closes, closes[c].pc = "reap"
        PROVE  KillNumber(closes[c].engine, closes[c].bumped)'
    <3>1. closes'[c] = closes[c] /\ closes[c].engine \in Engines /\ closes[c].bumped \in Nat
      BY <2>2 DEF OpenReap, Typed, EnginesNamed
    <3>2. KillNumber(closes[c].engine, closes[c].bumped)
      BY <2>2 DEF BumpsApart
    <3> QED BY <1>5, <3>1, <3>2
  <2> QED BY <1>5, <2>1, <2>2 DEF BumpsApart, OpenReap
<1> QED BY <1>5, <1>6, <1>7, <1>8, <1>9

LEMMA CloseReapStep == ASSUME Inv, NEW c \in Closes, CloseReap(c) PROVE Inv'
<1> USE DEF Inv
<1> DEFINE e == closes[c].engine
           g == closes[c].bumped
<1>1. closes[c] \in [pc : ClosePcs, engine : Engines \cup {None}, bumped : Nat]
    BY DEF Typed
<1>2. e \in Engines /\ g \in Nat /\ KillNumber(e, g)
    BY <1>1 DEF CloseReap, EnginesNamed, BumpsApart
<1>3. closes' = [closes EXCEPT ![c].pc = "focus"] /\ Reap(e, g)
    BY DEF CloseReap, CloseGoes
<1>4. SameSupervisors
    BY DEF CloseReap, SameSupervisors
<1>5. /\ slot' \in [Engines -> Processes \cup {None}]
      /\ service' \in [Engines -> Processes \cup {None}]
      /\ alive' \subseteq Processes /\ killed' \in [Engines -> Nat]
      /\ AttemptsCounted' /\ SlotsOwned' /\ NoStrayService' /\ KillIsFinal'
      /\ \A x \in Engines, n \in Nat : KillNumber(x, n) => KillNumber(x, n)'
      /\ \A x \in Engines : KillNumber(x, killed[x])'
      /\ \A x \in Opens : Supervised(x)' => sups'[x].gen <= gen'[EngineOf(x)']
    BY <1>2, <1>3, <1>4, Reaped DEF CloseReap
<1>6. Typed'
  <2>1. closes' \in [Closes -> [pc : ClosePcs, engine : Engines \cup {None}, bumped : Nat]]
    BY <1>1, <1>3 DEF Typed, ClosePcs
  <2> QED BY <1>5, <2>1 DEF CloseReap, Typed, host
<1>7. Counted'
    BY NoEngineMade DEF CloseReap, Typed, Ensured, Started, host
<1>8. EnginesNamed'
    BY <1>1, <1>2, <1>3 DEF CloseReap, EnginesNamed, EngineOf, Supervised, Typed
<1>9. BumpsApart'
  <2>1. ASSUME NEW x \in Closes, closes'[x].pc = "reap"
        PROVE  KillNumber(closes[x].engine, closes[x].bumped)'
    <3>1. closes'[x] = closes[x] /\ closes[x].engine \in Engines /\ closes[x].bumped \in Nat
      BY <1>3, <2>1 DEF Typed, EnginesNamed
    <3>2. KillNumber(closes[x].engine, closes[x].bumped)
      BY <2>1, <3>1 DEF BumpsApart
    <3> QED BY <1>5, <3>1, <3>2
  <2>2. ASSUME NEW x \in Opens, opens[x].pc = "reap"
        PROVE  KillNumber(EngineOf(x), opens[x].bumped)'
    <3>1. opens'[x] = opens[x] /\ opens[x].engine \in Engines /\ opens[x].bumped \in Nat
      BY <2>2 DEF CloseReap, Typed, EnginesNamed, EngineOf
    <3>2. KillNumber(opens[x].engine, opens[x].bumped)
      BY <2>2 DEF BumpsApart, EngineOf
    <3> QED BY <1>5, <3>1, <3>2 DEF EngineOf
  <2> QED BY <1>5, <2>1, <2>2 DEF BumpsApart, CloseReap
<1> QED BY <1>5, <1>6, <1>7, <1>8, <1>9

LEMMA CloseMoveStep ==
    ASSUME Inv, NEW c \in Closes, CloseRemove(c) \/ CloseFocus(c)
    PROVE  Inv'
<1> USE DEF Inv
<1>1. closes[c] \in [pc : ClosePcs, engine : Engines \cup {None}, bumped : Nat]
    BY DEF Typed
<1>2. /\ UNCHANGED Unsupervised /\ UNCHANGED <<opens, made, status, alive, exits, excused>>
      /\ tab' \in {tab, None} /\ focused' \in BOOLEAN
      /\ \A x \in Closes \ {c} : closes'[x] = closes[x]
      /\ closes' \in [Closes -> [pc : ClosePcs, engine : Engines \cup {None}, bumped : Nat]]
      /\ closes'[c].pc # "reap" /\ (closes'[c].pc = "kill" => closes'[c].engine \in Engines)
  <2>1. CASE CloseRemove(c)
    BY <1>1, <2>1 DEF CloseRemove, Typed, Unsupervised, ClosePcs, state, history
  <2>2. CASE CloseFocus(c)
    BY <1>1, <2>2 DEF CloseFocus, CloseGoes, Typed, Unsupervised, ClosePcs, state, history
  <2> QED BY <2>1, <2>2
<1>3. Typed'
    BY <1>2 DEF Typed, Unsupervised
<1>4. Counted'
    BY <1>2, NoEngineMade DEF Typed, Ensured, Started
<1>5. EnginesNamed' /\ AttemptsCounted' /\ SlotsOwned' /\ KillIsFinal' /\ NoStrayService'
    BY <1>2 DEF EnginesNamed, AttemptsCounted, SlotsOwned, KillIsFinal, NoStrayService, Unsupervised,
           EngineOf, Supervised, InAttempt, Busy, Waiting, Process
<1>6. BumpsApart'
    BY <1>2 DEF BumpsApart, KillNumber, Unsupervised, EngineOf, Supervised
<1> QED BY <1>3, <1>4, <1>5, <1>6

-----------------------------------------------------------------------------
(* Supervisors *)

LEMMA OpenClaimStep == ASSUME Inv, NEW o \in Opens, OpenClaim(o) PROVE Inv'
<1> USE DEF Inv
<1> DEFINE e == opens[o].engine
<1>1. opens[o] \in [pc : OpenPcs, engine : Engines \cup {None}, errored : BOOLEAN, bumped : Nat]
    BY DEF Typed
<1>2. e \in Engines /\ gen[e] \in Nat /\ gen[e] + 1 \in Nat
    BY DEF OpenClaim, EnginesNamed, EngineOf, Typed
<1>3. PICK n \in Nat : n = gen[e] + 1
    BY <1>2
<1>4. /\ opens' = [opens EXCEPT ![o].pc = "done"]
      /\ sups' = [sups EXCEPT ![o] = [pc |-> "begin", gen |-> n, attempts |-> 0]]
      /\ gen' = [gen EXCEPT ![e] = n]
      /\ UNCHANGED <<slot, service, killed, closes>>
    BY <1>3 DEF OpenClaim, OpenGoes, Bump
<1>5. Typed'
  <2>1. opens' \in [Opens -> [pc : OpenPcs, engine : Engines \cup {None}, errored : BOOLEAN, bumped : Nat]]
    BY <1>1, <1>4 DEF Typed, OpenPcs
  <2>2. sups' \in [Opens -> [pc : SupPcs, gen : Nat, attempts : 0 .. 2]]
    <3>1. [pc |-> "begin", gen |-> n, attempts |-> 0] \in [pc : SupPcs, gen : Nat, attempts : 0 .. 2]
      BY DEF SupPcs
    <3> QED BY <1>4, <3>1 DEF Typed
  <2>3. gen' \in [Engines -> Nat] /\ excused' \subseteq Engines
    BY <1>2, <1>4 DEF OpenClaim, Typed
  <2> QED BY <1>4, <2>1, <2>2, <2>3 DEF OpenClaim, Typed, host
<1>6. Counted'
    BY <1>1, <1>4, NoEngineMade DEF OpenClaim, Typed, Ensured, Started, host
<1>7. ~Supervised(o)
    BY OpenHasNone DEF OpenClaim
<1>8. \A x \in Opens \ {o} : /\ sups'[x] = sups[x] /\ opens'[x] = opens[x]
                             /\ Supervised(x)' <=> Supervised(x)
    BY <1>4 DEF Supervised, Typed
<1>9. sups'[o] = [pc |-> "begin", gen |-> n, attempts |-> 0] /\ opens'[o].engine = e /\ opens'[o].pc = "done"
    BY <1>1, <1>4 DEF Typed
<1>10. EnginesNamed' /\ AttemptsCounted'
    BY <1>2, <1>4, <1>8, <1>9 DEF EnginesNamed, AttemptsCounted, EngineOf, Supervised
<1>11. \A x \in Engines, g \in Nat : KillNumber(x, g) => KillNumber(x, g)'
  <2> SUFFICES ASSUME NEW x \in Engines, NEW g \in Nat, KillNumber(x, g) PROVE KillNumber(x, g)'
    OBVIOUS
  <2>1. g <= gen[x] /\ gen[x] \in Nat
    BY DEF KillNumber, Typed
  <2>2. g <= gen'[x] /\ (x = e => g # n)
    BY <1>2, <1>3, <1>4, <2>1 DEF Typed
  <2>3. \A y \in Opens : Supervised(y)' /\ EngineOf(y)' = x => sups'[y].gen # g
    BY <1>8, <1>9, <2>2 DEF KillNumber, EngineOf
  <2> QED BY <2>2, <2>3 DEF KillNumber
<1>12. BumpsApart'
  <2>1. ASSUME NEW x \in Opens, Supervised(x)' PROVE sups'[x].gen <= gen'[EngineOf(x)']
    <3>1. CASE x = o
      BY <1>2, <1>4, <1>9, <3>1 DEF EngineOf, Typed
    <3>2. CASE x # o
      <4>1. sups[x].gen <= gen[EngineOf(x)] /\ EngineOf(x) \in Engines /\ EngineOf(x)' = EngineOf(x)
        BY <1>8, <2>1, <3>2 DEF BumpsApart, EnginesNamed, EngineOf
      <4>2. sups'[x].gen \in Nat /\ sups'[x] = sups[x]
        BY <1>8, <3>2 DEF Typed
      <4>3. /\ gen[EngineOf(x)] \in Nat /\ gen'[EngineOf(x)] \in Nat
            /\ gen[EngineOf(x)] <= gen'[EngineOf(x)]
        BY <1>2, <1>3, <1>4, <4>1 DEF Typed
      <4> QED BY <4>1, <4>2, <4>3
    <3> QED BY <3>1, <3>2
  <2>2. \A x \in Engines : KillNumber(x, killed[x])'
    BY <1>4, <1>11 DEF BumpsApart, Typed
  <2>3. ASSUME NEW x \in Opens, opens'[x].pc = "reap" PROVE KillNumber(EngineOf(x), opens[x].bumped)'
    <3>1. opens'[x] = opens[x] /\ opens[x].engine \in Engines /\ opens[x].bumped \in Nat
      BY <1>8, <1>9, <2>3 DEF Typed, EnginesNamed, EngineOf
    <3>2. KillNumber(opens[x].engine, opens[x].bumped)
      BY <2>3, <3>1 DEF BumpsApart, EngineOf
    <3> QED BY <1>11, <3>1, <3>2 DEF EngineOf
  <2>4. ASSUME NEW c \in Closes, closes[c].pc = "reap" PROVE KillNumber(closes[c].engine, closes[c].bumped)'
    <3>1. closes'[c] = closes[c] /\ closes[c].engine \in Engines /\ closes[c].bumped \in Nat
      BY <1>4, <2>4 DEF Typed, EnginesNamed
    <3>2. KillNumber(closes[c].engine, closes[c].bumped)
      BY <2>4 DEF BumpsApart
    <3> QED BY <1>11, <3>1, <3>2
  <2> QED BY <1>4, <2>1, <2>2, <2>3, <2>4 DEF BumpsApart
<1>13. SlotsOwned' /\ KillIsFinal'
  <2>1. \A x \in Engines : slot[x] # None => Owner(slot[x]) \in Opens \ {o}
    BY <1>7, Owners DEF SlotsOwned, Typed
  <2> QED BY <1>4, <1>8, <2>1 DEF SlotsOwned, KillIsFinal, EngineOf
<1>14. NoStrayService'
  <2>1. \A x \in Engines : service[x] # None => Owner(service[x]) \in Opens \ {o}
    BY <1>7, Owners DEF NoStrayService, Typed, InAttempt, Busy, Waiting, Supervised
  <2>2. \A x \in Engines, s \in Opens \ {o} : InAttempt(s, x) => InAttempt(s, x)'
    BY <1>4, <1>8 DEF InAttempt, Busy, Waiting, Process
  <2> QED BY <1>4, <2>1, <2>2 DEF NoStrayService
<1> QED BY <1>5, <1>6, <1>10, <1>12, <1>13, <1>14

Held == {"spawn", "store", "ready", "wait", "gone", "exited"}

Fills(o, e) == Supervised(o) /\ EngineOf(o) = e /\ sups[o].gen > killed[e]

AttemptCounted(s) ==
    /\ s.pc \in {"begin", "announce", "resolve", "loop", "restart"} => s.attempts <= 1
    /\ s.pc \in {"service", "spawn", "store", "ready", "wait", "gone", "exited"} => s.attempts \in Attempts

\* A supervisor moves on: it empties slots, fills the one of its engine under its own
\* generation, and fills the service's for the attempt it is in.
LEMMA SupMoves ==
    ASSUME Inv, Typed', NEW o \in Opens, Supervised(o),
           UNCHANGED <<host, gen, opens, closes, killed>>,
           \A x \in Opens \ {o} : sups'[x] = sups[x],
           sups'[o].gen = sups[o].gen, sups'[o].pc # "none", AttemptCounted(sups'[o]),
           \A e \in Engines : slot'[e] # None =>
               \/ slot'[e] = slot[e]
               \/ e = EngineOf(o) /\ Owner(slot'[e]) = o /\ sups[o].gen > killed[e],
           \A e \in Engines : service'[e] # None =>
               \/ service'[e] = service[e]
               \/ e = EngineOf(o) /\ service'[e] = Process(o)' /\ sups'[o].pc \in Held,
           \/ sups'[o].attempts = sups[o].attempts /\ sups'[o].pc \in Held
           \/ sups[o].pc \notin Held
           \/ service'[EngineOf(o)] = None
    PROVE  Inv'
<1> USE DEF Inv
<1>1. \A x \in Opens : sups'[x].gen = sups[x].gen /\ (Supervised(x)' <=> Supervised(x))
    BY DEF Supervised
<1>2. Counted'
    BY NoEngineMade DEF Typed, Ensured, Started, host
<1>3. EnginesNamed'
    BY <1>1 DEF EnginesNamed, EngineOf
<1>4. AttemptsCounted'
    BY DEF AttemptsCounted, AttemptCounted
<1>5. BumpsApart'
  <2>1. \A x, g : KillNumber(x, g) => KillNumber(x, g)'
    BY <1>1 DEF KillNumber, EngineOf
  <2>2. \A x \in Opens : Supervised(x)' => sups'[x].gen <= gen'[EngineOf(x)']
    BY <1>1 DEF BumpsApart, EngineOf
  <2>3. \A e \in Engines : KillNumber(e, killed[e])'
    BY <2>1 DEF BumpsApart
  <2>4. \A x \in Opens : opens[x].pc = "reap" => KillNumber(EngineOf(x), opens[x].bumped)'
    BY <2>1 DEF BumpsApart, EngineOf
  <2>5. \A c \in Closes : closes[c].pc = "reap" => KillNumber(closes[c].engine, closes[c].bumped)'
    BY <2>1 DEF BumpsApart
  <2> QED BY <2>2, <2>3, <2>4, <2>5 DEF BumpsApart
<1>6. SlotsOwned' /\ KillIsFinal'
  <2> SUFFICES ASSUME NEW e \in Engines, slot'[e] # None
               PROVE  Fills(Owner(slot[e]), e)'
    BY DEF SlotsOwned, KillIsFinal, Fills
  <2>1. CASE slot'[e] = slot[e]
    <3>1. Owner(slot[e]) \in Opens /\ Fills(Owner(slot[e]), e)
      BY <2>1, Owners DEF Typed, SlotsOwned, KillIsFinal, Fills
    <3>2. \A x \in Opens : Fills(x, e) => Fills(x, e)'
      BY <1>1 DEF Fills, EngineOf
    <3> QED BY <2>1, <3>1, <3>2
  <2>2. CASE slot'[e] # slot[e]
    BY <1>1, <2>2 DEF Fills, EngineOf
  <2> QED BY <2>1, <2>2
<1>7. NoStrayService'
  <2> SUFFICES ASSUME NEW e \in Engines, service'[e] # None
               PROVE  InAttempt(Owner(service[e]), e)'
    BY DEF NoStrayService
  <2>1. CASE service'[e] = service[e]
    <3>1. Owner(service[e]) \in Opens /\ InAttempt(Owner(service[e]), e)
      BY <2>1, Owners DEF Typed, NoStrayService
    <3>2. CASE Owner(service[e]) # o
      BY <2>1, <3>1, <3>2 DEF InAttempt, Busy, Waiting, Process
    <3>3. CASE Owner(service[e]) = o
      <4>1. sups[o].pc \in Held /\ EngineOf(o) = e
        BY <3>1, <3>3 DEF InAttempt, Busy, Waiting, Held, EngineOf
      <4>2. sups'[o].attempts = sups[o].attempts /\ sups'[o].pc \in Held
        BY <4>1
      <4> QED BY <2>1, <3>1, <3>3, <4>2 DEF InAttempt, Busy, Waiting, Process, Held
    <3> QED BY <3>2, <3>3
  <2>2. CASE service'[e] # service[e]
    <3>1. service'[e] = Process(o)' /\ e = EngineOf(o) /\ sups'[o].pc \in Held
      BY <2>2
    <3>2. Owner(service'[e]) = o
      BY <3>1 DEF Process, Owner
    <3> QED BY <3>1, <3>2 DEF InAttempt, Busy, Waiting, Held, EngineOf
  <2> QED BY <2>1, <2>2
<1> QED BY <1>2, <1>3, <1>4, <1>5, <1>6, <1>7

\* SupGoes changes the step and nothing else.
LEMMA SupGoesOn ==
    ASSUME Typed, NEW o \in Opens, NEW pc \in SupPcs, SupGoes(o, pc)
    PROVE  /\ sups' \in [Opens -> [pc : SupPcs, gen : Nat, attempts : 0 .. 2]]
           /\ \A x \in Opens \ {o} : sups'[x] = sups[x]
           /\ sups'[o].pc = pc /\ sups'[o].gen = sups[o].gen /\ sups'[o].attempts = sups[o].attempts
<1>1. sups[o] \in [pc : SupPcs, gen : Nat, attempts : 0 .. 2]
    BY DEF Typed
<1> QED BY <1>1 DEF SupGoes, Typed

LEMMA SupWalks ==
    ASSUME Inv, NEW o \in Opens, SupBegin(o) \/ SupResolve(o)
    PROVE  Inv'
<1> USE DEF Inv
<1>1. PICK pc \in {"announce", "done", "loop", "fail"} : SupGoes(o, pc)
    BY DEF SupBegin, SupResolve
<1>2. /\ sups[o].pc \in {"begin", "resolve"} /\ sups[o].attempts <= 1
      /\ UNCHANGED <<host, gen, slot, service, status, opens, closes, alive, exits, killed, excused>>
    BY DEF SupBegin, SupResolve, AttemptsCounted, state, history
<1>3. Typed'
    BY <1>1, <1>2, SupGoesOn DEF Typed, SupPcs, host
<1>4. AttemptCounted(sups'[o])
    BY <1>1, <1>2, SupGoesOn DEF AttemptCounted, SupPcs
<1> QED BY <1>1, <1>2, <1>3, <1>4, SupGoesOn, SupMoves DEF SupPcs, Held, Supervised

LEMMA SupAnnounceStep == ASSUME Inv, NEW o \in Opens, SupAnnounce(o) PROVE Inv'
<1> USE DEF Inv
<1>1. PICK step \in {<<"announce", "provisioning", "resolve">>, <<"ready", "ready", "wait">>,
                     <<"fail", "error", "done">>, <<"restart", "error", "loop">>} :
          sups[o].pc = step[1] /\ SetStatus(o, step[2]) /\ SupGoes(o, step[3])
    BY DEF SupAnnounce
<1>2. /\ Supervised(o) /\ AttemptCounted(sups[o])
      /\ UNCHANGED <<host, gen, slot, service, opens, closes, alive, exits, killed>>
      /\ opens[o].engine \in Engines
    BY <1>1 DEF SupAnnounce, Supervised, AttemptsCounted, AttemptCounted, EnginesNamed, EngineOf
<1>3. status' \in [Engines -> {"provisioning", "ready", "error"}] /\ excused' \subseteq Engines
    BY <1>1, <1>2 DEF SupAnnounce, SetStatus, Typed
<1>4. Typed'
    BY <1>1, <1>2, <1>3, SupGoesOn DEF Typed, SupPcs, host
<1>5. AttemptCounted(sups'[o])
    BY <1>1, <1>2, SupGoesOn DEF AttemptCounted, SupPcs
<1> QED BY <1>1, <1>2, <1>4, <1>5, SupGoesOn, SupMoves DEF SupPcs, Held

LEMMA SupLoopStep == ASSUME Inv, NEW o \in Opens, SupLoop(o) PROVE Inv'
<1> USE DEF Inv
<1>1. sups[o] \in [pc : SupPcs, gen : Nat, attempts : 0 .. 2] /\ sups[o].pc = "loop" /\ sups[o].attempts <= 1
    BY DEF SupLoop, Typed, AttemptsCounted
<1>2. /\ Supervised(o)
      /\ UNCHANGED <<host, gen, slot, service, status, opens, closes, alive, exits, killed, excused>>
    BY <1>1 DEF SupLoop, Supervised, state, history
<1>3. /\ sups' \in [Opens -> [pc : SupPcs, gen : Nat, attempts : 0 .. 2]]
      /\ \A x \in Opens \ {o} : sups'[x] = sups[x]
      /\ sups'[o].gen = sups[o].gen /\ sups'[o].pc # "none" /\ AttemptCounted(sups'[o])
  <2>1. CASE Current(o)
    <3>1. sups' = [sups EXCEPT ![o].pc = "service", ![o].attempts = @ + 1]
      BY <2>1 DEF SupLoop
    <3> QED BY <1>1, <3>1 DEF Typed, SupPcs, AttemptCounted, Attempts
  <2>2. CASE ~Current(o)
    <3>1. sups' = [sups EXCEPT ![o].pc = "done"]
      BY <2>2 DEF SupLoop
    <3> QED BY <1>1, <3>1 DEF Typed, SupPcs, AttemptCounted
  <2> QED BY <2>1, <2>2
<1>4. Typed'
    BY <1>2, <1>3 DEF Typed, host
<1> QED BY <1>1, <1>2, <1>3, <1>4, SupMoves DEF Held

\* What the attempt of a supervisor under way is called.
LEMMA ProcessTyped ==
    ASSUME Inv, NEW o \in Opens, sups[o].pc \in {"service", "spawn", "store"}
    PROVE  Process(o) \in Processes /\ Owner(Process(o)) = o /\ Supervised(o) /\ EngineOf(o) \in Engines
BY DEF Inv, AttemptsCounted, Process, Processes, Owner, Supervised, EnginesNamed

LEMMA SupServiceStep == ASSUME Inv, NEW o \in Opens, SupService(o) PROVE Inv'
<1> USE DEF Inv
<1>1. Process(o) \in Processes /\ Supervised(o) /\ EngineOf(o) \in Engines /\ sups[o].pc = "service"
    BY ProcessTyped DEF SupService
<1>2. UNCHANGED <<host, gen, slot, status, opens, closes, alive, exits, killed, excused>>
    BY DEF SupService, history
<1>3. PICK p \in {Process(o), None}, pc \in {"spawn", "fail"} :
          /\ service' = [service EXCEPT ![EngineOf(o)] = p] /\ SupGoes(o, pc)
          /\ p # None => pc = "spawn"
    BY DEF SupService, ServiceBecomes, EngineOf
<1>4. Typed'
    BY <1>1, <1>2, <1>3, SupGoesOn DEF Typed, SupPcs, host
<1>5. AttemptCounted(sups'[o])
    BY <1>1, <1>3, SupGoesOn DEF AttemptCounted, SupPcs, AttemptsCounted
<1>6. Process(o)' = Process(o)
    BY <1>3, SupGoesOn DEF Process, SupPcs
<1>7. \A e \in Engines : service'[e] # None =>
          \/ service'[e] = service[e]
          \/ e = EngineOf(o) /\ service'[e] = Process(o)' /\ sups'[o].pc \in Held
    BY <1>1, <1>3, <1>6, SupGoesOn DEF Typed, SupPcs, Held
<1> QED BY <1>1, <1>2, <1>3, <1>4, <1>5, <1>7, SupGoesOn, SupMoves DEF SupPcs, Held

LEMMA SupSpawnStep == ASSUME Inv, NEW o \in Opens, SupSpawn(o) PROVE Inv'
<1> USE DEF Inv
<1>1. Process(o) \in Processes /\ Supervised(o) /\ EngineOf(o) \in Engines /\ sups[o].pc = "spawn"
    BY ProcessTyped DEF SupSpawn
<1>2. UNCHANGED <<host, gen, slot, status, opens, closes, exits, killed, excused>>
    BY DEF SupSpawn, history
<1>3. PICK pc \in {"store", "fail"} :
          /\ SupGoes(o, pc) /\ alive' \subseteq Processes
          /\ \/ pc = "store" /\ service' = service
             \/ pc = "fail" /\ service' = [service EXCEPT ![EngineOf(o)] = None]
    BY <1>1 DEF SupSpawn, ServiceBecomes, EngineOf, Typed
<1>4. Typed'
  <2>1. Typed /\ pc \in SupPcs /\ None \in Processes \cup {None}
    BY <1>3 DEF SupPcs
  <2>2. sups' \in [Opens -> [pc : SupPcs, gen : Nat, attempts : 0 .. 2]]
    BY <1>3, <2>1, SupGoesOn
  <2>3. service' \in [Engines -> Processes \cup {None}]
    BY <1>3, <2>1 DEF Typed
  <2> QED BY <1>2, <1>3, <2>1, <2>2, <2>3 DEF Typed, host
<1>5. AttemptCounted(sups'[o])
    BY <1>1, <1>3, SupGoesOn DEF AttemptCounted, SupPcs, AttemptsCounted
<1>6. \A e \in Engines : service'[e] # None => service'[e] = service[e]
    BY <1>1, <1>3 DEF Typed
<1>7. \/ sups'[o].attempts = sups[o].attempts /\ sups'[o].pc \in Held
      \/ service'[EngineOf(o)] = None
    BY <1>1, <1>3, SupGoesOn DEF Typed, SupPcs, Held
<1> QED BY <1>1, <1>2, <1>3, <1>4, <1>5, <1>6, <1>7, SupGoesOn, SupMoves DEF SupPcs

\* The child is stored under the generation that is current, which is no kill's.
LEMMA SupStoreStep == ASSUME Inv, NEW o \in Opens, SupStore(o) PROVE Inv'
<1> USE DEF Inv
<1>1. /\ Process(o) \in Processes /\ Owner(Process(o)) = o /\ Supervised(o) /\ EngineOf(o) \in Engines
      /\ sups[o].pc = "store"
    BY ProcessTyped DEF SupStore
<1>2. UNCHANGED <<host, gen, status, opens, closes, exits, killed, excused>>
    BY DEF SupStore, history
<1>3. CASE Current(o)
  <2>1. /\ SupGoes(o, "ready") /\ UNCHANGED <<service, alive>>
        /\ slot' = [slot EXCEPT ![EngineOf(o)] = Process(o)]
    BY <1>3 DEF SupStore, EngineOf
  <2>2. sups[o].gen > killed[EngineOf(o)]
    <3>1. /\ killed[EngineOf(o)] <= gen[EngineOf(o)] /\ sups[o].gen # killed[EngineOf(o)]
          /\ gen[EngineOf(o)] = sups[o].gen
      BY <1>1, <1>3 DEF BumpsApart, KillNumber, Current, EngineOf
    <3>2. killed[EngineOf(o)] \in Nat /\ gen[EngineOf(o)] \in Nat
      BY <1>1 DEF Typed
    <3> QED BY <3>1, <3>2
  <2>3. Typed'
    BY <1>1, <1>2, <2>1, SupGoesOn DEF Typed, SupPcs, host
  <2>4. AttemptCounted(sups'[o])
    BY <1>1, <2>1, SupGoesOn DEF AttemptCounted, SupPcs, AttemptsCounted
  <2>5. \A e \in Engines : slot'[e] # None =>
            \/ slot'[e] = slot[e]
            \/ e = EngineOf(o) /\ Owner(slot'[e]) = o /\ sups[o].gen > killed[e]
    BY <1>1, <2>1, <2>2 DEF Typed
  <2> QED BY <1>1, <1>2, <2>1, <2>3, <2>4, <2>5, SupGoesOn, SupMoves DEF SupPcs, Held
<1>4. CASE ~Current(o)
  <2>1. /\ SupGoes(o, "done") /\ slot' = slot /\ alive' \subseteq alive
        /\ service' = [service EXCEPT ![EngineOf(o)] = None]
    BY <1>4 DEF SupStore, ServiceBecomes, EngineOf
  <2>2. Typed'
    BY <1>1, <1>2, <2>1, SupGoesOn DEF Typed, SupPcs, host
  <2>3. AttemptCounted(sups'[o])
    BY <1>1, <2>1, SupGoesOn DEF AttemptCounted, SupPcs
  <2>4. (\A e \in Engines : service'[e] # None => service'[e] = service[e]) /\ service'[EngineOf(o)] = None
    BY <1>1, <2>1 DEF Typed
  <2> QED BY <1>1, <1>2, <2>1, <2>2, <2>3, <2>4, SupGoesOn, SupMoves DEF SupPcs
<1> QED BY <1>3, <1>4

LEMMA SupPollStep == ASSUME Inv, NEW o \in Opens, SupPoll(o) PROVE Inv'
<1> USE DEF Inv
<1>1. sups[o].pc = "wait" /\ Supervised(o) /\ EngineOf(o) \in Engines
    BY DEF SupPoll, Waiting, Supervised, EnginesNamed
<1>2. UNCHANGED <<host, gen, service, status, opens, closes, alive, exits, killed>>
    BY DEF SupPoll
<1>3. PICK pc \in {"gone", "exited"} : SupGoes(o, pc)
    BY DEF SupPoll
<1>4. slot' = [slot EXCEPT ![EngineOf(o)] = None] /\ excused' \subseteq Engines
    BY <1>1 DEF SupPoll, EngineOf, Typed
<1>5. Typed'
    BY <1>1, <1>2, <1>3, <1>4, SupGoesOn DEF Typed, SupPcs, host
<1>6. AttemptCounted(sups'[o])
    BY <1>1, <1>3, SupGoesOn DEF AttemptCounted, SupPcs, AttemptsCounted
<1>7. \A e \in Engines : slot'[e] # None => slot'[e] = slot[e]
    BY <1>1, <1>4 DEF Typed
<1> QED BY <1>1, <1>2, <1>3, <1>5, <1>6, <1>7, SupGoesOn, SupMoves DEF SupPcs, Held

LEMMA SupAfterStep == ASSUME Inv, NEW o \in Opens, SupAfter(o) PROVE Inv'
<1> USE DEF Inv
<1>1. sups[o].pc \in {"gone", "exited"} /\ Supervised(o) /\ EngineOf(o) \in Engines
    BY DEF SupAfter, Supervised, EnginesNamed
<1>2. UNCHANGED <<host, gen, slot, status, opens, closes, alive, exits, killed, excused>>
    BY DEF SupAfter, history
<1>3. PICK pc \in {"done", "fail", "restart"} : SupGoes(o, pc) /\ (pc = "restart" => sups[o].attempts < 2)
  <2>1. sups[o].attempts \in 1 .. 2
    BY <1>1 DEF AttemptsCounted, Attempts
  <2> QED BY <2>1 DEF SupAfter, AfterExit
<1>4. service' = [service EXCEPT ![EngineOf(o)] = None]
    BY DEF SupAfter, ServiceBecomes, EngineOf
<1>5. Typed'
    BY <1>1, <1>2, <1>3, <1>4, SupGoesOn DEF Typed, SupPcs, host
<1>6. AttemptCounted(sups'[o])
  <2>1. sups[o].attempts \in 0 .. 2
    BY DEF Typed
  <2> QED BY <1>3, <2>1, SupGoesOn DEF AttemptCounted, SupPcs
<1>7. (\A e \in Engines : service'[e] # None => service'[e] = service[e]) /\ service'[EngineOf(o)] = None
    BY <1>1, <1>4 DEF Typed
<1> QED BY <1>1, <1>2, <1>3, <1>5, <1>6, <1>7, SupGoesOn, SupMoves DEF SupPcs

LEMMA ProcessExitsStep == ASSUME Inv, NEW p \in Processes, ProcessExits(p) PROVE Inv'
<1> USE DEF Inv
<1>1. UNCHANGED <<host, state, threads, history>> /\ alive' \subseteq alive /\ exits' \in 0 .. MaxExits
    BY ExitsNatural DEF ProcessExits, Typed
<1>2. Typed'
    BY <1>1 DEF Typed, host, state, threads, history
<1>3. Counted'
    BY <1>1, NoEngineMade DEF Typed, Ensured, Started, host, threads
<1>4. EnginesNamed' /\ AttemptsCounted' /\ SlotsOwned' /\ KillIsFinal' /\ NoStrayService'
    BY <1>1 DEF EnginesNamed, AttemptsCounted, SlotsOwned, KillIsFinal, NoStrayService, InAttempt,
           EngineOf, Supervised, Busy, Waiting, Process, host, state, threads, history
<1>5. BumpsApart'
    BY <1>1 DEF BumpsApart, KillNumber, EngineOf, Supervised, state, threads, history
<1> QED BY <1>2, <1>3, <1>4, <1>5

-----------------------------------------------------------------------------
(* Who serves an open tab *)

\* An open that will still start a supervisor for e, if e stays in the table.
Pending(e) ==
    \E o \in Opens :
        \/ opens[o].pc \in {"kill", "reap", "start"}
        \/ opens[o].pc = "provision" /\ EngineOf(o) = e

Calm(e) == tab = e /\ e \notin excused /\ ~Pending(e)
Watches(o, e) == EngineOf(o) = e /\ Current(o) /\ sups[o].pc \notin {"none", "done"}

\* A generation is claimed once, so at most one supervisor of an engine is current.
GensApart ==
    \A o, x \in Opens :
        o # x /\ Supervised(o) /\ Supervised(x) /\ EngineOf(o) = EngineOf(x) => sups[o].gen # sups[x].gen

\* An engine that is being closed is not the one in the table, and never will be.
ClosedApart ==
    /\ tab # None => tab <= made
    /\ \A c \in Closes :
           closes[c].pc \in {"kill", "reap"} => closes[c].engine # tab /\ closes[c].engine <= made

Served(e) == Calm(e) => status[e] = "error" \/ \E o \in Opens : Watches(o, e)

\* The supervisor that is current has the slot while it waits, and is not the one
\* that finds it empty.
Holds(e) ==
    Calm(e) =>
        \A o \in Opens :
            Watches(o, e) =>
                /\ sups[o].pc # "gone"
                /\ sups[o].pc \in {"ready", "wait"} => slot[e] # None /\ Owner(slot[e]) = o

TabServed == GensApart /\ ClosedApart /\ \A e \in Engines : Served(e) /\ Holds(e)

LEMMA InitServed == Init => TabServed
BY NoneAssumption DEF Init, TabServed, GensApart, ClosedApart, Served, Holds, Calm, Supervised

\* At most one supervisor of an engine watches it.
LEMMA OneWatches ==
    ASSUME Inv, GensApart, NEW o \in Opens, Supervised(o), Current(o),
           NEW x \in Opens, Watches(x, EngineOf(o))
    PROVE  x = o
BY DEF GensApart, Watches, Current, Supervised, EngineOf

\* A step that leaves the slot, the status and the watchers of an engine alone.
LEMMA StillServed ==
    ASSUME NEW e \in Engines, Served(e), Holds(e), Calm(e)' => Calm(e),
           status'[e] = status[e], slot'[e] = slot[e],
           \A o \in Opens : /\ Watches(o, e) <=> Watches(o, e)'
                            /\ Watches(o, e) => sups'[o].pc = sups[o].pc
    PROVE  Served(e)' /\ Holds(e)'
BY DEF Served, Holds

\* A step of an open that ends or moves on without a claim, and of a close.
LEMMA SameWatchers ==
    ASSUME Inv, SameSupervisors
    PROVE  /\ GensApart => GensApart'
           /\ \A e \in Engines, o \in Opens : gen'[e] = gen[e] =>
                  /\ Watches(o, e) <=> Watches(o, e)'
                  /\ Watches(o, e) => sups'[o].pc = sups[o].pc
<1>1. \A o \in Opens : Supervised(o) => opens'[o] = opens[o]
    BY DEF Inv, EnginesNamed, SameSupervisors
<1>2. \A o \in Opens : Supervised(o) <=> Supervised(o)'
    BY DEF SameSupervisors, Supervised
<1>3. GensApart => GensApart'
    BY <1>1, <1>2 DEF GensApart, EngineOf, SameSupervisors
<1>4. ASSUME NEW e \in Engines, NEW o \in Opens, gen'[e] = gen[e]
      PROVE  /\ Watches(o, e) <=> Watches(o, e)'
             /\ Watches(o, e) => sups'[o].pc = sups[o].pc
    BY <1>1, <1>2, <1>4 DEF Watches, Current, EngineOf, SameSupervisors, Supervised
<1> QED BY <1>3, <1>4

LEMMA OpenKeepsServed ==
    ASSUME Inv, Inv', TabServed, NEW o \in Opens,
           \/ OpenCheck(o) \/ OpenEnsure(o) \/ OpenKill(o) \/ OpenReap(o) \/ OpenStart(o) \/ OpenFails(o)
    PROVE  TabServed'
<1> USE DEF TabServed
<1>1. /\ opens[o].pc # "done" /\ sups' = sups /\ closes' = closes
      /\ \A x \in Opens \ {o} : opens'[x] = opens[x]
      /\ excused \subseteq excused' /\ status' = status
    BY DEF OpenCheck, OpenEnsure, OpenKill, OpenReap, OpenStart, OpenFails, OpenGoes, state, history,
           Inv, Typed
<1>2. SameSupervisors
    BY <1>1 DEF SameSupervisors
<1>3. GensApart'
    BY <1>2, SameWatchers
<1>4. \/ tab' = tab /\ made' = made
      \/ tab = None /\ made' = made + 1 /\ tab' = made + 1
  <2>1. CASE OpenEnsure(o) \/ OpenStart(o)
    BY <2>1 DEF OpenEnsure, OpenStart
  <2>2. CASE OpenCheck(o) \/ OpenKill(o) \/ OpenReap(o) \/ OpenFails(o)
    BY <2>2 DEF OpenCheck, OpenKill, OpenReap, OpenFails, host
  <2> QED BY <2>1, <2>2
<1>5. ClosedApart'
  <2>1. made \in Nat /\ \A c \in Closes : closes[c].pc \in {"kill", "reap"} => closes[c].engine \in Nat
    BY DEF Inv, Typed, EnginesNamed, Engines
  <2> QED BY <1>1, <1>4, <2>1 DEF ClosedApart
<1>6. ASSUME NEW e \in Engines PROVE Served(e)' /\ Holds(e)'
  <2>1. opens[o] \in [pc : OpenPcs, engine : Engines \cup {None}, errored : BOOLEAN, bumped : Nat]
    BY DEF Inv, Typed
  <2>2. CASE \/ OpenCheck(o) \/ OpenFails(o)
             \/ OpenEnsure(o) /\ opens'[o].pc = "done"
    <3>1. /\ tab' = tab /\ gen' = gen /\ slot' = slot /\ opens'[o].pc \in {"ensure", "done"}
          /\ opens[o].pc = "provision" /\ EngineOf(o) = e => e \in excused'
          /\ opens[o].pc \notin {"kill", "reap", "start"}
      BY <2>1, <2>2 DEF OpenCheck, OpenEnsure, OpenFails, OpenGoes, host, state, Inv, Typed, EngineOf
    <3>2. Calm(e)' => Calm(e)
      BY <1>1, <3>1 DEF Calm, Pending, EngineOf
    <3> QED BY <1>1, <1>2, <3>1, <3>2, SameWatchers, StillServed
  <2>3. CASE \/ OpenKill(o) \/ OpenReap(o)
             \/ OpenEnsure(o) /\ opens'[o].pc # "done"
    <3>1. opens'[o].pc \in {"kill", "reap", "start"}
      BY <2>1, <2>3 DEF OpenKill, OpenReap, OpenEnsure, OpenGoes, Inv, Typed
    <3> QED BY <3>1 DEF Served, Holds, Calm, Pending
  <2>4. CASE OpenStart(o)
    <3>1. opens'[o].pc = "provision" /\ EngineOf(o)' = tab'
      BY <2>1, <2>4 DEF OpenStart, EngineOf, Inv, Typed
    <3> QED BY <3>1 DEF Served, Holds, Calm, Pending
  <2> QED BY <2>2, <2>3, <2>4
<1> QED BY <1>3, <1>5, <1>6, Zenon DEF TabServed

\* The claim makes its supervisor the one that is current.
LEMMA ClaimServes ==
    ASSUME Inv, Inv', TabServed, NEW o \in Opens, OpenClaim(o)
    PROVE  TabServed'
<1> USE DEF TabServed
<1> PICK e \in Engines : e = opens[o].engine
  BY DEF OpenClaim, EnginesNamed, EngineOf, Inv
<1>1. /\ gen[e] \in Nat /\ gen' = [gen EXCEPT ![e] = gen[e] + 1] /\ gen'[e] = gen[e] + 1
      /\ \A x \in Opens \ {o} : opens'[x] = opens[x] /\ sups'[x] = sups[x]
      /\ opens'[o].engine = e /\ opens'[o].pc = "done" /\ opens[o].pc = "provision"
      /\ UNCHANGED <<tab, made, slot, status, closes>> /\ excused' = excused \ {e}
      /\ ~Supervised(o)
    BY DEF OpenClaim, OpenGoes, Bump, EnginesNamed, EngineOf, Inv, Typed, host
<1>2. sups'[o].pc = "begin" /\ sups'[o].gen = gen[e] + 1
    BY <1>1 DEF OpenClaim, Inv, Typed
<1>3. \A x \in Opens : Supervised(x) /\ EngineOf(x) = e => sups[x].gen # gen[e] + 1
    BY <1>1 DEF Inv, Typed, BumpsApart
<1>4. GensApart'
  <2> SUFFICES ASSUME NEW x \in Opens, NEW y \in Opens, x # y, Supervised(x)', Supervised(y)',
                      EngineOf(x)' = EngineOf(y)'
               PROVE  sups'[x].gen # sups'[y].gen
    BY DEF GensApart
  <2>1. CASE x # o /\ y # o
    BY <1>1, <2>1 DEF GensApart, Supervised, EngineOf
  <2>2. CASE x = o \/ y = o
    BY <1>1, <1>2, <1>3, <2>2 DEF Supervised, EngineOf
  <2> QED BY <2>1, <2>2
<1>5. ClosedApart'
    BY <1>1 DEF ClosedApart
<1>6. Served(e)' /\ Holds(e)'
  <2>1. Watches(o, e)'
    BY <1>1, <1>2 DEF Watches, Current, EngineOf
  <2>2. \A x \in Opens : Watches(x, e)' => x = o
    BY <1>1, <1>3 DEF Watches, Current, EngineOf, Supervised
  <2> QED BY <1>2, <2>1, <2>2 DEF Served, Holds
<1>7. ASSUME NEW x \in Engines, x # e PROVE Served(x)' /\ Holds(x)'
  <2>1. Calm(x)' => Calm(x)
    BY <1>1, <1>7 DEF Calm, Pending, EngineOf
  <2>2. \A y \in Opens : /\ Watches(y, x) <=> Watches(y, x)'
                         /\ Watches(y, x) => sups'[y].pc = sups[y].pc
    BY <1>1, <1>7 DEF Watches, Current, EngineOf
  <2> QED BY <1>1, <2>1, <2>2, StillServed
<1>8. \A x \in Engines : Served(x)' /\ Holds(x)'
  BY <1>6, <1>7
<1> QED BY <1>4, <1>5, <1>8, Zenon DEF TabServed

LEMMA CloseKeepsServed ==
    ASSUME Inv, Inv', TabServed, NEW c \in Closes, CloseStep(c)
    PROVE  TabServed'
<1> USE DEF TabServed
<1>1. /\ opens' = opens /\ sups' = sups /\ made' = made /\ excused' = excused /\ status' = status
      /\ \A x \in Closes \ {c} : closes'[x] = closes[x]
      /\ tab' = tab \/ tab' = None
    BY DEF CloseStep, CloseRemove, CloseKill, CloseReap, CloseFocus, CloseGoes, host, state, history, Inv, Typed
<1>2. SameSupervisors
    BY <1>1 DEF SameSupervisors
<1>3. GensApart'
    BY <1>2, SameWatchers
<1>4. ClosedApart'
  <2>1. closes[c] \in [pc : ClosePcs, engine : Engines \cup {None}, bumped : Nat]
    BY DEF Inv, Typed
  <2>2. \A x \in Closes : closes[x].pc \in {"kill", "reap"} => closes[x].engine # None
    BY NoneAssumption DEF Inv, EnginesNamed
  <2>3. \/ closes'[c].pc \notin {"kill", "reap"}
        \/ closes[c].pc \in {"kill", "reap"} /\ closes'[c].engine = closes[c].engine
        \/ closes'[c].engine = tab /\ tab # None /\ tab' = None
    BY <2>1 DEF CloseStep, CloseRemove, CloseKill, CloseReap, CloseFocus, CloseGoes, Inv, Typed
  <2> QED BY <1>1, <2>2, <2>3 DEF ClosedApart
<1>5. ASSUME NEW e \in Engines PROVE Served(e)' /\ Holds(e)'
  <2>1. CASE tab' = None
    BY <2>1, NoneAssumption DEF Served, Holds, Calm
  <2>2. CASE tab' # e
    BY <2>2 DEF Served, Holds, Calm
  <2>3. CASE tab' = e /\ tab' # None
    <3>1. tab = e
      BY <1>1, <2>3
    <3>2. gen'[e] = gen[e] /\ slot'[e] = slot[e]
      <4>1. closes[c].pc \in {"kill", "reap"} => closes[c].engine # e
        BY <3>1 DEF ClosedApart
      <4> QED BY <4>1 DEF CloseStep, CloseRemove, CloseKill, CloseReap, CloseFocus, Bump, Reap, state, Inv, Typed
    <3>3. Calm(e)' => Calm(e)
      BY <1>1, <3>1 DEF Calm, Pending, EngineOf
    <3> QED BY <1>1, <1>2, <3>2, <3>3, SameWatchers, StillServed
  <2> QED BY <2>1, <2>2, <2>3
<1> QED BY <1>3, <1>4, <1>5

\* A step of a supervisor: the current one keeps watching or reports an error, and
\* a superseded one touches neither the slot nor the status of an engine that is calm.
LEMMA SupKeepsServed ==
    ASSUME Inv, Inv', TabServed, NEW o \in Opens, Supervised(o), sups[o].pc # "done",
           NEW f \in Engines, f = EngineOf(o),
           UNCHANGED <<host, gen, opens, closes>>, excused \subseteq excused',
           sups'[o].gen = sups[o].gen, sups'[o].pc # "none",
           \A x \in Opens \ {o} : sups'[x] = sups[x],
           \A e \in Engines \ {f} : status'[e] = status[e] /\ slot'[e] = slot[e],
           Current(o) /\ Calm(f) /\ Calm(f)' =>
               /\ sups'[o].pc = "done" => status'[f] = "error"
               /\ sups'[o].pc # "gone"
               /\ sups'[o].pc \in {"ready", "wait"} => slot'[f] # None /\ Owner(slot'[f]) = o,
           ~Current(o) /\ Calm(f)' =>
               /\ status'[f] = status[f]
               /\ \/ slot'[f] = slot[f]
                  \/ slot[f] = None \/ Owner(slot[f]) = o
    PROVE  TabServed'
<1> USE DEF TabServed
<1>1. \A x \in Opens : Supervised(x)' <=> Supervised(x)
    BY DEF Supervised
<1>2. GensApart'
    BY <1>1 DEF GensApart, EngineOf
<1>3. ClosedApart'
    BY DEF ClosedApart, host
<1>4. \A e \in Engines : Calm(e)' => Calm(e)
    BY DEF Calm, Pending, EngineOf, host
<1>5. \A e \in Engines, x \in Opens \ {o} : /\ Watches(x, e) <=> Watches(x, e)'
                                            /\ Watches(x, e) => sups'[x].pc = sups[x].pc
    BY DEF Watches, Current, EngineOf
<1>6. ASSUME NEW e \in Engines, e # f PROVE Served(e)' /\ Holds(e)'
  <2>1. ~Watches(o, e) /\ ~Watches(o, e)'
    BY <1>6 DEF Watches, EngineOf
  <2> QED BY <1>4, <1>5, <1>6, <2>1, StillServed
<1>7. Served(f)' /\ Holds(f)'
  <2> SUFFICES ASSUME Calm(f)'
               PROVE  /\ status'[f] = "error" \/ \E x \in Opens : Watches(x, f)'
                      /\ \A x \in Opens : Watches(x, f)' =>
                             /\ sups'[x].pc # "gone"
                             /\ sups'[x].pc \in {"ready", "wait"} => slot'[f] # None /\ Owner(slot'[f]) = x
    BY DEF Served, Holds
  <2>1. Calm(f)
    BY <1>4
  <2>2. CASE Current(o)
    <3>1. Current(o)'
      BY <2>2 DEF Current
    <3>2. \A x \in Opens : Watches(x, f)' => x = o
      BY <1>5, <2>2, OneWatches
    <3>3. status'[f] = "error" \/ Watches(o, f)'
      BY <2>1, <2>2, <3>1 DEF Watches, EngineOf
    <3> QED BY <2>1, <2>2, <3>2, <3>3
  <2>3. CASE ~Current(o)
    <3>1. ~Watches(o, f) /\ ~Watches(o, f)'
      BY <2>3 DEF Watches, Current
    <3>2. status'[f] = "error" \/ \E x \in Opens : Watches(x, f)'
      BY <1>5, <2>1, <2>3, <3>1 DEF Served
    <3>3. ASSUME NEW x \in Opens, Watches(x, f)'
          PROVE  /\ sups'[x].pc # "gone"
                 /\ sups'[x].pc \in {"ready", "wait"} => slot'[f] # None /\ Owner(slot'[f]) = x
      <4>1. x # o /\ Watches(x, f) /\ sups'[x].pc = sups[x].pc
        BY <1>5, <3>1, <3>3
      <4>2. /\ sups[x].pc # "gone"
            /\ sups[x].pc \in {"ready", "wait"} => slot[f] # None /\ Owner(slot[f]) = x
        BY <2>1, <4>1 DEF Holds
      <4> QED BY <2>3, <4>1, <4>2
    <3> QED BY <3>2, <3>3
  <2> QED BY <2>2, <2>3
<1> QED BY <1>2, <1>3, <1>6, <1>7

LEMMA SupWalksServed ==
    ASSUME Inv, Inv', TabServed, NEW o \in Opens, SupBegin(o) \/ SupResolve(o) \/ SupLoop(o)
    PROVE  TabServed'
<1>1. /\ sups[o].pc \in {"begin", "resolve", "loop"} /\ Supervised(o) /\ EngineOf(o) \in Engines
      /\ UNCHANGED <<host, gen, slot, status, opens, closes, excused>>
    BY DEF SupBegin, SupResolve, SupLoop, Supervised, Inv, EnginesNamed, state, history
<1>2. /\ sups'[o].gen = sups[o].gen /\ \A x \in Opens \ {o} : sups'[x] = sups[x]
      /\ sups'[o].pc \in {"announce", "loop", "fail", "service", "done"}
      /\ Current(o) => sups'[o].pc # "done"
  <2>1. CASE SupLoop(o)
    BY <2>1 DEF SupLoop, Inv, Typed
  <2>2. CASE SupBegin(o) \/ SupResolve(o)
    BY <2>2 DEF SupBegin, SupResolve, SupGoes, Inv, Typed
  <2> QED BY <2>1, <2>2
<1> QED BY <1>1, <1>2, SupKeepsServed

LEMMA SupAnnounceServed ==
    ASSUME Inv, Inv', TabServed, NEW o \in Opens, SupAnnounce(o)
    PROVE  TabServed'
<1>1. PICK step \in {<<"announce", "provisioning", "resolve">>, <<"ready", "ready", "wait">>,
                     <<"fail", "error", "done">>, <<"restart", "error", "loop">>} :
          sups[o].pc = step[1] /\ SetStatus(o, step[2]) /\ SupGoes(o, step[3])
    BY DEF SupAnnounce
<1>2. /\ sups[o].pc \notin {"none", "done"} /\ Supervised(o) /\ EngineOf(o) \in Engines
      /\ UNCHANGED <<host, gen, slot, opens, closes>> /\ excused \subseteq excused'
      /\ ~Current(o) => EngineOf(o) \in excused'
    BY <1>1 DEF SupAnnounce, Supervised, Inv, EnginesNamed, EngineOf
<1>3. /\ sups'[o].gen = sups[o].gen /\ \A x \in Opens \ {o} : sups'[x] = sups[x]
      /\ sups'[o].pc = step[3]
    BY <1>1, SupGoesOn DEF SupPcs, Inv
<1>4. PICK f \in Engines : f = EngineOf(o)
    BY <1>2
<1>5. /\ status'[f] = step[2] /\ \A e \in Engines \ {f} : status'[e] = status[e]
    BY <1>1, <1>4 DEF SetStatus, Inv, Typed, EngineOf
<1>6. ~Current(o) => ~Calm(f)'
    BY <1>2, <1>4 DEF Calm
<1>7. Current(o) /\ Calm(f) /\ sups[o].pc = "ready" => slot'[f] # None /\ Owner(slot'[f]) = o
    BY <1>2, <1>4 DEF TabServed, Holds, Watches
<1>8. /\ sups'[o].pc = "done" => status'[f] = "error"
      /\ sups'[o].pc \notin {"none", "gone", "ready"}
      /\ sups'[o].pc = "wait" => sups[o].pc = "ready"
    BY <1>1, <1>3, <1>5
<1> QED BY <1>2, <1>3, <1>4, <1>5, <1>6, <1>7, <1>8, SupKeepsServed

LEMMA SupStartsServed ==
    ASSUME Inv, Inv', TabServed, NEW o \in Opens, SupService(o) \/ SupSpawn(o)
    PROVE  TabServed'
<1>1. /\ sups[o].pc \in {"service", "spawn"} /\ Supervised(o) /\ EngineOf(o) \in Engines
      /\ UNCHANGED <<host, gen, slot, status, opens, closes, excused>>
    BY DEF SupService, SupSpawn, Supervised, Inv, EnginesNamed, history
<1>2. PICK pc \in {"spawn", "store", "fail"} : SupGoes(o, pc)
    BY DEF SupService, SupSpawn
<1> QED BY <1>1, <1>2, SupGoesOn, SupKeepsServed DEF SupPcs, Inv

LEMMA SupStoreServed ==
    ASSUME Inv, Inv', TabServed, NEW o \in Opens, SupStore(o)
    PROVE  TabServed'
<1>1. /\ sups[o].pc = "store" /\ Supervised(o) /\ Process(o) \in Processes /\ Owner(Process(o)) = o
      /\ UNCHANGED <<host, gen, status, opens, closes, excused>>
    BY ProcessTyped DEF SupStore, Supervised, history
<1>2. PICK f \in Engines : f = EngineOf(o)
    BY <1>1 DEF Inv, EnginesNamed
<1>3. CASE Current(o)
  <2>1. SupGoes(o, "ready") /\ slot' = [slot EXCEPT ![f] = Process(o)]
    BY <1>2, <1>3 DEF SupStore, EngineOf
  <2>2. slot'[f] = Process(o) /\ \A e \in Engines \ {f} : slot'[e] = slot[e]
    BY <2>1 DEF Inv, Typed
  <2>3. slot'[f] # None /\ Owner(slot'[f]) = o
    BY <1>1, <2>2, NoneAssumption
  <2> QED BY <1>1, <1>2, <1>3, <2>1, <2>2, <2>3, SupGoesOn, SupKeepsServed DEF SupPcs, Inv
<1>4. CASE ~Current(o)
  <2>1. SupGoes(o, "done") /\ slot' = slot
    BY <1>4 DEF SupStore
  <2> QED BY <1>1, <1>2, <1>4, <2>1, SupGoesOn, SupKeepsServed DEF SupPcs, Inv
<1> QED BY <1>3, <1>4

\* The slot of a current supervisor is emptied by itself, or by one that is excused.
LEMMA SupPollServed ==
    ASSUME Inv, Inv', TabServed, NEW o \in Opens, SupPoll(o)
    PROVE  TabServed'
<1>1. /\ sups[o].pc = "wait" /\ Supervised(o)
      /\ UNCHANGED <<host, gen, status, opens, closes>> /\ excused \subseteq excused'
    BY DEF SupPoll, Waiting, Supervised
<1>2. PICK f \in Engines : f = EngineOf(o)
    BY <1>1 DEF Inv, EnginesNamed
<1>3. /\ SupGoes(o, IF slot[f] = None THEN "gone" ELSE "exited")
      /\ slot' = [slot EXCEPT ![f] = None]
      /\ slot[f] # None /\ Owner(slot[f]) # o => f \in excused'
    BY <1>2 DEF SupPoll, EngineOf
<1>4. \A e \in Engines \ {f} : slot'[e] = slot[e]
    BY <1>3 DEF Inv, Typed
<1>5. /\ sups'[o].gen = sups[o].gen /\ \A x \in Opens \ {o} : sups'[x] = sups[x]
      /\ sups'[o].pc = IF slot[f] = None THEN "gone" ELSE "exited"
    BY <1>3, SupGoesOn DEF SupPcs, Inv
<1>6. Current(o) /\ Calm(f) => slot[f] # None
    BY <1>1, <1>2 DEF TabServed, Holds, Watches
<1>7. Calm(f)' => slot[f] = None \/ Owner(slot[f]) = o
    BY <1>3 DEF Calm
<1> QED BY <1>1, <1>2, <1>4, <1>5, <1>6, <1>7, SupKeepsServed

LEMMA SupAfterServed ==
    ASSUME Inv, Inv', TabServed, NEW o \in Opens, SupAfter(o)
    PROVE  TabServed'
<1>1. /\ sups[o].pc \in {"gone", "exited"} /\ Supervised(o)
      /\ UNCHANGED <<host, gen, slot, status, opens, closes, excused>>
    BY DEF SupAfter, Supervised, history
<1>2. PICK f \in Engines : f = EngineOf(o)
    BY <1>1 DEF Inv, EnginesNamed
<1>3. PICK pc \in {"done", "fail", "restart"} :
          /\ SupGoes(o, pc)
          /\ pc = "done" => ~Current(o) \/ sups[o].pc = "gone"
    BY DEF SupAfter, AfterExit
<1>4. Current(o) /\ Calm(f) => sups[o].pc # "gone"
    BY <1>1, <1>2 DEF TabServed, Holds, Watches
<1> QED BY <1>1, <1>2, <1>3, <1>4, SupGoesOn, SupKeepsServed DEF SupPcs, Inv

LEMMA NextServed == Inv /\ Inv' /\ TabServed /\ [Next]_vars => TabServed'
<1> SUFFICES ASSUME Inv, Inv', TabServed, [Next]_vars PROVE TabServed'
    OBVIOUS
<1>1. ASSUME NEW o \in Opens, OpenStep(o) PROVE TabServed'
    BY <1>1, OpenKeepsServed, ClaimServes DEF OpenStep
<1>2. ASSUME NEW o \in Opens, SupStep(o) PROVE TabServed'
    BY <1>2, SupWalksServed, SupAnnounceServed, SupStartsServed, SupStoreServed, SupPollServed,
       SupAfterServed DEF SupStep
<1>3. ASSUME NEW c \in Closes, CloseStep(c) PROVE TabServed'
    BY <1>3, CloseKeepsServed
<1>4. CASE UNCHANGED vars \/ \E p \in Processes : ProcessExits(p)
  <2>1. UNCHANGED <<host, state, threads, history>>
    BY <1>4 DEF vars, ProcessExits
  <2> QED BY <2>1 DEF TabServed, GensApart, ClosedApart, Served, Holds, Calm, Pending, Watches,
                      Current, Supervised, EngineOf, host, state, threads, history
<1> QED BY <1>1, <1>2, <1>3, <1>4 DEF Next

\* With all threads at rest nothing is pending, and a supervisor that still watches
\* waits.
LEMMA ServedAtRest == TabServed => OpenTabIsServed
<1> SUFFICES ASSUME TabServed, NEW e \in Engines, tab = e, AtRest(e), e \notin excused,
                    status[e] # "error"
             PROVE  \E o \in Opens : opens[o].engine = e /\ Waiting(o) /\ Current(o)
    BY DEF OpenTabIsServed
<1>1. Calm(e)
    BY DEF Calm, Pending, AtRest
<1>2. PICK o \in Opens : Watches(o, e)
    BY <1>1 DEF TabServed, Served
<1> QED BY <1>2 DEF Watches, AtRest, Waiting, EngineOf

-----------------------------------------------------------------------------
(* The theorems *)

LEMMA NextInv == Inv /\ [Next]_vars => Inv'
<1> SUFFICES ASSUME Inv, [Next]_vars PROVE Inv'
    OBVIOUS
<1>1. ASSUME NEW o \in Opens, OpenStep(o) PROVE Inv'
    BY <1>1, OpenCheckStep, OpenEnsureStep, OpenKillStep, OpenReapStep, OpenStartStep, OpenFailsStep,
       OpenClaimStep DEF OpenStep
<1>2. ASSUME NEW o \in Opens, SupStep(o) PROVE Inv'
    BY <1>2, SupWalks, SupAnnounceStep, SupLoopStep, SupServiceStep, SupSpawnStep, SupStoreStep,
       SupPollStep, SupAfterStep DEF SupStep
<1>3. ASSUME NEW c \in Closes, CloseStep(c) PROVE Inv'
    BY <1>3, CloseMoveStep, CloseKillStep, CloseReapStep DEF CloseStep
<1>4. CASE UNCHANGED vars
  <2> USE DEF Inv
  <2>1. UNCHANGED <<host, state, threads, alive, exits, history>>
    BY <1>4 DEF vars
  <2>2. Typed'
    BY <2>1 DEF Typed, host, state, threads, history
  <2>3. Counted'
    BY <2>1, NoEngineMade DEF Typed, Ensured, Started, host, threads
  <2>4. EnginesNamed' /\ AttemptsCounted' /\ SlotsOwned' /\ KillIsFinal' /\ NoStrayService'
    BY <2>1 DEF EnginesNamed, AttemptsCounted, SlotsOwned, KillIsFinal, NoStrayService, InAttempt,
           EngineOf, Supervised, Busy, Waiting, Process, host, state, threads, history
  <2>5. BumpsApart'
    BY <2>1 DEF BumpsApart, KillNumber, EngineOf, Supervised, state, threads, history
  <2> QED BY <2>2, <2>3, <2>4, <2>5
<1> QED BY <1>1, <1>2, <1>3, <1>4, ProcessExitsStep DEF Next

\* No more engines are made than the bound of the model allows for.
LEMMA TypedIsTypeOK == Inv => TypeOK
<1> SUFFICES ASSUME Inv PROVE made \in 0 .. Cardinality(Engines)
    BY DEF Inv, Typed, TypeOK
<1>1. Ensured \in SUBSET Opens /\ Started \in SUBSET Opens
    BY DEF Ensured, Started
<1>2. /\ Cardinality(Ensured) + Cardinality(Started) <= 2 * Cardinality(Opens)
      /\ Cardinality(Ensured) \in Nat /\ Cardinality(Started) \in Nat /\ Cardinality(Opens) \in Nat
    BY <1>1, CardinalitiesBounded
<1> QED BY <1>2, EnginesCounted DEF Inv, Typed, Counted

\* However many opens and closes of a tab interleave: what a kill has ended stays
\* ended, no private endpoint outlives its attempt, and every variable has its type
\* (EngineState::kill and start_supervised, engine.rs).
THEOREM SlotsStayCurrent == Spec => []SlotsAreCurrent
<1>1. Inv => SlotsAreCurrent
    BY TypedIsTypeOK DEF Inv, SlotsAreCurrent
<1> QED BY InitInv, NextInv, <1>1, PTL DEF Spec

\* However many opens and closes of a tab interleave: once their threads rest, an open
\* tab shows an error or has an engine that a supervisor of the current generation
\* waits for, unless one of the named ways out was taken (open_workspace, workspaces.rs;
\* start_supervised and wait_for_child, engine.rs).
THEOREM OpenTabsAreServed == Spec => []OpenTabIsServed
<1> QED BY InitInv, NextInv, InitServed, NextServed, ServedAtRest, PTL DEF Spec

-----------------------------------------------------------------------------
(***************************************************************************)
(* The parameter scheduler.                                                *)
(***************************************************************************)

\* The two halves of the type invariant: the Boolean flags and the rest.
FlagsTyped ==
    /\ hasPending \in BOOLEAN /\ inFlight \in BOOLEAN
    /\ burstActive \in BOOLEAN /\ readyDue \in BOOLEAN

DataTyped ==
    /\ pending \in Batch /\ payload \in Batch
    /\ timers \in 0..Retries
    /\ engine \in {"down", "ready", "up"}
    /\ applied \in [Keys -> Values] /\ latest \in [Keys -> Values]
    /\ edits \in 0..MaxEdits /\ downs \in 0..MaxDowns

\* Merging a batch into a batch gives a batch.
LEMMA OverlayBatch ==
    ASSUME NEW batch \in Batch, NEW model \in Batch
    PROVE  Overlay(batch, model) \in Batch
BY DEF Overlay, Batch

\* Merging a batch into a model gives a model.
LEMMA OverlayModel ==
    ASSUME NEW batch \in Batch, NEW model \in [Keys -> Values]
    PROVE  Overlay(batch, model) \in [Keys -> Values]
BY DEF Overlay, Batch

\* The empty batch is a batch.
LEMMA EmptyIsBatch == EmptyBatch \in Batch
BY DEF EmptyBatch, Batch

\* A batch with one more key set is a batch.
LEMMA CommitBatch ==
    ASSUME NEW batch \in Batch, NEW k \in Keys, NEW v \in Values
    PROVE  [batch EXCEPT ![k] = v] \in Batch
BY DEF Batch

\* A flush leaves batches and flags well typed, whatever it was called with.
LEMMA FlushTyped ==
    ASSUME NEW batch \in Batch, NEW load \in Batch,
           NEW has \in BOOLEAN, NEW flying \in BOOLEAN,
           Flush(batch, has, flying, load)
    PROVE  /\ pending' \in Batch /\ payload' \in Batch
           /\ hasPending' \in BOOLEAN /\ inFlight' \in BOOLEAN
<1>1. pending' \in Batch /\ payload' \in Batch
  BY EmptyIsBatch DEF Flush
<1>2. hasPending' \in BOOLEAN /\ inFlight' \in BOOLEAN
  BY Zenon DEF Flush
<1> QED BY <1>1, <1>2

\* So does a failed send.
LEMMA SendFailedTyped ==
    ASSUME PTypeOK, SendFailed
    PROVE  /\ pending' \in Batch /\ payload' \in Batch /\ timers' \in 0..Retries
           /\ hasPending' \in BOOLEAN /\ inFlight' \in BOOLEAN /\ burstActive' \in BOOLEAN
<1>1. pending' \in Batch /\ payload' \in Batch
  BY EmptyIsBatch, OverlayBatch DEF SendFailed, RequeuedBatch, PTypeOK
<1>2. timers' \in 0..Retries
  BY ParamCommitAssumption DEF SendFailed, ArmRetryBurst, PTypeOK, ParamCommitAssumption
<1>3. hasPending' \in BOOLEAN /\ inFlight' \in BOOLEAN /\ burstActive' \in BOOLEAN
  BY Zenon DEF SendFailed, ArmRetryBurst, IsEmpty
<1> QED BY <1>1, <1>2, <1>3

\* Every reachable state is well typed.
THEOREM SchedulerTypeCorrect == PSpec => []PTypeOK
<1> USE DEF ParamCommitAssumption
<1>1. PInit => PTypeOK
  <2> SUFFICES ASSUME PInit PROVE PTypeOK
    OBVIOUS
  <2>1. FlagsTyped
    BY Zenon DEF PInit, FlagsTyped
  <2>2. DataTyped
    BY ParamCommitAssumption, EmptyIsBatch, SMT DEF PInit, DataTyped
  <2> QED BY <2>1, <2>2 DEF FlagsTyped, DataTyped, PTypeOK
<1>2. PTypeOK /\ [PNext]_pvars => PTypeOK'
  <2> SUFFICES ASSUME PTypeOK, [PNext]_pvars PROVE FlagsTyped' /\ DataTyped'
    BY DEF FlagsTyped, DataTyped, PTypeOK
  <2> USE DEF FlagsTyped, DataTyped
  <2>1. ASSUME NEW k \in Keys, NEW v \in Values, Commit(k, v)
        PROVE FlagsTyped' /\ DataTyped'
    <3>1. [pending EXCEPT ![k] = v] \in Batch /\ payload \in Batch /\ inFlight \in BOOLEAN
      BY CommitBatch DEF PTypeOK
    <3>2. /\ pending' \in Batch /\ payload' \in Batch
          /\ hasPending' \in BOOLEAN /\ inFlight' \in BOOLEAN
      BY <2>1, <3>1, FlushTyped DEF Commit
    <3>3. edits' \in 0..MaxEdits
      BY <2>1, ParamCommitAssumption DEF Commit, PTypeOK
    <3>4. latest' \in [Keys -> Values]
      BY <2>1 DEF Commit, PTypeOK
    <3> QED BY <2>1, <3>2, <3>3, <3>4 DEF Commit, PTypeOK
  <2>2. CASE SendOk
    <3>1. applied' \in [Keys -> Values]
      BY <2>2, OverlayModel DEF SendOk, PTypeOK
    <3>2. Flush(pending, hasPending, FALSE, EmptyBatch) /\ pending \in Batch /\ hasPending \in BOOLEAN
      BY <2>2 DEF SendOk, PTypeOK
    <3>3. /\ pending' \in Batch /\ payload' \in Batch
          /\ hasPending' \in BOOLEAN /\ inFlight' \in BOOLEAN
      BY <3>2, FlushTyped, EmptyIsBatch
    <3> QED BY <2>2, <3>1, <3>3 DEF SendOk, PTypeOK
  <2>3. CASE SendRefused
    BY <2>3, SendFailedTyped DEF SendRefused, PTypeOK
  <2>4. CASE SendLost
    <3>1. applied' \in [Keys -> Values]
      BY <2>4, OverlayModel DEF SendLost, PTypeOK
    <3> QED BY <2>4, <3>1, SendFailedTyped DEF SendLost, PTypeOK
  <2>5. CASE RetryTimer
    <3>1. /\ pending' \in Batch /\ payload' \in Batch
          /\ hasPending' \in BOOLEAN /\ inFlight' \in BOOLEAN
      BY <2>5, FlushTyped DEF RetryTimer, PTypeOK
    <3>2. timers' \in 0..Retries
      BY <2>5, ParamCommitAssumption DEF RetryTimer, PTypeOK
    <3> QED BY <2>5, <3>1, <3>2 DEF RetryTimer, PTypeOK
  <2>6. CASE BurstEnds
    <3>1. FlagsTyped'
      BY <2>6, Zenon DEF BurstEnds, schedulerVars, PTypeOK
    <3> QED BY <2>6, <3>1 DEF BurstEnds, schedulerVars, PTypeOK
  <2>7. CASE ReadyEvent
    <3>1. /\ pending' \in Batch /\ payload' \in Batch
          /\ hasPending' \in BOOLEAN /\ inFlight' \in BOOLEAN
      BY <2>7, FlushTyped DEF ReadyEvent, PTypeOK
    <3>2. readyDue' \in BOOLEAN /\ burstActive' \in BOOLEAN
      BY <2>7, Zenon DEF ReadyEvent, PTypeOK
    <3> QED BY <2>7, <3>1, <3>2 DEF ReadyEvent, PTypeOK
  <2>8. CASE EngineReady
    <3>1. FlagsTyped'
      BY <2>8, Zenon DEF EngineReady, schedulerVars, PTypeOK
    <3> QED BY <2>8, <3>1 DEF EngineReady, schedulerVars, PTypeOK
  <2>9. CASE EngineBinds
    BY <2>9 DEF EngineBinds, schedulerVars, PTypeOK
  <2>10. CASE EngineDies
    <3>1. downs' \in 0..MaxDowns
      BY <2>10, ParamCommitAssumption DEF EngineDies, PTypeOK
    <3> QED BY <2>10, <3>1 DEF EngineDies, schedulerVars, PTypeOK
  <2>11. CASE UNCHANGED pvars
    BY <2>11 DEF pvars, schedulerVars, PTypeOK
  <2> QED
    BY <2>1, <2>2, <2>3, <2>4, <2>5, <2>6, <2>7, <2>8, <2>9, <2>10, <2>11 DEF PNext
<1> QED BY <1>1, <1>2, PTL DEF PSpec

\* The user's value of k, read through the two batches.
HeldValue(k) ==
    IF pending[k] # NoValue THEN pending[k]
    ELSE IF payload[k] # NoValue THEN payload[k] ELSE applied[k]

\* NoLostEdit key by key.
LEMMA HeldIsOverlay ==
    NoLostEdit <=> \A k \in Keys : latest[k] = HeldValue(k)
BY DEF NoLostEdit, Overlay, HeldValue

\* A flush keeps the flags in step with the batches.
LEMMA FlushAgrees ==
    ASSUME NEW batch \in Batch, NEW load \in Batch,
           NEW has \in BOOLEAN, NEW flying \in BOOLEAN,
           has <=> ~IsEmpty(batch), flying \/ IsEmpty(load),
           Flush(batch, has, flying, load)
    PROVE  FlagsAgree'
<1>1. IsEmpty(EmptyBatch)
  BY DEF IsEmpty, EmptyBatch
<1>2. CASE ~flying /\ has
  <2>1. payload' = batch /\ inFlight' = TRUE /\ pending' = EmptyBatch /\ hasPending' = FALSE
    BY <1>2, Zenon DEF Flush
  <2> QED BY <2>1, <1>1, Zenon DEF FlagsAgree, IsEmpty
<1>3. CASE flying \/ ~has
  <2>1. payload' = load /\ inFlight' = flying /\ pending' = batch /\ hasPending' = has
    BY <1>3, Zenon DEF Flush
  <2> QED BY <2>1, Zenon DEF FlagsAgree, IsEmpty
<1> QED BY <1>2, <1>3

\* A flush moves the batch as a whole: what is held for a key stays held.
LEMMA FlushHolds ==
    ASSUME NEW batch \in Batch, NEW load \in Batch,
           NEW has \in BOOLEAN, NEW flying \in BOOLEAN,
           flying \/ IsEmpty(load), Flush(batch, has, flying, load),
           NEW k \in Keys
    PROVE  HeldValue(k)' = IF batch[k] # NoValue THEN batch[k]
                      ELSE IF load[k] # NoValue THEN load[k] ELSE applied'[k]
<1>1. CASE ~flying /\ has
  BY <1>1 DEF Flush, HeldValue, IsEmpty, EmptyBatch
<1>2. CASE flying \/ ~has
  BY <1>2 DEF Flush, HeldValue
<1> QED BY <1>1, <1>2

\* NoLostEdit holds in every reachable state: failed, refused, lost and
\* superseded sends never lose the user's latest value of a parameter and never
\* bring an older one back.
THEOREM NoEditIsLost == PSpec => [](FlagsAgree /\ NoLostEdit)
<1> DEFINE Agreed == FlagsAgree /\ \A k \in Keys : latest[k] = HeldValue(k)
<1>1. PInit => Agreed
  <2> SUFFICES ASSUME PInit PROVE Agreed
    OBVIOUS
  <2>1. FlagsAgree
    <3>1. IsEmpty(EmptyBatch)
      BY DEF IsEmpty, EmptyBatch
    <3> QED BY <3>1, Zenon DEF PInit, FlagsAgree
  <2>2. ASSUME NEW k \in Keys PROVE latest[k] = HeldValue(k)
    BY DEF PInit, HeldValue, EmptyBatch
  <2> QED BY <2>1, <2>2
<1>2. PTypeOK /\ Agreed /\ [PNext]_pvars => Agreed'
  <2> SUFFICES ASSUME PTypeOK, Agreed, [PNext]_pvars PROVE Agreed'
    OBVIOUS
  <2>0. /\ pending \in Batch /\ payload \in Batch
        /\ hasPending \in BOOLEAN /\ inFlight \in BOOLEAN
        /\ hasPending <=> ~IsEmpty(pending)
        /\ inFlight \/ IsEmpty(payload)
    BY DEF PTypeOK, FlagsAgree
  <2>1. ASSUME NEW k \in Keys, NEW v \in Values, Commit(k, v) PROVE Agreed'
    <3> DEFINE batch == [pending EXCEPT ![k] = v]
    <3>1. Flush(batch, TRUE, inFlight, payload) /\ UNCHANGED applied
      BY <2>1 DEF Commit
    <3>2. batch \in Batch /\ ~IsEmpty(batch)
      BY <2>0, CommitBatch, ParamCommitAssumption DEF IsEmpty, Batch, ParamCommitAssumption
    <3> HIDE DEF batch
    <3>3. FlagsAgree'
      BY <2>0, <3>1, <3>2, FlushAgrees
    <3>4. ASSUME NEW j \in Keys PROVE latest'[j] = HeldValue(j)'
      <4>1. HeldValue(j)' = IF batch[j] # NoValue THEN batch[j]
                       ELSE IF payload[j] # NoValue THEN payload[j] ELSE applied'[j]
        <5>1. batch \in Batch /\ payload \in Batch /\ TRUE \in BOOLEAN /\ inFlight \in BOOLEAN
          BY <2>0, <3>2
        <5>2. inFlight \/ IsEmpty(payload) BY <2>0
        <5>3. Flush(batch, TRUE, inFlight, payload) BY <3>1
        <5> HIDE DEF Agreed
        <5> QED BY ONLY <5>1, <5>2, <5>3, j \in Keys, FlushHolds, Zenon
      <4>2. latest'[j] = IF j = k THEN v ELSE latest[j]
        BY <2>1 DEF Commit, PTypeOK
      <4>3. batch[j] = IF j = k THEN v ELSE pending[j]
        BY <2>0 DEF batch, Batch
      <4>4. v # NoValue
        BY ParamCommitAssumption DEF ParamCommitAssumption
      <4> QED BY <3>1, <4>1, <4>2, <4>3, <4>4 DEF HeldValue
    <3> QED BY <3>3, <3>4
  <2>2. CASE SendOk
    <3>1. /\ Flush(pending, hasPending, FALSE, EmptyBatch)
          /\ applied' = Overlay(payload, applied) /\ UNCHANGED latest
      BY <2>2 DEF SendOk
    <3>2. IsEmpty(EmptyBatch)
      BY DEF IsEmpty, EmptyBatch
    <3>3. FlagsAgree'
      BY <2>0, <3>1, <3>2, EmptyIsBatch, FlushAgrees
    <3>4. ASSUME NEW j \in Keys PROVE latest'[j] = HeldValue(j)'
      <4>1. HeldValue(j)' = IF pending[j] # NoValue THEN pending[j]
                       ELSE IF EmptyBatch[j] # NoValue THEN EmptyBatch[j] ELSE applied'[j]
        <5>1. pending \in Batch /\ EmptyBatch \in Batch /\ hasPending \in BOOLEAN /\ FALSE \in BOOLEAN
          BY <2>0, EmptyIsBatch
        <5>2. FALSE \/ IsEmpty(EmptyBatch) BY <3>2
        <5>3. Flush(pending, hasPending, FALSE, EmptyBatch) BY <3>1
        <5> QED BY ONLY <5>1, <5>2, <5>3, j \in Keys, FlushHolds, Zenon
      <4> QED BY <3>1, <4>1 DEF HeldValue, Overlay, EmptyBatch
    <3> QED BY <3>3, <3>4
  <2>3. ASSUME SendFailed, UNCHANGED latest,
               \/ UNCHANGED applied
               \/ applied' = Overlay(payload, applied)
        PROVE  Agreed'
    <3>1. /\ pending' = Overlay(pending, payload) /\ payload' = EmptyBatch
          /\ hasPending' = ~IsEmpty(Overlay(pending, payload))
      BY <2>3 DEF SendFailed, RequeuedBatch
    <3>2. FlagsAgree'
      <4>1. IsEmpty(payload)'
        BY <3>1 DEF IsEmpty, EmptyBatch
      <4>2. hasPending' = ~IsEmpty(pending)'
        BY <3>1 DEF IsEmpty
      <4> QED BY <4>1, <4>2, Zenon DEF FlagsAgree
    <3>3. ASSUME NEW j \in Keys PROVE latest'[j] = HeldValue(j)'
      BY <2>3, <3>1 DEF HeldValue, Overlay, EmptyBatch
    <3> QED BY <3>2, <3>3
  <2>4. CASE SendRefused
    BY <2>3, <2>4 DEF SendRefused
  <2>5. CASE SendLost
    BY <2>3, <2>5 DEF SendLost
  <2>6. ASSUME Flush(pending, hasPending, inFlight, payload), UNCHANGED <<applied, latest>>
        PROVE  Agreed'
    <3>1. FlagsAgree'
      BY <2>0, <2>6, FlushAgrees
    <3>2. ASSUME NEW j \in Keys PROVE latest'[j] = HeldValue(j)'
      <4>1. HeldValue(j)' = IF pending[j] # NoValue THEN pending[j]
                       ELSE IF payload[j] # NoValue THEN payload[j] ELSE applied'[j]
        BY <2>0, <2>6, FlushHolds
      <4> QED BY <2>6, <4>1 DEF HeldValue
    <3> QED BY <3>1, <3>2
  <2>7. CASE RetryTimer
    BY <2>6, <2>7 DEF RetryTimer
  <2>8. CASE ReadyEvent
    BY <2>6, <2>8 DEF ReadyEvent
  <2>9. ASSUME UNCHANGED <<pending, hasPending, payload, inFlight, applied, latest>>
        PROVE  Agreed'
    BY <2>9 DEF FlagsAgree, IsEmpty, HeldValue
  <2>10. CASE BurstEnds \/ EngineReady \/ EngineBinds \/ EngineDies
    BY <2>9, <2>10 DEF BurstEnds, EngineReady, EngineBinds, EngineDies, schedulerVars
  <2>11. CASE UNCHANGED pvars
    BY <2>9, <2>11 DEF pvars, schedulerVars
  <2> QED
    BY <2>1, <2>2, <2>4, <2>5, <2>7, <2>8, <2>10, <2>11 DEF PNext
<1>3. Agreed => FlagsAgree /\ NoLostEdit
  BY HeldIsOverlay
<1> QED BY <1>1, <1>2, <1>3, SchedulerTypeCorrect, PTL DEF PSpec
=============================================================================
