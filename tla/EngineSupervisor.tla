-------------------------- MODULE EngineSupervisor --------------------------
(***************************************************************************)
(* How the desktop host opens, supervises and closes the engine of one     *)
(* workspace path: open_workspace, start_workspace and close_workspace_tab *)
(* (workspaces.rs), the table of live instances (instances.rs) and         *)
(* EngineState with its supervisor threads (engine.rs).                    *)
(*                                                                         *)
(* Every open and every close is a thread of its own, and so is every      *)
(* supervisor an open starts.  They meet in the table, in the generation   *)
(* counter, in the child slot and in the slot of the override service, one *)
(* lock or atomic at a time: an action is what a thread does under one.    *)
(***************************************************************************)
EXTENDS Naturals, FiniteSets

CONSTANTS
    Opens,        \* the calls of open_workspace for this path
    Closes,       \* the calls of close_workspace_tab for this path
    None,         \* no engine, no process
    MaxExits      \* bound on engine processes that die by themselves

ASSUME OpensFinite == IsFiniteSet(Opens)
ASSUME ExitsNatural == MaxExits \in Nat

Engines == 1 .. (2 * Cardinality(Opens))   \* EngineState objects, in order of creation
Attempts == 1 .. 2
Processes == Opens \X Attempts             \* the process of a supervisor's attempt

ASSUME NoneAssumption == None \notin Engines /\ None \notin Processes

VARIABLES
    tab,       \* Instances.engines[path]: the engine in the table, or None
    focused,   \* Instances.focused is this path
    made,      \* number of EngineState objects created
    gen,       \* EngineState.generation
    slot,      \* EngineState.child
    service,   \* EngineState.override_service: the attempt it was started for
    status,    \* EngineState.last_status
    opens,     \* the open threads
    sups,      \* the supervisor an open thread started
    closes,    \* the close threads
    alive,     \* engine processes that run
    exits,     \* how many died by themselves
    killed,    \* history: the highest generation a completed kill had bumped to
    excused    \* history: engines a superseded supervisor or a failed open got in the way of

host == <<tab, focused, made>>
state == <<gen, slot, service, status>>
threads == <<opens, sups, closes>>
history == <<killed, excused>>
vars == <<host, state, threads, alive, exits, history>>

Owner(p) == p[1]
Current(o) == gen[opens[o].engine] = sups[o].gen
Waiting(o) == sups[o].pc = "wait"

OpenGoes(o, pc) == opens' = [opens EXCEPT ![o].pc = pc]
SupGoes(o, pc) == sups' = [sups EXCEPT ![o].pc = pc]
CloseGoes(c, pc) == closes' = [closes EXCEPT ![c].pc = pc]

(***************************************************************************)
(* EngineState::kill.  It bumps the generation, then stops the override    *)
(* service, then takes the child out of its slot and reaps it.             *)
(***************************************************************************)
Bump(e) == gen' = [gen EXCEPT ![e] = @ + 1]

Reap(e, g) ==
    /\ service' = [service EXCEPT ![e] = None]
    /\ alive' = alive \ {slot[e]}
    /\ slot' = [slot EXCEPT ![e] = None]
    /\ killed' = [killed EXCEPT ![e] = IF g > @ THEN g ELSE @]

(***************************************************************************)
(* open_workspace                                                          *)
(***************************************************************************)
\* An open of the focused tab does nothing more, unless its engine is in error.
OpenCheck(o) ==
    /\ opens[o].pc = "new"
    /\ LET errored == tab # None /\ status[tab] = "error"
       IN  opens' = [opens EXCEPT ![o].pc = IF focused /\ ~errored THEN "done" ELSE "ensure",
                                  ![o].errored = errored]
    /\ UNCHANGED <<host, state, sups, closes, alive, exits, history>>

\* ensure_new decides under one lock whether this open creates the engine.
OpenEnsure(o) ==
    /\ opens[o].pc = "ensure"
    /\ focused' = TRUE
    /\ IF tab = None
       THEN /\ made' = made + 1
            /\ tab' = made + 1
            /\ opens' = [opens EXCEPT ![o].pc = "start", ![o].engine = made + 1]
       ELSE /\ opens' = [opens EXCEPT ![o].engine = tab,
                                      ![o].pc = IF opens[o].errored THEN "kill" ELSE "done"]
            /\ UNCHANGED <<tab, made>>
    /\ UNCHANGED <<state, sups, closes, alive, exits, history>>

OpenKill(o) ==
    /\ opens[o].pc = "kill"
    /\ Bump(opens[o].engine)
    /\ opens' = [opens EXCEPT ![o].pc = "reap", ![o].bumped = gen[opens[o].engine] + 1]
    /\ UNCHANGED <<host, slot, service, status, sups, closes, alive, exits, history>>

OpenReap(o) ==
    /\ opens[o].pc = "reap"
    /\ Reap(opens[o].engine, opens[o].bumped)
    /\ OpenGoes(o, "start")
    /\ UNCHANGED <<host, gen, status, sups, closes, exits, excused>>

\* start_workspace asks the table again, and a closed tab comes back as a new
\* engine.
OpenStart(o) ==
    /\ opens[o].pc = "start"
    /\ IF tab = None
       THEN made' = made + 1 /\ tab' = made + 1
       ELSE UNCHANGED <<made, tab>>
    /\ opens' = [opens EXCEPT ![o].pc = "provision", ![o].engine = tab']
    /\ UNCHANGED <<focused, state, sups, closes, alive, exits, history>>

\* provision and focus_watcher: a failure ends the open before it has started a
\* supervisor, and the engine stays in the table.
OpenFails(o) ==
    /\ opens[o].pc = "provision"
    /\ OpenGoes(o, "done")
    /\ excused' = excused \cup {opens[o].engine}
    /\ UNCHANGED <<host, state, sups, closes, alive, exits, killed>>

\* claim_generation, and the supervisor thread starts.
OpenClaim(o) ==
    /\ opens[o].pc = "provision"
    /\ LET e == opens[o].engine
       IN  /\ Bump(e)
           /\ sups' = [sups EXCEPT ![o] = [pc |-> "begin", gen |-> gen[e] + 1, attempts |-> 0]]
           /\ excused' = excused \ {e}
    /\ OpenGoes(o, "done")
    /\ UNCHANGED <<host, slot, service, status, closes, alive, exits, killed>>

(***************************************************************************)
(* close_workspace_tab: Instances::remove                                  *)
(***************************************************************************)
CloseRemove(c) ==
    /\ closes[c].pc = "new"
    /\ closes' = [closes EXCEPT ![c].engine = tab, ![c].pc = IF tab = None THEN "focus" ELSE "kill"]
    /\ tab' = None
    /\ UNCHANGED <<focused, made, state, opens, sups, alive, exits, history>>

CloseKill(c) ==
    /\ closes[c].pc = "kill"
    /\ Bump(closes[c].engine)
    /\ closes' = [closes EXCEPT ![c].pc = "reap", ![c].bumped = gen[closes[c].engine] + 1]
    /\ UNCHANGED <<host, slot, service, status, opens, sups, alive, exits, history>>

CloseReap(c) ==
    /\ closes[c].pc = "reap"
    /\ Reap(closes[c].engine, closes[c].bumped)
    /\ CloseGoes(c, "focus")
    /\ UNCHANGED <<host, gen, status, opens, sups, exits, excused>>

CloseFocus(c) ==
    /\ closes[c].pc = "focus"
    /\ focused' = FALSE
    /\ CloseGoes(c, "done")
    /\ UNCHANGED <<tab, made, state, opens, sups, alive, exits, history>>

(***************************************************************************)
(* start_supervised                                                        *)
(***************************************************************************)
\* A supervisor that is superseded already leaves before it touches anything.
SupBegin(o) ==
    /\ sups[o].pc = "begin"
    /\ SupGoes(o, IF Current(o) THEN "announce" ELSE "done")
    /\ UNCHANGED <<host, state, opens, closes, alive, exits, history>>

SetStatus(o, s) == status' = [status EXCEPT ![opens[o].engine] = s]

\* The statuses are set without a lock, and without another look at the generation.
SupAnnounce(o) ==
    /\ \E step \in {<<"announce", "provisioning", "resolve">>, <<"ready", "ready", "wait">>,
                    <<"fail", "error", "done">>, <<"restart", "error", "loop">>} :
          /\ sups[o].pc = step[1]
          /\ SetStatus(o, step[2])
          /\ SupGoes(o, step[3])
    /\ excused' = IF Current(o) THEN excused ELSE excused \cup {opens[o].engine}
    /\ UNCHANGED <<host, gen, slot, service, opens, closes, alive, exits, killed>>

\* Mutant: an engine that cannot be resolved is not reported.
M_SupResolve(o) ==
    /\ sups[o].pc = "resolve"
    /\ SupGoes(o, "loop") \/ SupGoes(o, "done")
    /\ UNCHANGED <<host, state, opens, closes, alive, exits, history>>

\* resolve_env, which may have to fetch the engine; the error of a superseded
\* supervisor is not shown.
SupResolve(o) ==
    /\ sups[o].pc = "resolve"
    /\ \/ SupGoes(o, "loop")
       \/ SupGoes(o, IF Current(o) THEN "fail" ELSE "done")
    /\ UNCHANGED <<host, state, opens, closes, alive, exits, history>>

SupLoop(o) ==
    /\ sups[o].pc = "loop"
    /\ sups' = IF Current(o)
               THEN [sups EXCEPT ![o].pc = "service", ![o].attempts = @ + 1]
               ELSE [sups EXCEPT ![o].pc = "done"]
    /\ UNCHANGED <<host, state, opens, closes, alive, exits, history>>

Process(o) == <<o, sups[o].attempts>>
ServiceBecomes(o, p) == service' = [service EXCEPT ![opens[o].engine] = p]

\* start_override_service stops whatever service the slot holds and puts its own
\* there; binding the new one may fail.
SupService(o) ==
    /\ sups[o].pc = "service"
    /\ \/ ServiceBecomes(o, Process(o)) /\ SupGoes(o, "spawn")
       \/ ServiceBecomes(o, None) /\ SupGoes(o, "fail")
    /\ UNCHANGED <<host, gen, slot, status, opens, closes, alive, exits, history>>

SupSpawn(o) ==
    /\ sups[o].pc = "spawn"
    /\ \/ /\ alive' = alive \cup {Process(o)}
          /\ SupGoes(o, "store")
          /\ UNCHANGED service
       \/ /\ ServiceBecomes(o, None)
          /\ SupGoes(o, "fail")
          /\ UNCHANGED alive
    /\ UNCHANGED <<host, gen, slot, status, opens, closes, exits, history>>

\* Mutant: the slot is filled without another look at the generation.
M_SupStore(o) ==
    /\ sups[o].pc = "store"
    /\ slot' = [slot EXCEPT ![opens[o].engine] = Process(o)]
    /\ SupGoes(o, "ready")
    /\ UNCHANGED <<host, gen, service, status, opens, closes, alive, exits, history>>

\* Under the lock of the slot: only the current generation may fill it.  A
\* superseded supervisor stops the service it finds and its guard reaps its child.
SupStore(o) ==
    /\ sups[o].pc = "store"
    /\ IF Current(o)
       THEN /\ slot' = [slot EXCEPT ![opens[o].engine] = Process(o)]
            /\ SupGoes(o, "ready")
            /\ UNCHANGED <<service, alive>>
       ELSE /\ ServiceBecomes(o, None)
            /\ alive' = alive \ {Process(o)}
            /\ SupGoes(o, "done")
            /\ UNCHANGED slot
    /\ UNCHANGED <<host, gen, status, opens, closes, exits, history>>

\* Mutant: only a slot that was emptied ends the wait.
M_SupPoll(o) ==
    /\ Waiting(o)
    /\ slot[opens[o].engine] = None
    /\ SupGoes(o, "gone")
    /\ UNCHANGED <<host, state, opens, closes, alive, exits, history>>

\* wait_for_child polls the slot, whoever's child it holds by now, and clears it
\* when that child has exited.
SupPoll(o) ==
    LET e == opens[o].engine IN
    /\ Waiting(o)
    /\ slot[e] \notin alive
    /\ SupGoes(o, IF slot[e] = None THEN "gone" ELSE "exited")
    /\ slot' = [slot EXCEPT ![e] = None]
    /\ excused' = IF slot[e] # None /\ Owner(slot[e]) # o THEN excused \cup {e} ELSE excused
    /\ UNCHANGED <<host, gen, service, status, opens, closes, alive, exits, killed>>

AfterExit(o, limit) ==
    SupGoes(o, CASE ~Current(o) \/ sups[o].pc = "gone" -> "done"
                 [] OTHER -> IF sups[o].attempts >= limit THEN "fail" ELSE "restart")

\* The service is stopped before the generation is looked at; the engine is
\* restarted once.
SupAfter(o) ==
    /\ sups[o].pc \in {"gone", "exited"}
    /\ ServiceBecomes(o, None)
    /\ AfterExit(o, 2)
    /\ UNCHANGED <<host, gen, slot, status, opens, closes, alive, exits, history>>

\* An engine process dies by itself.
ProcessExits(p) ==
    /\ p \in alive
    /\ exits < MaxExits
    /\ alive' = alive \ {p}
    /\ exits' = exits + 1
    /\ UNCHANGED <<host, state, threads, history>>

-----------------------------------------------------------------------------
Init ==
    /\ tab = None /\ focused = FALSE /\ made = 0
    /\ gen = [e \in Engines |-> 0]
    /\ slot = [e \in Engines |-> None]
    /\ service = [e \in Engines |-> None]
    /\ status = [e \in Engines |-> "provisioning"]
    /\ opens = [o \in Opens |-> [pc |-> "new", engine |-> None, errored |-> FALSE, bumped |-> 0]]
    /\ sups = [o \in Opens |-> [pc |-> "none", gen |-> 0, attempts |-> 0]]
    /\ closes = [c \in Closes |-> [pc |-> "new", engine |-> None, bumped |-> 0]]
    /\ alive = {} /\ exits = 0
    /\ killed = [e \in Engines |-> 0]
    /\ excused = {}

OpenStep(o) ==
    \/ OpenCheck(o) \/ OpenEnsure(o) \/ OpenKill(o) \/ OpenReap(o)
    \/ OpenStart(o) \/ OpenFails(o) \/ OpenClaim(o)

SupStep(o) ==
    \/ SupBegin(o) \/ SupAnnounce(o) \/ SupResolve(o) \/ SupLoop(o) \/ SupService(o)
    \/ SupSpawn(o) \/ SupStore(o) \/ SupPoll(o) \/ SupAfter(o)

CloseStep(c) == CloseRemove(c) \/ CloseKill(c) \/ CloseReap(c) \/ CloseFocus(c)

Next ==
    \/ \E o \in Opens : OpenStep(o) \/ SupStep(o)
    \/ \E c \in Closes : CloseStep(c)
    \/ \E p \in Processes : ProcessExits(p)

Spec == Init /\ [][Next]_vars

\* Threads are scheduled; nobody has to open or close a tab, or to die.
FairSpec ==
    /\ Spec
    /\ \A o \in Opens : WF_vars(SupStep(o)) /\ WF_vars(opens[o].pc # "new" /\ OpenStep(o))
    /\ \A c \in Closes : WF_vars(closes[c].pc # "new" /\ CloseStep(c))

-----------------------------------------------------------------------------
OpenPcs == {"new", "ensure", "kill", "reap", "start", "provision", "done"}
SupPcs == {"none", "begin", "announce", "resolve", "loop", "service", "spawn", "store",
           "ready", "wait", "gone", "exited", "restart", "fail", "done"}
ClosePcs == {"new", "kill", "reap", "focus", "done"}

\* Every variable holds a value of its Rust type.
TypeOK ==
    /\ tab \in Engines \cup {None} /\ focused \in BOOLEAN /\ made \in 0 .. Cardinality(Engines)
    /\ gen \in [Engines -> Nat]
    /\ slot \in [Engines -> Processes \cup {None}]
    /\ service \in [Engines -> Processes \cup {None}]
    /\ status \in [Engines -> {"provisioning", "ready", "error"}]
    /\ opens \in [Opens -> [pc : OpenPcs, engine : Engines \cup {None},
                            errored : BOOLEAN, bumped : Nat]]
    /\ sups \in [Opens -> [pc : SupPcs, gen : Nat, attempts : 0 .. 2]]
    /\ closes \in [Closes -> [pc : ClosePcs, engine : Engines \cup {None}, bumped : Nat]]
    /\ alive \subseteq Processes /\ exits \in 0 .. MaxExits
    /\ killed \in [Engines -> Nat] /\ excused \subseteq Engines

\* When a kill has ended, nothing a supervisor of an older generation spawned is
\* left in the slot or gets there later: the bump comes before the reaping, and a
\* child is stored only under the lock and the current generation (engine.rs,
\* kill and start_supervised).
KillIsFinal ==
    \A e \in Engines : slot[e] # None => sups[Owner(slot[e])].gen > killed[e]

Busy(o) == sups[o].pc \in {"spawn", "store", "ready", "exited", "gone"}

InAttempt(o, e) == opens[o].engine = e /\ service[e] = Process(o) /\ (Busy(o) \/ Waiting(o))

\* A private override endpoint never outlives the attempt it was made for: the
\* supervisor it was started by is still in that attempt and will stop it, so no
\* endpoint is left without a supervisor (engine.rs, start_override_service).
NoStrayService ==
    \A e \in Engines : service[e] # None => InAttempt(Owner(service[e]), e)

AtRest(e) ==
    /\ \A o \in Opens : opens[o].pc \in {"new", "done"}
    /\ \A c \in Closes : closes[c].pc \in {"new", "done"}
    /\ \A o \in Opens : opens[o].engine = e => sups[o].pc \in {"none", "done", "wait"}

\* An open tab whose threads have come to rest shows an error or has an engine in
\* its slot that a supervisor of the current generation waits for.  The ways out that
\* are known are named by excused: an open that failed before its supervisor started
\* leaves the tab without one, a superseded supervisor that still polls takes the
\* exit of its successor's child, and one that was superseded after it looked at the
\* generation overwrites its successor's status (engine.rs, start_supervised).
OpenTabIsServed ==
    \A e \in Engines :
        tab = e /\ AtRest(e) /\ e \notin excused =>
            \/ status[e] = "error"
            \/ \E o \in Opens : opens[o].engine = e /\ Waiting(o) /\ Current(o)

StaleWaits(e) == \E o \in Opens : opens[o].engine = e /\ Waiting(o) /\ ~Current(o)

\* When the engine of an open tab dies while no superseded supervisor polls its
\* slot, and none takes its exit, the tab does not stay ready: its supervisor reports
\* an error and restarts it once, or the tab is closed (engine.rs, wait_for_child).
DeathIsNoticed ==
    \A e \in Engines :
        tab = e /\ status[e] = "ready" /\ slot[e] # None /\ slot[e] \notin alive /\ ~StaleWaits(e)
            ~> tab # e \/ status[e] # "ready" \/ e \in excused

\* The slot and the override service belong to a supervisor that may still use
\* them.
SlotsAreCurrent == TypeOK /\ KillIsFinal /\ NoStrayService
=============================================================================
