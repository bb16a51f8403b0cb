---------------------------- MODULE ParamCommit ----------------------------
(***************************************************************************)
(* The single-flight, latest-wins parameter scheduler of the inspector     *)
(* (src/lib/paramCommit.ts) driven by the hook that owns its retry burst   *)
(* (src/hooks/useParamCommit.ts).                                          *)
(*                                                                         *)
(* A batch of parameter values is a function from Keys to a value or       *)
(* NoValue ("the key is not in the batch").  The engine is external: it is *)
(* down, has announced "ready" without accepting connections yet, or is up.*)
(* An engine that is up applies a whole batch or refuses the whole batch   *)
(* (an {ok: false} reply), and the reply of an applied batch can be lost   *)
(* when the engine dies.                                                   *)
(*                                                                         *)
(* PInit, PNext, PSpec: ShellProofs extends this module together with the  *)
(* supervisor's, and the names of both must be apart.                      *)
(***************************************************************************)
EXTENDS Integers, FiniteSets

CONSTANTS
    Keys,       \* parameter names
    Values,     \* parameter values
    NoValue,    \* "this key is not in the batch"
    Default,    \* the value the model is loaded with
    Refused,    \* the <<key, value>> pairs the engine answers with ok: false
    Retries,    \* delayed retries of one burst (four in the code)
    MaxEdits,   \* bound: user edits in one behaviour
    MaxDowns    \* bound: engine deaths in one behaviour

ASSUME ParamCommitAssumption ==
    /\ NoValue \notin Values
    /\ Default \in Values
    /\ Refused \subseteq Keys \X Values
    /\ Retries \in Nat
    /\ MaxEdits \in Nat
    /\ MaxDowns \in Nat

VARIABLES
    pending,      \* the batch being accumulated
    hasPending,   \* the scheduler's own flag for "pending is not empty"
    payload,      \* the batch handed to send()
    inFlight,     \* an engine call is outstanding
    burstActive,  \* a retry burst is armed
    timers,       \* retries of the burst that have not fired yet
    engine,       \* external: "down", "ready" (announced) or "up" (accepting)
    readyDue,     \* an engine-status "ready" event not delivered yet
    applied,      \* external: the values of the model the engine holds
    latest,       \* what the user last chose for each key
    edits, downs  \* counters of the bounds

schedulerVars == <<pending, hasPending, payload, inFlight>>
pvars == <<schedulerVars, burstActive, timers, engine, readyDue, applied,
           latest, edits, downs>>

Batch == [Keys -> Values \cup {NoValue}]
EmptyBatch == [k \in Keys |-> NoValue]
IsEmpty(batch) == \A k \in Keys : batch[k] = NoValue

\* The values a model has after a batch is merged into it.
Overlay(batch, model) ==
    [k \in Keys |-> IF batch[k] = NoValue THEN model[k] ELSE batch[k]]

IsRefused(batch) == \E k \in Keys : <<k, batch[k]>> \in Refused

PInit ==
    /\ pending = EmptyBatch /\ hasPending = FALSE
    /\ payload = EmptyBatch /\ inFlight = FALSE
    /\ burstActive = FALSE /\ timers = 0
    /\ engine = "down" /\ readyDue = FALSE
    /\ applied = [k \in Keys |-> Default]
    /\ latest = [k \in Keys |-> Default]
    /\ edits = 0 /\ downs = 0

-----------------------------------------------------------------------------
(* The scheduler.  Flush is called from every entry point with the batch,  *)
(* the flag and the call the entry point leaves behind.                    *)

Flush(batch, has, flying, load) ==
    \/ /\ ~flying /\ has
       /\ payload' = batch /\ inFlight' = TRUE
       /\ pending' = EmptyBatch /\ hasPending' = FALSE
    \/ /\ flying \/ ~has
       /\ payload' = load /\ inFlight' = flying
       /\ pending' = batch /\ hasPending' = has

Commit(k, v) ==
    /\ edits < MaxEdits
    /\ edits' = edits + 1
    /\ latest' = [latest EXCEPT ![k] = v]
    /\ Flush([pending EXCEPT ![k] = v], TRUE, inFlight, payload)
    /\ UNCHANGED <<burstActive, timers, engine, readyDue, applied, downs>>

\* armRetryBurst: a burst that is already active is not stacked.
ArmRetryBurst ==
    /\ burstActive' = TRUE
    /\ timers' = IF burstActive THEN timers ELSE Retries

\* Mutant: the failed batch overwrites newer commits.
M_RequeuedBatch == Overlay(payload, pending)

\* The batch a failed send leaves pending: newer commits win over it.
RequeuedBatch == Overlay(pending, payload)

\* The rejection handler of a send: requeue, no automatic flush.
SendFailed ==
    /\ pending' = RequeuedBatch
    /\ hasPending' = ~IsEmpty(RequeuedBatch)
    /\ payload' = EmptyBatch /\ inFlight' = FALSE
    /\ ArmRetryBurst

\* The engine applied the batch and the reply arrived.
SendOk ==
    /\ inFlight /\ engine = "up" /\ ~IsRefused(payload)
    /\ applied' = Overlay(payload, applied)
    /\ Flush(pending, hasPending, FALSE, EmptyBatch)
    /\ UNCHANGED <<burstActive, timers, engine, readyDue, latest, edits, downs>>

\* The engine answered ok: false; engineCall turns that into null and send throws.
SendRefused ==
    /\ inFlight /\ engine = "up" /\ IsRefused(payload)
    /\ SendFailed
    /\ UNCHANGED <<engine, readyDue, applied, latest, edits, downs>>

\* The engine is unreachable: it never got the batch, or died before replying.
SendLost ==
    /\ inFlight /\ engine # "up"
    /\ \/ UNCHANGED applied
       \/ ~IsRefused(payload) /\ applied' = Overlay(payload, applied)
    /\ SendFailed
    /\ UNCHANGED <<engine, readyDue, latest, edits, downs>>

\* Mutant: the timers fire without calling retry().
M_RetryTimer ==
    /\ timers > 0
    /\ timers' = timers - 1
    /\ UNCHANGED <<schedulerVars, burstActive, engine, readyDue, applied, latest,
                   edits, downs>>

\* One of the delayed retries of a burst.
RetryTimer ==
    /\ timers > 0
    /\ timers' = timers - 1
    /\ Flush(pending, hasPending, inFlight, payload)
    /\ UNCHANGED <<burstActive, engine, readyDue, applied, latest, edits, downs>>

\* The 4.5 s timer that lets the next failure arm a new burst.
BurstEnds ==
    /\ burstActive /\ timers = 0
    /\ burstActive' = FALSE
    /\ UNCHANGED <<schedulerVars, timers, engine, readyDue, applied, latest,
                   edits, downs>>

\* The engine-status listener: retry when the engine reports ready.
ReadyEvent ==
    /\ readyDue /\ readyDue' = FALSE
    /\ Flush(pending, hasPending, inFlight, payload)
    /\ UNCHANGED <<burstActive, timers, engine, applied, latest, edits, downs>>

-----------------------------------------------------------------------------
(* The engine (external).                                                  *)

EngineReady ==
    /\ engine = "down" /\ engine' = "ready" /\ readyDue' = TRUE
    /\ UNCHANGED <<schedulerVars, burstActive, timers, applied, latest, edits, downs>>

EngineBinds ==
    /\ engine = "ready" /\ engine' = "up"
    /\ UNCHANGED <<schedulerVars, burstActive, timers, readyDue, applied, latest,
                   edits, downs>>

EngineDies ==
    /\ engine = "up" /\ downs < MaxDowns
    /\ engine' = "down" /\ downs' = downs + 1
    /\ UNCHANGED <<schedulerVars, burstActive, timers, readyDue, applied, latest, edits>>

PNext ==
    \/ \E k \in Keys, v \in Values : Commit(k, v)
    \/ SendOk \/ SendRefused \/ SendLost
    \/ RetryTimer \/ BurstEnds \/ ReadyEvent
    \/ EngineReady \/ EngineBinds \/ EngineDies

PSpec == PInit /\ [][PNext]_pvars

\* A promise settles, a timer fires, an event is delivered and an engine that
\* is starting finishes starting.  Nothing makes the user edit or the engine die.
PFairSpec ==
    /\ PSpec
    /\ WF_pvars(SendOk \/ SendRefused \/ SendLost)
    /\ WF_pvars(RetryTimer) /\ WF_pvars(BurstEnds) /\ WF_pvars(ReadyEvent)
    /\ WF_pvars(EngineReady) /\ WF_pvars(EngineBinds)

-----------------------------------------------------------------------------
(* Properties *)

PTypeOK ==
    /\ pending \in Batch /\ payload \in Batch
    /\ hasPending \in BOOLEAN /\ inFlight \in BOOLEAN
    /\ burstActive \in BOOLEAN /\ timers \in 0..Retries
    /\ engine \in {"down", "ready", "up"} /\ readyDue \in BOOLEAN
    /\ applied \in [Keys -> Values] /\ latest \in [Keys -> Values]
    /\ edits \in 0..MaxEdits /\ downs \in 0..MaxDowns

\* The flags agree with the batches: a pending value is never invisible to
\* flush (it would never be sent), and an idle scheduler holds no payload.
FlagsAgree ==
    /\ hasPending <=> ~IsEmpty(pending)
    /\ inFlight \/ IsEmpty(payload)

\* For every key the user's latest value is somewhere: the newest batch that
\* has the key carries it, and a key in no batch is applied as chosen.  A failed
\* or superseded send never loses an edit and never resurrects an older one
\* ("the edit must NOT be lost", "latest value per key wins").
NoLostEdit ==
    \A k \in Keys : latest[k] = Overlay(pending, Overlay(payload, applied))[k]

\* An edit held by a failed send lands once the engine stays up, provided a
\* retry is still due when it comes up and no refused value is being sent.
HeldEditLands ==
    [](engine = "up" /\ (timers > 0 \/ readyDue) /\ ~IsRefused(payload)
         => <>(latest = applied \/ engine # "up" \/ IsRefused(latest)))
=============================================================================
