--------------------------- MODULE OperationQueue ---------------------------
(***************************************************************************)
(* The single-writer operation queue of the engine                         *)
(* (engine/solidifai_engine/operations.py).                                *)
(*                                                                         *)
(* Every critical section of the queue's condition lock is one step.  The  *)
(* threads are the clients that submit, wait for and cancel operations,    *)
(* one watchdog per started operation, the thread that closes the queue    *)
(* and the writer.  A watchdog is named by its operation.                  *)
(*                                                                         *)
(* What the queue calls is left open: execute() may send any heartbeat and *)
(* return or raise anything, begin_cancel() and finish_cancel() may answer *)
(* anything.  EngineWriter composes this module with the SessionProxy that *)
(* really answers.  Time is left open too: a poll of a watchdog may find   *)
(* its operation within budget, past the soft or past the hard limit.      *)
(*                                                                         *)
(* The deque only ever appends on the right, pops on the left and removes  *)
(* inside, so it is the set of its members ordered by submission ticket.   *)
(***************************************************************************)
EXTENDS Integers, FiniteSets

CONSTANTS
    Ops,          \* operation ids (uuid4, never reused)
    Keys, NoKey,  \* replacement keys; NoKey is replace_key = None
    Clients,      \* threads calling submit, wait and cancel
    Closers,      \* the threads calling close (server shutdown); may be empty
    Watched,      \* the operations whose watchdog thread is followed
    Expiring,     \* the operations whose watchdog may find a limit expired
    None,         \* no operation, no claim
    Answers,      \* what begin_cancel may answer here: all of CancelStatus for a worker
                  \* call, only "not_active" for a parent-owned writer
    MaxQueued,    \* max_queued
    MaxTerminal   \* max_terminal

CancelStatus == {"claimed", "too_late", "not_active"}

ASSUME OperationQueueAssumption ==
    /\ IsFiniteSet(Ops)
    /\ NoKey \notin Keys
    /\ None \notin Ops \cup Clients \cup Closers
    /\ Clients \cap Ops = {} /\ Closers \cap (Clients \cup Ops) = {}
    /\ Expiring \subseteq Watched /\ Watched \subseteq Ops
    /\ Answers \subseteq CancelStatus
    /\ MaxQueued \in Nat \ {0}
    /\ MaxTerminal \in Nat \ {0}

Threads == Clients \cup Ops \cup Closers

Terminal == {"succeeded", "failed", "cancelled", "timed_out"}
Live == {"running", "publishing"}
States == {"new", "queued"} \cup Live \cup Terminal
Intents == {"timing_out", "cancelling"}
Progress == {"building", "publishing"}  \* "building": no phase yet, or any phase of the work
Phases == Progress \cup Intents
Outcomes == {"returned", "refused", "raised", "timeout"}

\* Where a thread is: "off" and "idle" are outside the queue; "watch" and
\* "recheck" are in _watch; "begin" to "lost" are in _request_cancel.
PCs == {"off", "idle", "wait", "watch", "recheck", "after", "join",
        "begin", "late", "claimed", "finish", "won", "lost"}

VARIABLES
    state, phase,  \* OperationRecord.state and .phase; "new" is not submitted yet
    superseded,    \* the records whose .error is "superseded by replacement"
    key,           \* OperationRecord.replace_key
    claim,         \* OperationRecord.cancellation_claim: the claiming thread
    position,      \* OperationRecord.queue_position, 0 for None
    ticket,        \* order of submission, 0 before it
    finishedAt,    \* order of finishing, 0 before it
    known,         \* the keys of _operations
    queued,        \* the members of _queued
    running,       \* _running
    writer,        \* "idle", "execute", "settled" (before the finally) or "returned"
    hard,          \* the watchdogs whose last poll found the hard limit expired
    pc, target     \* per thread: where it is; per client or closer: the record it holds

recordVars == <<state, phase, superseded, key, claim, position, ticket, finishedAt>>
queueVars == <<known, queued, running>>
threadVars == <<writer, hard, pc, target>>
vars == <<recordVars, queueVars, threadVars>>

Stopped == \E t \in Closers : pc[t] # "idle"
Record(t) == IF t \in Ops THEN t ELSE target[t]
Waiters(o) == {c \in Clients : pc[c] = "wait" /\ target[c] = o}
\* Mutant: an expired or surplus record is evicted although somebody waits for it.
M_Evictable == {o \in known : state[o] \in Terminal}
Evictable == {o \in known : state[o] \in Terminal /\ Waiters(o) = {}}
SameKey(k) == IF k = NoKey THEN {} ELSE {o \in queued : key[o] = k}
\* Mutant: an ended record is still taken for the live one until the writer lets it go.
M_Gone(o) == running # o
Gone(o) == state[o] \in Terminal \/ running # o
Intent(t) == IF t \in Ops THEN "timing_out" ELSE "cancelling"

\* The watchdog of an operation that overruns no limit polls without effect: its
\* end need not be followed.
Watchdog(o) == IF o \in Watched THEN "watch" ELSE "off"

\* The position of o in a queue with the given members.
Rank(o, members) == Cardinality({q \in members : ticket[q] <= ticket[o]})
Submissions == Cardinality({o \in Ops : state[o] # "new"})
Finishes == Cardinality({o \in Ops : state[o] \in Terminal})

Init ==
    /\ state = [o \in Ops |-> "new"] /\ phase = [o \in Ops |-> "building"]
    /\ superseded = {} /\ key = [o \in Ops |-> NoKey]
    /\ claim = [o \in Ops |-> None]
    /\ position = [o \in Ops |-> 0] /\ ticket = [o \in Ops |-> 0]
    /\ finishedAt = [o \in Ops |-> 0]
    /\ known = {} /\ queued = {} /\ running = None
    /\ writer = "idle" /\ hard = {}
    /\ pc = [t \in Threads |-> IF t \in Ops THEN "off" ELSE "idle"]
    /\ target = [t \in Clients \cup Closers |-> None]

-----------------------------------------------------------------------------
(* Record updates *)

\* _finish on the records in S that are not terminal; they finish in queue order.
\* Those in `replaced` end with the error "superseded by replacement".
FinishAll(S, final, replaced) ==
    LET ended == {o \in S : state[o] \notin Terminal}
    IN  /\ superseded' = superseded \cup replaced
        /\ state' = [o \in Ops |-> IF o \in ended THEN final ELSE state[o]]
        /\ claim' = [o \in Ops |-> IF o \in ended THEN None ELSE claim[o]]
        /\ position' = [o \in Ops |-> IF o \in ended THEN 0 ELSE position[o]]
        /\ finishedAt' = [o \in Ops |-> IF o \in ended
                                        THEN Finishes + Rank(o, ended) ELSE finishedAt[o]]
        /\ UNCHANGED <<phase, key, ticket>>

\* Mutant: only the age of a record evicts it.
M_Pruned(aged, keep) == known \ {o \in Evictable : finishedAt[o] <= aged}

\* What _prune_terminals leaves of _operations when `aged` is the finishing
\* time up to which records are past terminal_max_age.
Pruned(aged, keep) ==
    LET old == {o \in Evictable : finishedAt[o] <= aged}
        rest == Evictable \ old
        excess == Cardinality(known \ old) - keep
        oldest == {o \in rest : Cardinality({p \in rest : finishedAt[p] <= finishedAt[o]}) <= excess}
    IN  known \ (old \cup oldest)

\* _request_cancel returns to cancel or submit, to _watch or to close.
Return(t, outcome) ==
    /\ pc' = [pc EXCEPT ![t] =
                 IF t \in Clients THEN "idle"
                 ELSE IF t \in Ops THEN IF outcome = "not_active" THEN "recheck" ELSE "off"
                 ELSE IF outcome = "claimed" THEN "after" ELSE "join"]
    /\ target' = IF t \in Clients THEN [target EXCEPT ![t] = None] ELSE target

-----------------------------------------------------------------------------
(* Clients *)

\* submit: prune, supersede queued operations of the key, refuse when full.
Submit(c, o, k, aged) ==
    LET dropped == SameKey(k)
        members == (queued \ dropped) \cup {o}
        replaced == k # NoKey /\ running # None /\ key[running] = k
        number == Submissions + 1
    IN  /\ pc[c] = "idle" /\ ~Stopped /\ state[o] = "new"
        /\ Cardinality(queued \ dropped) < MaxQueued
        /\ state' = [x \in Ops |-> IF x = o THEN "queued"
                                   ELSE IF x \in dropped THEN "cancelled" ELSE state[x]]
        /\ superseded' = superseded \cup dropped
        /\ finishedAt' = [x \in Ops |-> IF x \in dropped
                                        THEN Finishes + Rank(x, dropped) ELSE finishedAt[x]]
        /\ claim' = [x \in Ops |-> IF x \in dropped THEN None ELSE claim[x]]
        /\ key' = [key EXCEPT ![o] = k]
        /\ ticket' = [ticket EXCEPT ![o] = number]
        /\ position' = [x \in Ops |-> IF x = o THEN Cardinality(members)
                                      ELSE IF x \in members THEN Rank(x, members \ {o})
                                      ELSE IF x \in dropped THEN 0 ELSE position[x]]
        /\ queued' = members
        /\ known' = Pruned(aged, MaxTerminal - 1) \cup {o}
        /\ pc' = [pc EXCEPT ![c] = IF replaced THEN "begin" ELSE "idle"]
        /\ target' = [target EXCEPT ![c] = IF replaced THEN running ELSE None]
        /\ UNCHANGED <<phase, running, writer, hard>>

\* Mutant: the length of the deque is read before the superseded records leave it.
M_SubmitFull(c, k, aged) ==
    /\ pc[c] = "idle" /\ ~Stopped
    /\ Cardinality(queued) >= MaxQueued
    /\ FinishAll(SameKey(k), "cancelled", SameKey(k))
    /\ queued' = queued \ SameKey(k)
    /\ known' = Pruned(aged, MaxTerminal - 1)
    /\ UNCHANGED <<running, threadVars>>

\* submit refused by a full queue: what it did before the check stays done.
SubmitFull(c, k, aged) ==
    /\ pc[c] = "idle" /\ ~Stopped
    /\ Cardinality(queued \ SameKey(k)) >= MaxQueued
    /\ FinishAll(SameKey(k), "cancelled", SameKey(k))
    /\ queued' = queued \ SameKey(k)
    /\ known' = Pruned(aged, MaxTerminal - 1)
    /\ UNCHANGED <<running, threadVars>>

\* wait: the record is protected from eviction until the wait returns.  A wait for
\* a record that has ended returns at once.
Wait(c, o) ==
    /\ pc[c] = "idle" /\ o \in known /\ state[o] \notin Terminal
    /\ pc' = [pc EXCEPT ![c] = "wait"] /\ target' = [target EXCEPT ![c] = o]
    /\ UNCHANGED <<recordVars, queueVars, writer, hard>>

WaitReturns(c) ==
    /\ pc[c] = "wait" /\ state[target[c]] \in Terminal
    /\ pc' = [pc EXCEPT ![c] = "idle"] /\ target' = [target EXCEPT ![c] = None]
    /\ UNCHANGED <<recordVars, queueVars, writer, hard>>

\* cancel of a queued record; the positions behind it are not renumbered.
CancelQueued(c, o) ==
    /\ pc[c] = "idle" /\ o \in known /\ state[o] = "queued"
    /\ queued' = queued \ {o}
    /\ FinishAll({o}, "cancelled", {})
    /\ UNCHANGED <<known, running, threadVars>>

\* cancel of a record that is running or publishing.
CancelLive(c, o) ==
    /\ pc[c] = "idle" /\ o \in known /\ state[o] \in Live
    /\ pc' = [pc EXCEPT ![c] = "begin"] /\ target' = [target EXCEPT ![c] = o]
    /\ UNCHANGED <<recordVars, queueVars, writer, hard>>

-----------------------------------------------------------------------------
(* close *)

\* Mutant: the deque is emptied without finishing its records.
M_CloseDrops(t) ==
    /\ pc[t] = "idle"
    /\ queued' = {}
    /\ pc' = [pc EXCEPT ![t] = IF running = None THEN "join" ELSE "begin"]
    /\ target' = [target EXCEPT ![t] = running]
    /\ UNCHANGED <<recordVars, known, running, writer, hard>>

\* Mutant: close only asks the writer to stop and cancels the running operation.
M_CloseForgets(t) ==
    /\ pc[t] = "idle"
    /\ pc' = [pc EXCEPT ![t] = IF running = None THEN "join" ELSE "begin"]
    /\ target' = [target EXCEPT ![t] = running]
    /\ UNCHANGED <<recordVars, queueVars, writer, hard>>

\* close: stop, end what is queued, then cancel what is running.
Close(t) ==
    /\ pc[t] = "idle"
    /\ FinishAll(queued, "cancelled", {})
    /\ queued' = {}
    /\ pc' = [pc EXCEPT ![t] = IF running = None THEN "join" ELSE "begin"]
    /\ target' = [target EXCEPT ![t] = running]
    /\ UNCHANGED <<known, running, writer, hard>>

\* The cancellation of the running record was claimed.
CloseClaimed(t) ==
    /\ pc[t] = "after"
    /\ FinishAll({target[t]}, "cancelled", {})
    /\ pc' = [pc EXCEPT ![t] = "join"]
    /\ UNCHANGED <<queueVars, writer, hard, target>>

\* The join of the writer ends, or its deadline does.
CloseJoined(t) ==
    /\ pc[t] = "join"
    /\ pc' = [pc EXCEPT ![t] = "off"]
    /\ \/ writer = "returned" /\ UNCHANGED recordVars
       \/ writer # "returned" /\ FinishAll({target[t]} \ {None}, "failed", {})
    /\ UNCHANGED <<queueVars, writer, hard, target>>

-----------------------------------------------------------------------------
(* The writer *)

\* Mutant: the remaining positions are counted from zero.
M_StartFromZero(o) ==
    /\ writer = "idle" /\ ~Stopped
    /\ o \in queued /\ \A q \in queued : ticket[o] <= ticket[q]
    /\ writer' = "execute" /\ running' = o
    /\ queued' = queued \ {o}
    /\ state' = [state EXCEPT ![o] = "running"]
    /\ position' = [x \in Ops |-> IF x = o THEN 0
                                  ELSE IF x \in queued THEN Rank(x, queued \ {o}) - 1
                                  ELSE position[x]]
    /\ pc' = [pc EXCEPT ![o] = Watchdog(o)]
    /\ UNCHANGED <<phase, superseded, key, claim, ticket, finishedAt, known, hard, target>>

\* Mutant: the newest queued operation is taken first.
M_StartNewest(o) ==
    /\ writer = "idle" /\ ~Stopped
    /\ o \in queued /\ \A q \in queued : ticket[o] >= ticket[q]
    /\ writer' = "execute" /\ running' = o
    /\ queued' = queued \ {o}
    /\ state' = [state EXCEPT ![o] = "running"]
    /\ position' = [x \in Ops |-> IF x = o THEN 0
                                  ELSE IF x \in queued THEN Rank(x, queued \ {o})
                                  ELSE position[x]]
    /\ pc' = [pc EXCEPT ![o] = Watchdog(o)]
    /\ UNCHANGED <<phase, superseded, key, claim, ticket, finishedAt, known, hard, target>>

\* _run takes the head of the deque and starts its watchdog.
Start(o) ==
    /\ writer = "idle" /\ ~Stopped
    /\ o \in queued /\ \A q \in queued : ticket[o] <= ticket[q]
    /\ writer' = "execute" /\ running' = o
    /\ queued' = queued \ {o}
    /\ state' = [state EXCEPT ![o] = "running"]
    /\ position' = [x \in Ops |-> IF x = o THEN 0
                                  ELSE IF x \in queued THEN Rank(x, queued \ {o})
                                  ELSE position[x]]
    /\ pc' = [pc EXCEPT ![o] = Watchdog(o)]
    /\ UNCHANGED <<phase, superseded, key, claim, ticket, finishedAt, known, hard, target>>

WriterReturns ==
    /\ writer = "idle" /\ Stopped
    /\ writer' = "returned"
    /\ UNCHANGED <<recordVars, queueVars, hard, pc, target>>

\* Mutant: a late heartbeat overwrites the terminal intent.
M_HeartbeatLate(p) ==
    /\ writer = "execute"
    /\ state[running] \notin Terminal
    /\ phase' = [phase EXCEPT ![running] = p]
    /\ state' = [state EXCEPT ![running] = IF p = "publishing" THEN "publishing" ELSE @]
    /\ UNCHANGED <<superseded, key, claim, position, ticket, finishedAt, queueVars, threadVars>>

\* heartbeat(progress, p): a terminal intent is never overwritten.
Heartbeat(p) ==
    /\ writer = "execute"
    /\ state[running] \notin Terminal /\ phase[running] \notin Intents
    /\ phase' = [phase EXCEPT ![running] = p]
    /\ state' = [state EXCEPT ![running] = IF p = "publishing" THEN "publishing" ELSE @]
    /\ UNCHANGED <<superseded, key, claim, position, ticket, finishedAt, queueVars, threadVars>>

\* The terminal state an outcome of execute() gives a record in phase p.
Verdict(outcome, p) ==
    IF outcome = "refused" THEN "failed"
    ELSE IF outcome = "timeout" \/ p = "timing_out" THEN "timed_out"
    ELSE IF p = "cancelling" THEN "cancelled"
    ELSE IF outcome = "raised" THEN "failed" ELSE "succeeded"

\* execute() returned or raised.
Settle(outcome) ==
    /\ writer = "execute" /\ writer' = "settled"
    /\ FinishAll({running}, Verdict(outcome, phase[running]), {})
    /\ UNCHANGED <<queueVars, hard, pc, target>>

\* The finally clause, under a new acquisition of the lock.
ReleaseWriter ==
    /\ writer = "settled" /\ writer' = "idle"
    /\ running' = None
    /\ UNCHANGED <<recordVars, known, queued, hard, pc, target>>

-----------------------------------------------------------------------------
(* _watch *)

WatchEnds(o) ==
    /\ pc[o] \in {"watch", "recheck"} /\ Gone(o)
    /\ pc' = [pc EXCEPT ![o] = "off"]
    /\ UNCHANGED <<recordVars, queueVars, writer, hard, target>>

\* A poll that finds a limit expired; past the hard limit there is no way back.
WatchExpired(o) ==
    /\ pc[o] = "watch" /\ o \in Expiring /\ ~Gone(o)
    /\ pc' = [pc EXCEPT ![o] = "begin"]
    /\ hard' \in {hard, hard \cup {o}}
    /\ UNCHANGED <<recordVars, queueVars, writer, target>>

\* The claim was lost: only the hard limit installs the intent without a claim.
WatchRecheck(o) ==
    /\ pc[o] = "recheck" /\ ~Gone(o)
    /\ \/ /\ o \in hard
          /\ phase' = [phase EXCEPT ![o] = "timing_out"]
          /\ pc' = [pc EXCEPT ![o] = "off"]
       \/ /\ o \notin hard
          /\ pc' = [pc EXCEPT ![o] = "watch"] /\ UNCHANGED phase
    /\ UNCHANGED <<state, superseded, key, claim, position, ticket, finishedAt,
                   queueVars, writer, hard, target>>

-----------------------------------------------------------------------------
(* _request_cancel, by any thread *)

BeginCancel(t, status) ==
    /\ pc[t] = "begin"
    /\ \/ /\ status # "not_active"
          /\ pc' = [pc EXCEPT ![t] = IF status = "claimed" THEN "claimed" ELSE "late"]
          /\ UNCHANGED target
       \/ status = "not_active" /\ Return(t, status)
    /\ UNCHANGED <<recordVars, queueVars, writer, hard>>

\* The record's cancellation, which only a listing shows, becomes "too_late".
MarkTooLate(t) ==
    /\ pc[t] = "late"
    /\ Return(t, "too_late")
    /\ UNCHANGED <<recordVars, queueVars, writer, hard>>

\* The claimed record is no longer the live one: the claim is given back.
DropClaim(t) ==
    /\ pc[t] = "claimed" /\ Gone(Record(t))
    /\ Return(t, "not_active")
    /\ UNCHANGED <<recordVars, queueVars, writer, hard>>

\* Terminal intent is installed before the worker is torn down.
InstallIntent(t) ==
    /\ pc[t] = "claimed" /\ ~Gone(Record(t))
    /\ claim' = [claim EXCEPT ![Record(t)] = t]
    /\ phase' = [phase EXCEPT ![Record(t)] = Intent(t)]
    /\ pc' = [pc EXCEPT ![t] = "finish"]
    /\ UNCHANGED <<state, superseded, key, position, ticket, finishedAt,
                   queueVars, writer, hard, target>>

\* finish_cancel answers.
FinishCancel(t, answer) ==
    /\ pc[t] = "finish" /\ answer \in {"won", "lost"}
    /\ pc' = [pc EXCEPT ![t] = answer]
    /\ UNCHANGED <<recordVars, queueVars, writer, hard, target>>

\* The record forgets the claim; a lost claim is also given back to the proxy.
ForgetClaim(t) ==
    /\ pc[t] \in {"won", "lost"}
    /\ claim' = [claim EXCEPT ![Record(t)] = None]
    /\ Return(t, IF pc[t] = "won" THEN "claimed" ELSE "not_active")
    /\ UNCHANGED <<state, phase, superseded, key, position, ticket, finishedAt,
                   queueVars, writer, hard>>

-----------------------------------------------------------------------------

\* The finishing times that may turn out to be the last one past terminal_max_age.
Ages == {0} \cup {finishedAt[o] : o \in Evictable}

ClientStep(c) ==
    \/ \E o \in Ops, k \in Keys \cup {NoKey}, aged \in Ages : Submit(c, o, k, aged)
    \/ \E k \in Keys \cup {NoKey}, aged \in Ages : SubmitFull(c, k, aged)
    \/ \E o \in Ops : Wait(c, o) \/ CancelQueued(c, o) \/ CancelLive(c, o)
    \/ WaitReturns(c)

WriterStep ==
    \/ \E o \in Ops : Start(o)
    \/ WriterReturns \/ ReleaseWriter
    \/ \E p \in Progress : Heartbeat(p)
    \/ \E outcome \in Outcomes : Settle(outcome)

WatchStep(o) == WatchEnds(o) \/ WatchExpired(o) \/ WatchRecheck(o)

CloseStep(t) == Close(t) \/ CloseClaimed(t) \/ CloseJoined(t)

CancelStep(t) ==
    \/ \E status \in Answers : BeginCancel(t, status)
    \/ MarkTooLate(t) \/ DropClaim(t) \/ InstallIntent(t)
    \/ \E answer \in {"won", "lost"} : FinishCancel(t, answer)
    \/ ForgetClaim(t)

Next ==
    \/ \E c \in Clients : ClientStep(c)
    \/ WriterStep
    \/ \E o \in Ops : WatchStep(o)
    \/ \E t \in Closers : CloseStep(t)
    \/ \E t \in Threads : CancelStep(t)

Spec == Init /\ [][Next]_vars

\* What the threads inside the queue do of themselves: execute() returns, since
\* the worker call behind it has a hard deadline of its own.
Onward ==
    \/ \E o \in Ops : Start(o)
    \/ WriterReturns \/ ReleaseWriter
    \/ \E outcome \in Outcomes : Settle(outcome)
    \/ \E t \in Threads : CancelStep(t)
    \/ \E t \in Closers : CloseClaimed(t) \/ CloseJoined(t)
    \/ \E c \in Clients : WaitReturns(c)

-----------------------------------------------------------------------------
(* Properties *)

TypeOK ==
    /\ state \in [Ops -> States] /\ phase \in [Ops -> Phases]
    /\ superseded \subseteq Ops /\ key \in [Ops -> Keys \cup {NoKey}]
    /\ claim \in [Ops -> Threads \cup {None}]
    /\ position \in [Ops -> Nat] /\ ticket \in [Ops -> Nat] /\ finishedAt \in [Ops -> Nat]
    /\ known \subseteq Ops /\ queued \subseteq Ops /\ running \in Ops \cup {None}
    /\ writer \in {"idle", "execute", "settled", "returned"} /\ hard \subseteq Ops
    /\ pc \in [Threads -> PCs] /\ target \in [Clients \cup Closers -> Ops \cup {None}]

\* No record is forgotten: a record that has not ended is either in the deque or
\* is the one the writer is executing, and the writer executes at most one.
NoOrphan ==
    /\ \A o \in Ops : state[o] = "queued" <=> o \in queued
    /\ \A o \in Ops : state[o] \in Live => running = o /\ writer = "execute"
    /\ running = None <=> writer \in {"idle", "returned"}

\* Eviction never takes a record that has not ended or that a client is waiting
\* for: "Do not evict the just-finished result before a legacy submit-and-wait
\* caller can observe it."
NeededRecordsKept ==
    /\ \A o \in Ops : state[o] \in Live \cup {"queued"} => o \in known
    /\ \A c \in Clients : pc[c] = "wait" => target[c] \in known

\* The cache of records is bounded whatever the clients do: a submission takes it
\* past max_terminal only when everything it keeps is queued, running or waited for.
RecordsBounded ==
    [][known' \ known # {} =>
         \/ Cardinality(known') <= MaxTerminal
         \/ \A o \in known \cap known' : state[o] \in Live \cup {"queued"} \/ Waiters(o) # {}]_vars

\* A replacement key has at most one queued operation.
OneQueuedPerKey ==
    \A a, b \in queued : key[a] = key[b] /\ key[a] # NoKey => a = b

\* An operation is superseded only by a later operation of the same key that was
\* really accepted: a submission refused by a full queue cancels nothing.
SupersededHasSuccessor ==
    \A o \in superseded : \E n \in Ops : key[n] = key[o] /\ ticket[n] > ticket[o]

\* Queue positions follow the order of execution and never promise an operation
\* an earlier turn than it has, although cancel() does not renumber the deque.
PositionsHonest ==
    \A a \in queued :
        /\ position[a] >= Rank(a, queued)
        /\ \A b \in queued : ticket[a] < ticket[b] => position[a] < position[b]

\* A record holds a claim only while the claiming thread is between installing
\* the intent and forgetting the claim, and only on a live record: every claim is
\* released, whoever wins.
ClaimsAccounted ==
    \A o \in Ops : claim[o] # None =>
        /\ state[o] \in Live
        /\ Record(claim[o]) = o /\ pc[claim[o]] \in {"finish", "won", "lost"}

\* A terminal record is stable: neither its state nor its phase changes again,
\* although cancellers, the watchdog, close and the writer all race to end it.
TerminalFrozen ==
    [][\A o \in Ops : state[o] \in Terminal
           => state'[o] = state[o] /\ phase'[o] = phase[o]]_vars

\* A timeout or cancellation intent is never turned back into a build, and an
\* operation that has one never succeeds.
IntentWins ==
    [][\A o \in Ops : phase[o] \in Intents
           => /\ phase'[o] \in Intents
              /\ state'[o] = "succeeded" => state[o] = "succeeded"]_vars

\* The queue implements its lifecycle: operations run one at a time, in the order
\* of submission, and nothing but a cancellation takes them out of the deque.
Lifecycle == INSTANCE OperationLifecycle WITH Ops <- Ops, state <- state, ticket <- ticket
LifecycleImplemented == Lifecycle!Spec

\* The threads are never all waiting for each other: while an operation has not
\* ended, a client waits or a closer joins, some thread inside the queue can take
\* a step, also when close, a limit and a cancellation met.  No such step repeats.
NoStandstill ==
    (\E o \in Ops : state[o] \in Live \cup {"queued"})
    \/ (\E c \in Clients : pc[c] = "wait")
    \/ (\E t \in Closers : pc[t] \notin {"idle", "off"})
        => ENABLED Onward

\* Replacement by key: at most one operation of a key waits, and none goes for
\* a submission that was refused.
ReplacementSound == OneQueuedPerKey /\ SupersededHasSuccessor

\* Whoever wins a race over a record, the claim is given back and somebody can
\* go on.
RacesSettle == ClaimsAccounted /\ NoStandstill
=============================================================================
