---------------------------- MODULE SessionProxy ----------------------------
(***************************************************************************)
(* The proxy of the build worker (engine/solidifai_engine/worker.py): the  *)
(* active call with its cancellation claim, the worker process behind the  *)
(* pipe, and the files a killed call leaves behind.  Steps of the writer   *)
(* thread, of the worker process and of cancelling threads are partial     *)
(* actions here; EngineWriter joins them with the steps of the queue.      *)
(*                                                                         *)
(* A call is <<o, part>>: part 1 is the method itself and part 2 the       *)
(* get_readiness that _execute_operation adds to a successful build.       *)
(* The pipe never holds more than one frame that matters, so it is part of *)
(* the worker's place: "asking" is a publishing frame on its way, "ok",    *)
(* "refused" and "err" are replies on their way.  A dead worker's frame    *)
(* can still be read.                                                      *)
(***************************************************************************)
EXTENDS OperationQueue

CONSTANTS
    ParentOwned,    \* operations of parent-owned writers: no worker call at all
    Publishing,     \* operations whose method publishes when it succeeds
    Journaled,      \* operations of JOURNALED_METHODS
    WithReadiness   \* operations submitted with include_readiness

ASSUME SessionProxyAssumption ==
    /\ ParentOwned \subseteq Ops /\ WithReadiness \subseteq Publishing
    /\ Publishing \subseteq Ops \ ParentOwned /\ Journaled \subseteq Publishing

Calls == Ops \X {1, 2}
Replies == {"ok", "refused", "err"}
Frames == Replies \cup {"asking"}

VARIABLES
    active,      \* _active_call
    flags,       \* of the active call: "uncancellable" and "completed"
    claimant,    \* the thread whose cancellation_claim the active call carries
    held,        \* per thread: the call its claim was granted for
    proc,        \* _proc: "none", "alive" or "dead"
    worker,      \* where the worker process is in serving its call
    step,        \* where the writer thread is in _execute_operation
    part,        \* the part of the operation the writer is at
    result,      \* what the last call gave the writer
    teardown,    \* per thread: where it is in finish_cancel
    grabbed,     \* the threads in finish_cancel whose captured process is still _proc
    journal,     \* per operation: the version of the files its journal holds
    sources,     \* whose version of the journaled files the workspace has
    committed,   \* the operations whose publication current.json has been moved to
    selected     \* the one of them it selects now

claimVars == <<active, flags, claimant, held>>
workerVars == <<proc, worker>>
stepVars == <<step, part, result>>
teardownVars == <<teardown, grabbed>>
fileVars == <<journal, sources, committed, selected>>
proxyVars == <<claimVars, workerVars, stepVars, teardownVars, fileVars>>

Cancellers == Clients \cup Ops

ProxyInit ==
    /\ active = None /\ flags = {} /\ claimant = None
    /\ held = [t \in Cancellers |-> None]
    /\ proc = "alive" /\ worker = "free"
    /\ step = "out" /\ part = 1 /\ result = "none"
    /\ teardown = [t \in Cancellers |-> "no"] /\ grabbed = {}
    /\ journal = [o \in Ops |-> None] /\ sources = None /\ committed = {}
    /\ selected = None

Call == <<running, part>>
IsJournaled(call) == call[1] \in Journaled /\ call[2] = 1
RestoredBy(call) == IF IsJournaled(call) THEN journal[call[1]] ELSE sources

\* What a worker's startup makes of the files: those of the selected generation.
Recovered == IF selected = None THEN sources ELSE selected

\* A process that ends leaves a frame it has already sent in the pipe.
Ended == IF worker \in Frames THEN worker ELSE "gone"

-----------------------------------------------------------------------------
(* The writer thread *)

\* _ensure, _journal and _begin_active_call; a respawned worker recovers the
\* publication in its startup, and may die there.
BeginCall ==
    /\ step = "begin"
    /\ \/ /\ proc = "alive"
          /\ UNCHANGED <<workerVars, grabbed, sources>>
       \/ /\ proc # "alive"
          /\ proc' = "alive" /\ worker' = "free" /\ grabbed' = {}
          /\ sources' = Recovered
    /\ journal' = IF IsJournaled(Call) THEN [journal EXCEPT ![running] = sources'] ELSE journal
    /\ active' = Call /\ flags' = {} /\ claimant' = None
    /\ step' = "send"
    /\ UNCHANGED <<held, part, result, teardown, committed, selected>>

StartupCrash ==
    /\ step = "begin" /\ proc # "alive"
    /\ proc' = "none" /\ worker' = "gone" /\ grabbed' = {}
    /\ sources' \in {sources, Recovered}
    /\ step' = "return" /\ result' = "crash"
    /\ UNCHANGED <<claimVars, part, teardown, journal, committed, selected>>

\* conn.send; when the worker is gone the active call is left behind.
SendRequest ==
    /\ step = "send"
    /\ \/ /\ proc = "alive"
          /\ worker' = "work" /\ step' = "recv"
          /\ UNCHANGED <<proc, result, sources>>
       \/ /\ proc # "alive"
          /\ proc' = "none" /\ worker' = "gone"
          /\ sources' = RestoredBy(Call)
          /\ step' = "return" /\ result' = "crash"
    /\ UNCHANGED <<claimVars, part, teardownVars, journal, committed, selected>>

\* A publishing frame makes the call uncancellable before it is acknowledged;
\* acknowledging a worker that has died meanwhile raises.
RecvPublishing ==
    /\ step = "recv" /\ worker = "asking"
    /\ flags' = IF active # None THEN flags \cup {"uncancellable"} ELSE flags
    /\ \/ proc = "alive" /\ worker' = "acked" /\ step' = "report" /\ UNCHANGED result
       \/ proc # "alive" /\ worker' = "gone" /\ step' = "finish" /\ result' = "err"
    /\ UNCHANGED <<active, claimant, held, proc, part, teardownVars, fileVars>>

RecvReply ==
    /\ step = "recv" /\ worker \in Replies
    /\ result' = worker /\ worker' = IF proc = "alive" THEN "free" ELSE "gone"
    /\ step' = "finish"
    /\ UNCHANGED <<claimVars, proc, part, teardownVars, fileVars>>

\* Mutant: a worker that overran its budget is not torn down.
M_GiveUpKeeps(reason) ==
    /\ step = "recv" /\ worker \notin Frames
    /\ \/ reason = "crash" /\ proc # "alive" /\ proc' = "none" /\ worker' = "gone"
       \/ reason = "timeout" /\ proc = "alive" /\ UNCHANGED workerVars
    /\ sources' = RestoredBy(Call)
    /\ result' = reason /\ step' = "finish"
    /\ UNCHANGED <<claimVars, part, teardownVars, journal, committed, selected>>

\* Mutant: the wait for the worker has no deadline.
M_GiveUpWaits(reason) ==
    /\ step = "recv" /\ worker \notin Frames
    /\ reason = "crash" /\ proc # "alive"
    /\ proc' = "none" /\ worker' = "gone"
    /\ sources' = RestoredBy(Call)
    /\ result' = reason /\ step' = "finish"
    /\ UNCHANGED <<claimVars, part, teardownVars, journal, committed, selected>>

\* The worker died (KernelCrash) or overran its budget (WorkerTimeout): tear it
\* down and put the journaled files back.
GiveUp(reason) ==
    /\ step = "recv" /\ worker \notin Frames
    /\ \/ reason = "crash" /\ proc # "alive"
       \/ reason = "timeout" /\ proc = "alive"
    /\ proc' = "none" /\ worker' = "gone"
    /\ sources' = RestoredBy(Call)
    /\ result' = reason /\ step' = "finish"
    /\ UNCHANGED <<claimVars, part, teardownVars, journal, committed, selected>>

\* _finish_active_call keeps a call with a claim pending for its claimant.
FinishCall ==
    /\ step = "finish"
    /\ \/ /\ active = Call
          /\ flags' = flags \cup {"completed"}
          /\ active' = IF claimant = None THEN None ELSE active
       \/ active # Call /\ UNCHANGED <<active, flags>>
    /\ \/ /\ result = "ok" /\ part = 1 /\ running \in WithReadiness
          /\ step' = "begin" /\ part' = 2
       \/ /\ ~(result = "ok" /\ part = 1 /\ running \in WithReadiness)
          /\ step' = "return" /\ UNCHANGED part
    /\ UNCHANGED <<claimant, held, workerVars, result, teardownVars, fileVars>>

-----------------------------------------------------------------------------
(* The worker process *)

\* publishing(): ask, and wait for the acknowledgement.
WorkerAsks ==
    /\ proc = "alive" /\ worker = "work"
    /\ running \in Publishing /\ part = 1
    /\ worker' = "asking" /\ UNCHANGED proc
    /\ UNCHANGED <<claimVars, stepVars, teardownVars, fileVars>>

\* The pointer moves, then the compatibility copies in the workspace.
WorkerCommits ==
    /\ proc = "alive" /\ worker = "acked"
    /\ worker' = "committed" /\ committed' = committed \cup {running} /\ selected' = running
    /\ UNCHANGED <<claimVars, proc, stepVars, teardownVars, journal, sources>>

\* Mutant: the copies may be written before the pointer moves.
M_WorkerMirrors ==
    /\ proc = "alive" /\ worker \in {"acked", "committed"}
    /\ worker' = IF worker = "acked" THEN worker ELSE "mirrored"
    /\ sources' = IF running \in Journaled THEN running ELSE sources
    /\ UNCHANGED <<claimVars, proc, stepVars, teardownVars, journal, committed, selected>>

WorkerMirrors ==
    /\ proc = "alive" /\ worker = "committed"
    /\ worker' = "mirrored"
    /\ sources' = IF running \in Journaled THEN running ELSE sources
    /\ UNCHANGED <<claimVars, proc, stepVars, teardownVars, journal, committed, selected>>

\* Mutant: the worker replies as soon as its publication is acknowledged.
M_WorkerReplies(reply) ==
    /\ proc = "alive"
    /\ \/ worker = "work" /\ reply \in {"refused", "err"}
       \/ worker = "work" /\ reply = "ok" /\ ~(running \in Publishing /\ part = 1)
       \/ worker \in {"acked", "mirrored"} /\ reply = "ok"
    /\ worker' = reply
    /\ UNCHANGED <<claimVars, proc, stepVars, teardownVars, fileVars>>

WorkerReplies(reply) ==
    /\ proc = "alive"
    /\ \/ worker = "work" /\ reply \in {"refused", "err"}
       \/ worker = "work" /\ reply = "ok" /\ ~(running \in Publishing /\ part = 1)
       \/ worker = "mirrored" /\ reply = "ok"
    /\ worker' = reply
    /\ UNCHANGED <<claimVars, proc, stepVars, teardownVars, fileVars>>

\* A native fault ends the process wherever it is.
WorkerDies ==
    /\ proc = "alive"
    /\ proc' = "dead" /\ worker' = Ended
    /\ UNCHANGED <<claimVars, stepVars, teardownVars, fileVars>>

-----------------------------------------------------------------------------
(* Cancelling threads *)

\* What begin_cancel(o) answers.
CancelAnswer(o) ==
    IF active = None THEN "not_active"
    ELSE IF active[1] # o THEN "not_active"
    ELSE IF "uncancellable" \in flags THEN "too_late"
    ELSE IF claimant # None THEN "not_active" ELSE "claimed"

BeginCancelCall(t) ==
    /\ \/ /\ CancelAnswer(Record(t)) = "claimed"
          /\ claimant' = t /\ held' = [held EXCEPT ![t] = active]
       \/ CancelAnswer(Record(t)) # "claimed" /\ UNCHANGED <<claimant, held>>
    /\ UNCHANGED <<active, flags, workerVars, stepVars, teardownVars, fileVars>>

ClaimStands(t) == active = held[t] /\ claimant = t

\* Mutant: only the claim of a completed call is released.
M_ReleaseClaim(t) ==
    \/ /\ ClaimStands(t) /\ "completed" \in flags
       /\ claimant' = None /\ active' = None
    \/ ~(ClaimStands(t) /\ "completed" \in flags) /\ UNCHANGED <<active, claimant>>

\* release_cancel_claim
ReleaseClaim(t) ==
    \/ /\ ClaimStands(t)
       /\ claimant' = None
       /\ active' = IF "completed" \in flags THEN None ELSE active
    \/ ~ClaimStands(t) /\ UNCHANGED <<active, claimant>>

\* finish_cancel under the lock: the call is taken away and its process captured.
TakeCall(t) ==
    /\ teardown[t] = "no" /\ ClaimStands(t)
    /\ active' = None
    /\ grabbed' = IF proc = "none" THEN grabbed ELSE grabbed \cup {t}
    /\ teardown' = [teardown EXCEPT ![t] = "kill"]
    /\ UNCHANGED <<flags, claimant, held, workerVars, stepVars, fileVars>>

\* finish_cancel after the lock: kill the captured process ...
KillCaptured(t) ==
    /\ teardown[t] = "kill"
    /\ teardown' = [teardown EXCEPT ![t] = "rollback"]
    /\ grabbed' = grabbed \ {t}
    /\ \/ t \in grabbed /\ proc = "alive" /\ proc' = "dead" /\ worker' = Ended
       \/ ~(t \in grabbed /\ proc = "alive") /\ UNCHANGED workerVars
    /\ UNCHANGED <<claimVars, stepVars, fileVars>>

\* ... and put the files of its call back.
RollbackCaptured(t) ==
    /\ teardown[t] = "rollback"
    /\ teardown' = [teardown EXCEPT ![t] = "no"]
    /\ sources' = RestoredBy(held[t])
    /\ UNCHANGED <<claimVars, workerVars, stepVars, grabbed, journal, committed, selected>>
=============================================================================
