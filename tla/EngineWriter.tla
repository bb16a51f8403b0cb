---------------------------- MODULE EngineWriter ----------------------------
(***************************************************************************)
(* The engine's writer: the operation queue with the session proxy as its  *)
(* execute, begin_cancel, finish_cancel and release_cancel_claim           *)
(* (engine/solidifai_engine/server.py, _execute_operation and the          *)
(* _*_operation_cancel hooks).  Every step conjoins a step of the queue    *)
(* with what it does to the proxy, or is a step of the proxy or the worker *)
(* process that the queue does not see.  Shutdown is left to               *)
(* OperationQueue.                                                         *)
(***************************************************************************)
EXTENDS SessionProxy

\* The proxy may give any of the answers.
ASSUME EngineWriterAssumption == Answers = CancelStatus

writerVars == <<vars, proxyVars>>

WInit == Init /\ ProxyInit

-----------------------------------------------------------------------------
(* The writer thread *)

WStart(o) ==
    /\ Start(o)
    /\ step' = IF o \in ParentOwned THEN "return" ELSE "begin"
    /\ part' = 1 /\ result' = "none"
    /\ UNCHANGED <<claimVars, workerVars, teardownVars, fileVars>>

\* progress frames; one that finds the record ended or claimed changes nothing.
Report(p) ==
    \/ Heartbeat(p)
    \/ (state[running] \in Terminal \/ phase[running] \in Intents) /\ UNCHANGED vars

WReportPublishing ==
    /\ step = "report" /\ step' = "recv"
    /\ Report("publishing")
    /\ UNCHANGED <<claimVars, workerVars, part, result, teardownVars, fileVars>>

WReportBuilding ==
    /\ step = "recv" /\ proc = "alive"
    /\ worker \in {"work", "acked", "committed", "mirrored"}
    /\ Report("building")
    /\ UNCHANGED proxyVars

\* What _execute_operation makes of the last call; a parent-owned writer may
\* return or raise anything but a timeout.
Outcome ==
    IF running \in ParentOwned THEN {"returned", "refused", "raised"}
    ELSE IF result = "ok" \/ (result = "refused" /\ part = 2) THEN {"returned"}
    ELSE IF result = "refused" THEN {"refused"}
    ELSE IF result = "timeout" THEN {"timeout"} ELSE {"raised"}

\* _finish gives the record's claim back to the proxy.
WSettle ==
    /\ step = "return" /\ step' = "out"
    /\ \E outcome \in Outcome : Settle(outcome)
    /\ \/ claim[running] # None /\ ReleaseClaim(claim[running])
       \/ claim[running] = None /\ UNCHANGED <<active, claimant>>
    /\ UNCHANGED <<flags, held, workerVars, part, result, teardownVars, fileVars>>

\* Writer steps inside _call_locked, invisible to the queue.
CallStep ==
    /\ writer = "execute"
    /\ \/ BeginCall \/ StartupCrash \/ SendRequest \/ RecvPublishing \/ RecvReply
       \/ GiveUp("crash") \/ GiveUp("timeout") \/ FinishCall
    /\ UNCHANGED vars

WWriterStep ==
    \/ \E o \in Ops : WStart(o)
    \/ CallStep
    \/ WReportPublishing \/ WReportBuilding
    \/ WSettle
    \/ ReleaseWriter /\ UNCHANGED proxyVars

WorkerStep ==
    /\ \/ WorkerAsks \/ WorkerCommits \/ WorkerMirrors \/ WorkerDies
       \/ \E reply \in Replies : WorkerReplies(reply)
    /\ UNCHANGED vars

-----------------------------------------------------------------------------
(* Cancelling threads *)

WBeginCancel(t) ==
    /\ BeginCancel(t, CancelAnswer(Record(t)))
    /\ BeginCancelCall(t)

WDropClaim(t) ==
    /\ DropClaim(t)
    /\ ReleaseClaim(t)
    /\ UNCHANGED <<flags, held, workerVars, stepVars, teardownVars, fileVars>>

WTakeCall(t) ==
    /\ pc[t] = "finish"
    /\ TakeCall(t) /\ UNCHANGED vars

WKill(t) == KillCaptured(t) /\ UNCHANGED vars

WWins(t) == FinishCancel(t, "won") /\ RollbackCaptured(t)

\* The call ended or its claim was released first.
WLoses(t) ==
    /\ teardown[t] = "no" /\ ~ClaimStands(t)
    /\ FinishCancel(t, "lost") /\ UNCHANGED proxyVars

\* A lost claim is released once more, which finds nothing to release.
WForgetClaim(t) ==
    /\ ForgetClaim(t)
    /\ \/ pc[t] = "lost" /\ ReleaseClaim(t)
       \/ pc[t] = "won" /\ UNCHANGED <<active, claimant>>
    /\ UNCHANGED <<flags, held, workerVars, stepVars, teardownVars, fileVars>>

WCancelStep(t) ==
    \/ WBeginCancel(t) \/ WDropClaim(t)
    \/ (MarkTooLate(t) \/ InstallIntent(t)) /\ UNCHANGED proxyVars
    \/ WTakeCall(t) \/ WKill(t) \/ WWins(t) \/ WLoses(t) \/ WForgetClaim(t)

WNext ==
    \/ \E c \in Clients : ClientStep(c) /\ UNCHANGED proxyVars
    \/ \E o \in Ops : WatchStep(o) /\ UNCHANGED proxyVars
    \/ WWriterStep
    \/ WorkerStep
    \/ \E t \in Cancellers : WCancelStep(t)

WSpec == WInit /\ [][WNext]_writerVars

\* The threads go on.  The worker owes nothing: the writer stops waiting for it at
\* its deadline, and only a parent-owned writer is trusted to return.
WFairSpec ==
    /\ WSpec
    /\ WF_writerVars(WWriterStep /\ ~WReportBuilding)
    /\ \A t \in Cancellers : WF_writerVars(WCancelStep(t))

-----------------------------------------------------------------------------
(* Properties *)

WTypeOK ==
    /\ TypeOK
    /\ active \in Calls \cup {None} /\ flags \subseteq {"uncancellable", "completed"}
    /\ claimant \in Cancellers \cup {None} /\ held \in [Cancellers -> Calls \cup {None}]
    /\ proc \in {"none", "alive", "dead"}
    /\ worker \in Frames \cup {"free", "work", "acked", "committed", "mirrored", "gone"}
    /\ step \in {"out", "begin", "send", "recv", "report", "finish", "return"}
    /\ part \in {1, 2} /\ result \in Replies \cup {"none", "crash", "timeout"}
    /\ teardown \in [Cancellers -> {"no", "kill", "rollback"}] /\ grabbed \subseteq Cancellers
    /\ journal \in [Ops -> Ops \cup {None}] /\ sources \in Ops \cup {None}
    /\ committed \subseteq Ops /\ selected \in Ops \cup {None}

\* The pipe stays in step: a call is only sent to a worker that is free, so a reply
\* can never be the answer to an earlier call that was cancelled or timed out.
PipeInStep ==
    /\ step \in {"out", "begin", "send", "return"} => worker \in {"free", "gone"}
    /\ step = "send" /\ proc = "alive" => worker = "free"

\* An operation publishes only while it is the running one and has not ended: none
\* that was reported failed, cancelled or timed out moves the pointer afterwards.
PublishesWhileLive ==
    \A o \in committed' \ committed : running = o /\ state[o] \in Live

\* A publishing operation that succeeded did move the pointer.
SuccessIsPublished ==
    \A o \in Publishing : state[o] = "succeeded" => o \in committed

\* A claim on the active call always has a thread that will finish or release it.
ClaimsHaveHolders ==
    active # None /\ claimant # None =>
        /\ held[claimant] = active
        /\ pc[claimant] \in {"claimed", "finish"}

\* The workspace's journaled files are never those of an operation that did not
\* publish, whichever of the writer and the cancelling threads rolls back last.
SourcesPublished == sources # None => sources \in committed

\* Every operation ends although the worker may hang, crash or be killed.
EveryCallEnds == \A o \in Ops : state[o] = "queued" ~> state[o] \in Terminal

\* The writer, the proxy and the worker stay in step, frame for frame.
WritersInStep == WTypeOK /\ PipeInStep

\* What an operation reports and what the pointer says agree: a success is
\* published, and nothing is published for an operation that has ended.
PublicationAgrees == [][SuccessIsPublished' /\ PublishesWhileLive]_writerVars

-----------------------------------------------------------------------------
(* A statement of the code that the code does not keep *)

\* "Make publication the no-cancel boundary before exposing it": a cancelled
\* operation has not published.
CancelledIsUnpublished == \A o \in Ops : state[o] = "cancelled" => o \notin committed
=============================================================================
