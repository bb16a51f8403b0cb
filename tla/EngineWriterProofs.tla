------------------------- MODULE EngineWriterProofs -------------------------
(***************************************************************************)
(* The operation queue, and the queue with the session proxy it drives.    *)
(*                                                                         *)
(* First the open queue of OperationQueue, whose specification is Spec: it *)
(* is well typed, never forgets an operation, never changes an ended one   *)
(* and implements OperationLifecycle, for any sets of operations, keys,    *)
(* clients and closers and any limits.                                     *)
(*                                                                         *)
(* The invariant behind all of it is Accounted: NoOrphan, and that what    *)
(* the writer executes and what the cancelling threads hold has started.   *)
(* A cancelling thread acts on its record after it let the lock go; it can *)
(* only end the right record because no held record is still in the deque. *)
(*                                                                         *)
(* What clients read needs more.  Tickets order the records: a replacement *)
(* and a position are about records accepted before another (Ticketed,     *)
(* Replacing), and the cache forgets by the order of finishing             *)
(* (FinishOrdered, Kept).  A claim on the active record belongs to the     *)
(* thread that has it under way (ClaimsHeld).                              *)
(*                                                                         *)
(* Then the composition of EngineWriter, whose specification is WSpec, for *)
(* any part of the operations publishing, journaled, parent-owned or       *)
(* followed by a readiness call.  It is an instance of the open queue      *)
(* (IsAQueue), so what is proved of the queue holds of it.  The proxy adds *)
(* four facts that need each other: a call that is not being received has  *)
(* no frame and no work on its way (Piped); who got as far as the pointer  *)
(* is recorded in `committed` (Published); every version of the files that *)
(* can be put back is one that was published (Versions); and a claim, a    *)
(* captured process and a call to put back each have one thread (Claimed). *)
(***************************************************************************)
EXTENDS EngineWriter, FiniteSetTheorems, WellFoundedInduction, TLAPS

Started(o) == state[o] \notin {"new", "queued"}

\* What the writer executes and what a closer cancels has left the deque.
HeldStarted ==
    /\ running # None => Started(running)
    /\ \A t \in Closers : target[t] # None => Started(target[t])

Accounted == NoOrphan /\ HeldStarted

-----------------------------------------------------------------------------
(* Counting *)

\* Sets of operations, and of records a closer may hold, have natural cardinalities.
LEMMA CountType ==
    ASSUME NEW S, S \subseteq Ops \cup {None}
    PROVE  Cardinality(S) \in Nat
<1>1. IsFiniteSet(Ops \cup {None})
  BY OperationQueueAssumption, FS_AddElement DEF OperationQueueAssumption
<1>2. IsFiniteSet(S)
  BY <1>1, FS_Subset
<1> QED BY <1>2, FS_CardinalityType

\* A position in a queue of operations is a natural number.
LEMMA RankType ==
    ASSUME NEW o, NEW S, S \subseteq Ops \cup {None}
    PROVE  Rank(o, S) \in Nat
<1>1. {q \in S : ticket[q] <= ticket[o]} \subseteq Ops \cup {None}
  OBVIOUS
<1> QED BY <1>1, CountType DEF Rank

\* So are the numbers of submissions and of ended operations.
LEMMA TotalsType == Submissions \in Nat /\ Finishes \in Nat
<1>1. {o \in Ops : state[o] # "new"} \subseteq Ops \cup {None}
  OBVIOUS
<1>2. {o \in Ops : state[o] \in Terminal} \subseteq Ops \cup {None}
  OBVIOUS
<1> QED BY <1>1, <1>2, CountType DEF Submissions, Finishes

-----------------------------------------------------------------------------
(* Type correctness *)

RecordsTyped ==
    /\ state \in [Ops -> States] /\ phase \in [Ops -> Phases]
    /\ superseded \subseteq Ops /\ key \in [Ops -> Keys \cup {NoKey}]
    /\ claim \in [Ops -> Threads \cup {None}]
    /\ position \in [Ops -> Nat] /\ ticket \in [Ops -> Nat] /\ finishedAt \in [Ops -> Nat]

QueueTyped ==
    /\ known \subseteq Ops /\ queued \subseteq Ops /\ running \in Ops \cup {None}
    /\ writer \in {"idle", "execute", "settled", "returned"} /\ hard \subseteq Ops

ThreadsTyped ==
    /\ pc \in [Threads -> PCs] /\ target \in [Clients \cup Closers -> Ops \cup {None}]

\* Finishing records keeps them well typed.
LEMMA FinishAllTyped ==
    ASSUME TypeOK, NEW S, S \subseteq Ops \cup {None}, NEW final \in Terminal,
           NEW R, R \subseteq Ops, FinishAll(S, final, R)
    PROVE  RecordsTyped'
<1> DEFINE ended == {o \in S : state[o] \notin Terminal}
<1>1. ended \subseteq Ops \cup {None}
  OBVIOUS
<1>2. \A o \in Ops : Finishes + Rank(o, ended) \in Nat
  BY <1>1, RankType, TotalsType
<1>3. finishedAt' \in [Ops -> Nat]
  <2>1. finishedAt' = [o \in Ops |-> IF o \in ended THEN Finishes + Rank(o, ended) ELSE finishedAt[o]]
    BY DEF FinishAll
  <2> HIDE DEF ended
  <2> QED BY <1>2, <2>1 DEF TypeOK
<1>4. state' \in [Ops -> States] /\ superseded' \subseteq Ops
  BY DEF FinishAll, TypeOK, States
<1>5. claim' \in [Ops -> Threads \cup {None}] /\ position' \in [Ops -> Nat]
  BY DEF FinishAll, TypeOK
<1> QED BY <1>3, <1>4, <1>5 DEF FinishAll, TypeOK, RecordsTyped

\* A call of _request_cancel returns to a place its thread can be in.
LEMMA ReturnTyped ==
    ASSUME TypeOK, NEW t \in Threads, NEW outcome, Return(t, outcome)
    PROVE  ThreadsTyped'
BY DEF Return, TypeOK, ThreadsTyped, PCs

\* A thread that cancels, or is about to end what it has cancelled, holds a record.
CancelPCs == {"begin", "late", "claimed", "finish", "won", "lost", "after"}
CancellersHold == \A t \in Threads : pc[t] \in CancelPCs => Record(t) \in Ops

\* CancellersHold is inductive for well typed states.
LEMMA CancellersHoldNext ==
    ASSUME TypeOK, CancellersHold, [Next]_vars
    PROVE  CancellersHold'
<1> USE OperationQueueAssumption DEF OperationQueueAssumption, TypeOK, CancellersHold, CancelPCs, Record, Threads
<1>1. ASSUME NEW c \in Clients, ClientStep(c) PROVE CancellersHold'
  <2>1. ASSUME NEW o \in Ops, NEW k \in Keys \cup {NoKey}, NEW aged \in Ages, Submit(c, o, k, aged)
        PROVE  CancellersHold'
    BY <2>1 DEF Submit
  <2>2. ASSUME NEW k \in Keys \cup {NoKey}, NEW aged \in Ages, SubmitFull(c, k, aged)
        PROVE  CancellersHold'
    BY <2>2 DEF SubmitFull, threadVars
  <2>3. ASSUME NEW o \in Ops, Wait(c, o) \/ CancelLive(c, o) PROVE CancellersHold'
    BY <2>3 DEF Wait, CancelLive
  <2>4. ASSUME NEW o \in Ops, CancelQueued(c, o) PROVE CancellersHold'
    BY <2>4 DEF CancelQueued, threadVars
  <2>5. CASE WaitReturns(c)
    BY <2>5 DEF WaitReturns
  <2> QED BY <1>1, <2>1, <2>2, <2>3, <2>4, <2>5 DEF ClientStep
<1>2. CASE WriterStep
  <2>1. ASSUME NEW o \in Ops, Start(o) PROVE CancellersHold'
    BY <2>1 DEF Start
  <2>2. CASE UNCHANGED <<pc, target>>
    BY <2>2
  <2> QED
    BY <1>2, <2>1, <2>2 DEF WriterStep, WriterReturns, ReleaseWriter, Heartbeat, Settle, threadVars
<1>3. ASSUME NEW o \in Ops, WatchStep(o) PROVE CancellersHold'
  BY <1>3 DEF WatchStep, WatchEnds, WatchExpired, WatchRecheck
<1>4. ASSUME NEW t \in Closers, CloseStep(t) PROVE CancellersHold'
  BY <1>4 DEF CloseStep, Close, CloseClaimed, CloseJoined
<1>5. ASSUME NEW t \in Threads, CancelStep(t) PROVE CancellersHold'
  <2>1. ASSUME NEW outcome, pc[t] \in CancelPCs, Return(t, outcome) PROVE CancellersHold'
    BY <2>1 DEF Return
  <2>2. ASSUME NEW p, pc[t] \in CancelPCs, pc' = [pc EXCEPT ![t] = p], UNCHANGED target
        PROVE  CancellersHold'
    BY <2>2
  <2> QED
    BY <1>5, <2>1, <2>2 DEF CancelStep, BeginCancel, MarkTooLate, DropClaim, InstallIntent,
       FinishCancel, ForgetClaim
<1>6. CASE UNCHANGED vars
  BY <1>6 DEF vars, threadVars
<1> QED BY <1>1, <1>2, <1>3, <1>4, <1>5, <1>6 DEF Next

\* Every reachable state is well typed.
THEOREM TypeCorrect == Spec => [](TypeOK /\ CancellersHold)
<1>1. Init => TypeOK /\ CancellersHold
  BY DEF Init, TypeOK, States, Phases, Progress, PCs, CancellersHold, CancelPCs
<1>2. TypeOK /\ CancellersHold /\ [Next]_vars => (TypeOK /\ CancellersHold)'
  <2> SUFFICES ASSUME TypeOK, CancellersHold, [Next]_vars
               PROVE  RecordsTyped' /\ QueueTyped' /\ ThreadsTyped'
    BY CancellersHoldNext DEF TypeOK, RecordsTyped, QueueTyped, ThreadsTyped
  <2> USE DEF QueueTyped, ThreadsTyped
  <2>1. ASSUME NEW c \in Clients, ClientStep(c)
        PROVE  RecordsTyped' /\ QueueTyped' /\ ThreadsTyped'
    <3>1. ASSUME NEW o \in Ops, NEW k \in Keys \cup {NoKey}, NEW aged \in Ages, Submit(c, o, k, aged)
          PROVE  RecordsTyped' /\ QueueTyped' /\ ThreadsTyped'
      <4> DEFINE dropped == SameKey(k)
                 members == (queued \ dropped) \cup {o}
      <4>1. dropped \subseteq Ops /\ members \subseteq Ops
        BY DEF SameKey, TypeOK
      <4>2. Submissions + 1 \in Nat /\ Cardinality(members) \in Nat
        BY <4>1, TotalsType, CountType
      <4>3. \A x \in Ops : Rank(x, members \ {o}) \in Nat /\ Finishes + Rank(x, dropped) \in Nat
        BY <4>1, RankType, TotalsType
      <4>4. state' \in [Ops -> States] /\ superseded' \subseteq Ops
        BY <3>1, <4>1 DEF Submit, TypeOK, States, Terminal
      <4>5. finishedAt' \in [Ops -> Nat]
        BY <3>1, <4>3 DEF Submit, TypeOK
      <4>6. position' \in [Ops -> Nat]
        BY <3>1, <4>2, <4>3 DEF Submit, TypeOK
      <4>7. claim' \in [Ops -> Threads \cup {None}] /\ key' \in [Ops -> Keys \cup {NoKey}]
        BY <3>1 DEF Submit, TypeOK
      <4>8. ticket' \in [Ops -> Nat]
        BY <3>1, <4>2 DEF Submit, TypeOK
      <4>9. QueueTyped'
        BY <3>1, <4>1 DEF Submit, TypeOK, Pruned
      <4>10. ThreadsTyped'
        BY <3>1 DEF Submit, TypeOK, PCs
      <4> QED BY <3>1, <4>4, <4>5, <4>6, <4>7, <4>8, <4>9, <4>10 DEF Submit, TypeOK, RecordsTyped
    <3>2. ASSUME NEW k \in Keys \cup {NoKey}, NEW aged \in Ages, SubmitFull(c, k, aged)
          PROVE  RecordsTyped' /\ QueueTyped' /\ ThreadsTyped'
      <4>1. SameKey(k) \subseteq Ops
        BY DEF SameKey, TypeOK
      <4>2. RecordsTyped'
        BY <3>2, <4>1, FinishAllTyped DEF SubmitFull, Terminal
      <4> QED BY <3>2, <4>2 DEF SubmitFull, TypeOK, Pruned, threadVars
    <3>3. ASSUME NEW o \in Ops, Wait(c, o)
          PROVE  RecordsTyped' /\ QueueTyped' /\ ThreadsTyped'
      BY <3>3 DEF Wait, TypeOK, RecordsTyped, recordVars, queueVars, PCs
    <3>4. ASSUME NEW o \in Ops, CancelQueued(c, o)
          PROVE  RecordsTyped' /\ QueueTyped' /\ ThreadsTyped'
      <4>1. RecordsTyped'
        BY <3>4, FinishAllTyped DEF CancelQueued, Terminal
      <4> QED BY <3>4, <4>1 DEF CancelQueued, TypeOK, threadVars
    <3>5. ASSUME NEW o \in Ops, CancelLive(c, o)
          PROVE  RecordsTyped' /\ QueueTyped' /\ ThreadsTyped'
      BY <3>5 DEF CancelLive, TypeOK, RecordsTyped, recordVars, queueVars, PCs
    <3>6. ASSUME WaitReturns(c)
          PROVE  RecordsTyped' /\ QueueTyped' /\ ThreadsTyped'
      BY <3>6 DEF WaitReturns, TypeOK, RecordsTyped, recordVars, queueVars, PCs
    <3> QED BY <2>1, <3>1, <3>2, <3>3, <3>4, <3>5, <3>6 DEF ClientStep
  <2>2. CASE WriterStep
    <3>1. ASSUME NEW o \in Ops, Start(o)
          PROVE  RecordsTyped' /\ QueueTyped' /\ ThreadsTyped'
      <4>1. \A x \in Ops : Rank(x, queued \ {o}) \in Nat
        BY RankType DEF TypeOK
      <4>2. position' \in [Ops -> Nat]
        BY <3>1, <4>1 DEF Start, Watchdog, TypeOK
      <4>3. state' \in [Ops -> States]
        BY <3>1 DEF Start, Watchdog, TypeOK, States, Live
      <4> QED BY <3>1, <4>2, <4>3 DEF Start, Watchdog, TypeOK, RecordsTyped, PCs, Threads
    <3>2. CASE WriterReturns
      BY <3>2 DEF WriterReturns, TypeOK, RecordsTyped, recordVars, queueVars
    <3>3. CASE ReleaseWriter
      BY <3>3 DEF ReleaseWriter, TypeOK, RecordsTyped, recordVars
    <3>4. ASSUME NEW p \in Progress, Heartbeat(p)
          PROVE  RecordsTyped' /\ QueueTyped' /\ ThreadsTyped'
      BY <3>4 DEF Heartbeat, TypeOK, RecordsTyped, States, Live, Phases, queueVars, threadVars
    <3>5. ASSUME NEW outcome \in Outcomes, Settle(outcome)
          PROVE  RecordsTyped' /\ QueueTyped' /\ ThreadsTyped'
      <4>1. Verdict(outcome, phase[running]) \in Terminal
        BY DEF Verdict, Terminal
      <4>2. RecordsTyped'
        BY <3>5, <4>1, FinishAllTyped DEF Settle, TypeOK
      <4> QED BY <3>5, <4>2 DEF Settle, TypeOK, queueVars
    <3> QED BY <2>2, <3>1, <3>2, <3>3, <3>4, <3>5 DEF WriterStep
  <2>3. ASSUME NEW o \in Ops, WatchStep(o)
        PROVE  RecordsTyped' /\ QueueTyped' /\ ThreadsTyped'
    <3>1. CASE WatchEnds(o)
      BY <3>1 DEF WatchEnds, TypeOK, RecordsTyped, recordVars, queueVars, PCs
    <3>2. CASE WatchExpired(o)
      BY <3>2 DEF WatchExpired, TypeOK, RecordsTyped, recordVars, queueVars, PCs
    <3>3. CASE WatchRecheck(o)
      BY <3>3 DEF WatchRecheck, TypeOK, RecordsTyped, queueVars, PCs, Phases, Intents
    <3> QED BY <2>3, <3>1, <3>2, <3>3 DEF WatchStep
  <2>4. ASSUME NEW t \in Closers, CloseStep(t)
        PROVE  RecordsTyped' /\ QueueTyped' /\ ThreadsTyped'
    <3>0. target[t] \in Ops \cup {None} /\ queued \subseteq Ops /\ "cancelled" \in Terminal
      BY DEF TypeOK, Terminal
    <3>1. CASE Close(t)
      <4>1. RecordsTyped'
        BY <3>0, <3>1, FinishAllTyped DEF Close
      <4> QED BY <3>1, <4>1 DEF Close, TypeOK, PCs
    <3>2. CASE CloseClaimed(t)
      <4>1. RecordsTyped'
        BY <3>0, <3>2, FinishAllTyped DEF CloseClaimed
      <4> QED BY <3>2, <4>1 DEF CloseClaimed, TypeOK, PCs, queueVars
    <3>3. CASE CloseJoined(t)
      <4>1. RecordsTyped'
        <5>1. CASE UNCHANGED recordVars
          BY <5>1 DEF recordVars, TypeOK, RecordsTyped
        <5>2. CASE FinishAll({target[t]} \ {None}, "failed", {})
          BY <3>0, <5>2, FinishAllTyped DEF Terminal
        <5> QED BY <3>3, <5>1, <5>2 DEF CloseJoined
      <4> QED BY <3>3, <4>1 DEF CloseJoined, TypeOK, PCs, queueVars
    <3> QED BY <2>4, <3>1, <3>2, <3>3 DEF CloseStep
  <2>5. ASSUME NEW t \in Threads, CancelStep(t)
        PROVE  RecordsTyped' /\ QueueTyped' /\ ThreadsTyped'
    <3>1. ASSUME NEW status \in Answers, BeginCancel(t, status)
          PROVE  RecordsTyped' /\ QueueTyped' /\ ThreadsTyped'
      <4>1. ThreadsTyped'
        BY <3>1, ReturnTyped DEF BeginCancel, TypeOK, PCs
      <4> QED BY <3>1, <4>1 DEF BeginCancel, TypeOK, RecordsTyped, recordVars, queueVars
    <3>2. CASE MarkTooLate(t)
      <4>1. Record(t) \in Ops
        BY <3>2 DEF MarkTooLate, CancellersHold, CancelPCs
      <4>2. ThreadsTyped'
        BY <3>2, ReturnTyped DEF MarkTooLate
      <4> QED BY <3>2, <4>1, <4>2 DEF MarkTooLate, TypeOK, RecordsTyped, recordVars, queueVars
    <3>3. CASE DropClaim(t)
      <4>1. ThreadsTyped'
        BY <3>3, ReturnTyped DEF DropClaim
      <4> QED BY <3>3, <4>1 DEF DropClaim, TypeOK, RecordsTyped, recordVars, queueVars
    <3>4. CASE InstallIntent(t)
      <4>1. Intent(t) \in Phases
        BY DEF Intent, Phases, Intents
      <4> QED BY <3>4, <4>1 DEF InstallIntent, TypeOK, RecordsTyped, queueVars, PCs
    <3>5. ASSUME NEW answer \in {"won", "lost"}, FinishCancel(t, answer)
          PROVE  RecordsTyped' /\ QueueTyped' /\ ThreadsTyped'
      BY <3>5 DEF FinishCancel, TypeOK, RecordsTyped, recordVars, queueVars, PCs
    <3>6. CASE ForgetClaim(t)
      <4>1. ThreadsTyped'
        BY <3>6, ReturnTyped DEF ForgetClaim
      <4> QED BY <3>6, <4>1 DEF ForgetClaim, TypeOK, RecordsTyped, queueVars
    <3> QED BY <2>5, <3>1, <3>2, <3>3, <3>4, <3>5, <3>6 DEF CancelStep
  <2>6. CASE UNCHANGED vars
    BY <2>6 DEF vars, recordVars, queueVars, threadVars, TypeOK, RecordsTyped
  <2> QED
    BY <2>1, <2>2, <2>3, <2>4, <2>5, <2>6 DEF Next
<1> QED BY <1>1, <1>2, PTL DEF Spec
-----------------------------------------------------------------------------
(* No operation is forgotten *)

\* What FinishAll does to the lifecycle states.
LEMMA FinishAllState ==
    ASSUME NEW S, NEW final, NEW R, FinishAll(S, final, R)
    PROVE  /\ state' = [o \in Ops |-> IF o \in S /\ state[o] \notin Terminal THEN final ELSE state[o]]
           /\ UNCHANGED <<phase, ticket>>
<1>1. state' = [o \in Ops |-> IF o \in {x \in S : state[x] \notin Terminal} THEN final ELSE state[o]]
  BY DEF FinishAll
<1>2. \A o \in Ops : o \in {x \in S : state[x] \notin Terminal} <=> o \in S /\ state[o] \notin Terminal
  OBVIOUS
<1> QED BY <1>1, <1>2 DEF FinishAll

\* Ending a record that has left the deque keeps every record accounted for.
LEMMA EndAccounted ==
    ASSUME TypeOK, Accounted, NEW S, NEW final \in Terminal, NEW R, FinishAll(S, final, R),
           \A o \in S \cap Ops : Started(o),
           UNCHANGED <<queued, running, target>>,
           writer' = writer \/ (writer = "execute" /\ writer' = "settled" /\ running \in S)
    PROVE  Accounted'
<1>1. \A o \in Ops : state'[o] = IF o \in S /\ state[o] \notin Terminal THEN final ELSE state[o]
  BY FinishAllState DEF TypeOK
<1>2. \A o \in Ops : Started(o) => Started(o)'
  BY <1>1 DEF Started, Terminal
<1>3. HeldStarted'
  BY <1>2 DEF HeldStarted, Accounted, TypeOK
<1>4. \A o \in Ops : state'[o] = "queued" <=> o \in queued'
  BY <1>1 DEF Accounted, NoOrphan, Started, Terminal
<1>5. \A o \in Ops : state'[o] \in Live => running' = o /\ writer' = "execute"
  BY <1>1 DEF Accounted, NoOrphan, Terminal, Live
<1>6. running' = None <=> writer' \in {"idle", "returned"}
  BY DEF Accounted, NoOrphan
<1> QED BY <1>3, <1>4, <1>5, <1>6 DEF Accounted, NoOrphan

\* Withdrawing queued records keeps every record accounted for.
LEMMA WithdrawAccounted ==
    ASSUME TypeOK, Accounted, NEW S, S \subseteq queued, NEW R, FinishAll(S, "cancelled", R),
           queued' = queued \ S, UNCHANGED <<running, writer>>,
           \A t \in Closers : target'[t] \in {target[t], running}
    PROVE  Accounted'
<1>1. \A o \in Ops : state'[o] = IF o \in S THEN "cancelled" ELSE state[o]
  BY FinishAllState DEF TypeOK, Accounted, NoOrphan, Terminal
<1>2. \A o \in Ops : Started(o) => Started(o)'
  BY <1>1 DEF Started
<1>3. HeldStarted'
  BY <1>2, OperationQueueAssumption DEF HeldStarted, Accounted, TypeOK, OperationQueueAssumption
<1>4. NoOrphan'
  BY <1>1 DEF Accounted, NoOrphan, Live, TypeOK
<1> QED BY <1>3, <1>4 DEF Accounted

\* Steps that touch neither the states nor the deque nor the writer.
LEMMA QuietAccounted ==
    ASSUME TypeOK, Accounted, UNCHANGED <<state, queued, running, writer>>,
           \A t \in Closers : target'[t] = target[t]
    PROVE  Accounted'
BY DEF Accounted, NoOrphan, HeldStarted, Started

\* Accounted is preserved by every step.
LEMMA AccountedNext ==
    ASSUME TypeOK, Accounted, [Next]_vars
    PROVE  Accounted'
<1> USE OperationQueueAssumption DEF OperationQueueAssumption
<1>1. ASSUME NEW c \in Clients, ClientStep(c) PROVE Accounted'
  <2>1. ASSUME NEW o \in Ops, NEW k \in Keys \cup {NoKey}, NEW aged \in Ages, Submit(c, o, k, aged)
        PROVE  Accounted'
    <3>1. SameKey(k) \subseteq queued
      BY DEF SameKey
    <3>2. \A x \in Ops : state'[x] = IF x = o THEN "queued"
                                     ELSE IF x \in SameKey(k) THEN "cancelled" ELSE state[x]
      BY <2>1 DEF Submit
    <3>3. queued' = (queued \ SameKey(k)) \cup {o} /\ UNCHANGED <<running, writer>>
      BY <2>1 DEF Submit
    <3>4. state[o] = "new" /\ \A t \in Closers : target'[t] = target[t]
      BY <2>1 DEF Submit, TypeOK
    <3>5. \A x \in Ops : Started(x) => Started(x)'
      BY <3>1, <3>2, <3>4 DEF Started
    <3>6. HeldStarted'
      BY <3>3, <3>4, <3>5 DEF HeldStarted, Accounted, TypeOK
    <3>7. NoOrphan'
      BY <3>1, <3>2, <3>3, <3>4 DEF NoOrphan, Accounted, Live, TypeOK
    <3> QED BY <3>6, <3>7 DEF Accounted
  <2>2. ASSUME NEW k \in Keys \cup {NoKey}, NEW aged \in Ages, SubmitFull(c, k, aged)
        PROVE  Accounted'
    BY <2>2, WithdrawAccounted DEF SubmitFull, SameKey, threadVars
  <2>3. ASSUME NEW o \in Ops, CancelQueued(c, o) PROVE Accounted'
    <3>1. {o} \subseteq queued
      BY <2>3 DEF CancelQueued, Accounted, NoOrphan
    <3> QED BY <2>3, <3>1, WithdrawAccounted DEF CancelQueued, threadVars
  <2>4. ASSUME NEW o \in Ops, Wait(c, o) \/ CancelLive(c, o) \/ WaitReturns(c) PROVE Accounted'
    BY <2>4, QuietAccounted DEF Wait, CancelLive, WaitReturns, recordVars, queueVars, TypeOK
  <2>5. CASE WaitReturns(c)
    BY <2>5, QuietAccounted DEF WaitReturns, recordVars, queueVars, TypeOK
  <2> QED BY <1>1, <2>1, <2>2, <2>3, <2>4, <2>5 DEF ClientStep
<1>2. CASE WriterStep
  <2>1. ASSUME NEW o \in Ops, Start(o) PROVE Accounted'
    <3>1. \A x \in Ops : state'[x] = IF x = o THEN "running" ELSE state[x]
      BY <2>1 DEF Start, Watchdog, TypeOK
    <3>2. /\ queued' = queued \ {o} /\ running' = o /\ writer' = "execute"
          /\ writer = "idle" /\ UNCHANGED target
      BY <2>1 DEF Start
    <3>3. HeldStarted'
      BY <3>1, <3>2 DEF HeldStarted, Started, Accounted, TypeOK
    <3>4. NoOrphan'
      BY <3>1, <3>2 DEF NoOrphan, Accounted, Live, TypeOK
    <3> QED BY <3>3, <3>4 DEF Accounted
  <2>2. CASE WriterReturns
    BY <2>2 DEF WriterReturns, recordVars, queueVars, Accounted, NoOrphan, HeldStarted, Started
  <2>3. CASE ReleaseWriter
    BY <2>3 DEF ReleaseWriter, recordVars, Accounted, NoOrphan, HeldStarted, Started
  <2>4. ASSUME NEW p \in Progress, Heartbeat(p) PROVE Accounted'
    <3>1. running \in Ops /\ state[running] \in Live
      BY <2>4 DEF Heartbeat, Accounted, NoOrphan, HeldStarted, Started, TypeOK, States
    <3>2. \A o \in Ops : state'[o] = state[o] \/ (o = running /\ state'[o] = "publishing")
      BY <2>4 DEF Heartbeat, TypeOK
    <3>3. UNCHANGED <<queued, running, writer, target>>
      BY <2>4 DEF Heartbeat, queueVars, threadVars
    <3>4. HeldStarted'
      BY <3>2, <3>3 DEF HeldStarted, Started, Accounted, TypeOK
    <3>5. NoOrphan'
      BY <3>1, <3>2, <3>3 DEF NoOrphan, Accounted, Live, TypeOK
    <3> QED BY <3>4, <3>5 DEF Accounted
  <2>5. ASSUME NEW outcome \in Outcomes, Settle(outcome) PROVE Accounted'
    <3>1. Verdict(outcome, phase[running]) \in Terminal
      BY DEF Verdict, Terminal
    <3>2. Started(running) /\ running \in {running}
      BY <2>5 DEF Settle, Accounted, NoOrphan, HeldStarted
    <3> QED BY <2>5, <3>1, <3>2, EndAccounted DEF Settle, queueVars
  <2> QED BY <1>2, <2>1, <2>2, <2>3, <2>4, <2>5 DEF WriterStep
<1>3. ASSUME NEW o \in Ops, WatchStep(o) PROVE Accounted'
  BY <1>3, QuietAccounted DEF WatchStep, WatchEnds, WatchExpired, WatchRecheck, recordVars, queueVars
<1>4. ASSUME NEW t \in Closers, CloseStep(t) PROVE Accounted'
  <2>0. "cancelled" \in Terminal /\ "failed" \in Terminal
    BY DEF Terminal
  <2>1. CASE Close(t)
    BY <2>1, WithdrawAccounted DEF Close, TypeOK
  <2>2. CASE CloseClaimed(t)
    <3>1. \A o \in {target[t]} \cap Ops : Started(o)
      BY DEF Accounted, HeldStarted
    <3> QED BY <2>0, <2>2, <3>1, EndAccounted DEF CloseClaimed, queueVars
  <2>3. CASE CloseJoined(t)
    <3>1. CASE UNCHANGED recordVars
      BY <2>3, <3>1, QuietAccounted DEF CloseJoined, recordVars, queueVars
    <3>2. CASE FinishAll({target[t]} \ {None}, "failed", {})
      <4>1. \A o \in ({target[t]} \ {None}) \cap Ops : Started(o)
        BY DEF Accounted, HeldStarted
      <4> QED BY <2>0, <2>3, <3>2, <4>1, EndAccounted DEF CloseJoined, queueVars
    <3> QED BY <2>3, <3>1, <3>2 DEF CloseJoined
  <2> QED BY <1>4, <2>1, <2>2, <2>3 DEF CloseStep
<1>5. ASSUME NEW t \in Threads, CancelStep(t) PROVE Accounted'
  <2>1. UNCHANGED <<state, queued, running, writer>>
    BY <1>5 DEF CancelStep, BeginCancel, MarkTooLate, DropClaim, InstallIntent, FinishCancel,
       ForgetClaim, recordVars, queueVars
  <2>2. ASSUME NEW outcome, Return(t, outcome), NEW u \in Closers PROVE target'[u] = target[u]
    BY <2>2 DEF Return, TypeOK
  <2>3. \A u \in Closers : target'[u] = target[u]
    BY <1>5, <2>2 DEF CancelStep, BeginCancel, MarkTooLate, DropClaim, InstallIntent, FinishCancel,
       ForgetClaim
  <2> QED BY <2>1, <2>3, QuietAccounted
<1>6. CASE UNCHANGED vars
  BY <1>6, QuietAccounted DEF vars, recordVars, queueVars, threadVars
<1> QED BY <1>1, <1>2, <1>3, <1>4, <1>5, <1>6 DEF Next

\* Accounted holds in every reachable state.
THEOREM AlwaysAccounted == Spec => []Accounted
<1>1. Init => Accounted
  BY OperationQueueAssumption DEF Init, Accounted, NoOrphan, HeldStarted, Live, Threads,
     OperationQueueAssumption
<1>2. TypeOK /\ Accounted /\ [Next]_vars => Accounted'
  BY AccountedNext
<1> QED BY <1>1, <1>2, TypeCorrect, PTL DEF Spec

\* No record is forgotten: what has not ended is in the deque or with the writer.
THEOREM NothingForgotten == Spec => []NoOrphan
<1>1. Accounted => NoOrphan
  BY DEF Accounted
<1> QED BY <1>1, AlwaysAccounted, PTL

-----------------------------------------------------------------------------
(* Ended operations do not change *)

Frozen == \A o \in Ops : state[o] \in Terminal => state'[o] = state[o] /\ phase'[o] = phase[o]

\* No step changes the state or the phase of an ended record.
LEMMA FrozenNext ==
    ASSUME TypeOK, Accounted, [Next]_vars
    PROVE  Frozen
<1> USE DEF Frozen
<1>1. ASSUME NEW S, NEW final, NEW R, FinishAll(S, final, R) PROVE Frozen
  BY <1>1, FinishAllState
<1>2. CASE UNCHANGED <<state, phase>>
  BY <1>2
<1>3. ASSUME NEW c \in Clients, ClientStep(c) PROVE Frozen
  <2>1. ASSUME NEW o \in Ops, NEW k \in Keys \cup {NoKey}, NEW aged \in Ages, Submit(c, o, k, aged)
        PROVE  Frozen
    <3>1. \A x \in SameKey(k) : state[x] \notin Terminal
      BY DEF SameKey, Accounted, NoOrphan, TypeOK, Terminal
    <3>2. state[o] \notin Terminal
      BY <2>1 DEF Submit, Terminal
    <3>3. \A x \in Ops : state'[x] = IF x = o THEN "queued"
                                     ELSE IF x \in SameKey(k) THEN "cancelled" ELSE state[x]
      BY <2>1 DEF Submit
    <3>4. UNCHANGED phase
      BY <2>1 DEF Submit
    <3> QED BY <3>1, <3>2, <3>3, <3>4
  <2> QED
    BY <1>1, <1>2, <1>3, <2>1 DEF ClientStep, SubmitFull, Wait, WaitReturns, CancelQueued, CancelLive,
       recordVars
<1>4. CASE WriterStep
  <2>1. ASSUME NEW o \in Ops, Start(o) PROVE Frozen
    BY <2>1 DEF Start, Accounted, NoOrphan, TypeOK, Terminal
  <2>2. ASSUME NEW p \in Progress, Heartbeat(p) PROVE Frozen
    BY <2>2 DEF Heartbeat, TypeOK
  <2> QED
    BY <1>1, <1>2, <1>4, <2>1, <2>2 DEF WriterStep, WriterReturns, ReleaseWriter, Settle, recordVars
<1>5. ASSUME NEW o \in Ops, WatchStep(o) PROVE Frozen
  <2>1. CASE WatchRecheck(o)
    BY <2>1 DEF WatchRecheck, Gone, TypeOK
  <2> QED BY <1>2, <1>5, <2>1 DEF WatchStep, WatchEnds, WatchExpired, recordVars
<1>6. ASSUME NEW t \in Closers, CloseStep(t) PROVE Frozen
  BY <1>1, <1>2, <1>6 DEF CloseStep, Close, CloseClaimed, CloseJoined, recordVars
<1>7. ASSUME NEW t \in Threads, CancelStep(t) PROVE Frozen
  <2>1. CASE InstallIntent(t)
    BY <2>1 DEF InstallIntent, Gone, TypeOK
  <2> QED
    BY <1>2, <1>7, <2>1 DEF CancelStep, BeginCancel, MarkTooLate, DropClaim, FinishCancel, ForgetClaim,
       recordVars
<1>8. CASE UNCHANGED vars
  BY <1>2, <1>8 DEF vars, recordVars
<1> QED BY <1>3, <1>4, <1>5, <1>6, <1>7, <1>8 DEF Next

\* A terminal record is stable, whoever races to end it.
THEOREM EndedStaysEnded == Spec => TerminalFrozen
<1>1. TypeOK /\ Accounted /\ [Next]_vars => [Frozen]_vars
  BY FrozenNext
<1> QED BY <1>1, TypeCorrect, AlwaysAccounted, PTL DEF Spec, TerminalFrozen, Frozen

-----------------------------------------------------------------------------
(* The lifecycle is implemented *)

\* The lifecycle's queue is the deque.
LEMMA SameQueue ==
    ASSUME TypeOK, Accounted
    PROVE  Lifecycle!Queued = queued
BY DEF Lifecycle!Queued, TypeOK, Accounted, NoOrphan

\* Withdrawing queued records is a step of the lifecycle.
LEMMA WithdrawRefines ==
    ASSUME TypeOK, Accounted, NEW S, S \subseteq queued, NEW R, FinishAll(S, "cancelled", R)
    PROVE  Lifecycle!Next
<1>1. \A o \in S : state[o] \notin Terminal
  BY DEF TypeOK, Accounted, NoOrphan, Terminal
<1>2. state' = Lifecycle!Cancelled(S) /\ UNCHANGED ticket
  BY <1>1, FinishAllState DEF Lifecycle!Cancelled
<1>3. Lifecycle!Withdraw(S) /\ S \in SUBSET Lifecycle!Queued
  BY <1>2, SameQueue DEF Lifecycle!Withdraw
<1> QED BY <1>3 DEF Lifecycle!Next

\* Ending a started record is a step of the lifecycle or changes nothing of it.
LEMMA EndRefines ==
    ASSUME TypeOK, Accounted, NEW o \in Ops, Started(o), NEW S, S \cap Ops = {o},
           NEW final \in Terminal, NEW R, FinishAll(S, final, R)
    PROVE  Lifecycle!Next \/ UNCHANGED <<state, ticket>>
<1>1. /\ state' = [x \in Ops |-> IF x \in S /\ state[x] \notin Terminal THEN final ELSE state[x]]
      /\ UNCHANGED ticket
  BY FinishAllState
<1>2. CASE state[o] \in Terminal
  BY <1>1, <1>2 DEF TypeOK
<1>3. CASE state[o] \notin Terminal
  <2>1. state[o] \in Lifecycle!Live
    BY <1>3 DEF Started, TypeOK, States, Live, Lifecycle!Live
  <2>2. state' = [state EXCEPT ![o] = final]
    BY <1>1, <1>3 DEF TypeOK
  <2>3. Lifecycle!End(o, final) /\ final \in Lifecycle!Terminal
    BY <1>1, <2>1, <2>2 DEF Lifecycle!End, Terminal, Lifecycle!Terminal
  <2> QED BY <2>3 DEF Lifecycle!Next
<1> QED BY <1>2, <1>3

\* Every step of the queue is a step of the lifecycle or leaves it alone.
LEMMA StepRefines ==
    ASSUME TypeOK, Accounted, [Next]_vars
    PROVE  Lifecycle!Next \/ UNCHANGED <<state, ticket>>
<1> USE OperationQueueAssumption DEF OperationQueueAssumption
<1>1. ASSUME NEW c \in Clients, ClientStep(c)
      PROVE  Lifecycle!Next \/ UNCHANGED <<state, ticket>>
  <2>1. ASSUME NEW o \in Ops, NEW k \in Keys \cup {NoKey}, NEW aged \in Ages, Submit(c, o, k, aged)
        PROVE  Lifecycle!Next
    <3>1. SameKey(k) \subseteq queued /\ SameKey(k) \in SUBSET Lifecycle!Queued
      BY SameQueue DEF SameKey
    <3>2. state[o] = "new" /\ o \notin SameKey(k)
      BY <2>1, <3>1 DEF Submit, Accounted, NoOrphan
    <3>3. state' = [Lifecycle!Cancelled(SameKey(k)) EXCEPT ![o] = "queued"]
      BY <2>1, <3>2 DEF Submit, Lifecycle!Cancelled
    <3>4. ticket' = [ticket EXCEPT ![o] = Lifecycle!Accepted + 1]
      BY <2>1 DEF Submit, Submissions, Lifecycle!Accepted, Cardinality, Lifecycle!Cardinality, IsFiniteSet, Lifecycle!IsFiniteSet
    <3>5. Lifecycle!Accept(o, SameKey(k))
      BY <3>1, <3>2, <3>3, <3>4 DEF Lifecycle!Accept
    <3> QED BY <3>1, <3>5 DEF Lifecycle!Next
  <2>2. ASSUME NEW k \in Keys \cup {NoKey}, NEW aged \in Ages, SubmitFull(c, k, aged)
        PROVE  Lifecycle!Next
    BY <2>2, WithdrawRefines DEF SubmitFull, SameKey
  <2>3. ASSUME NEW o \in Ops, CancelQueued(c, o) PROVE Lifecycle!Next
    <3>1. {o} \subseteq queued
      BY <2>3 DEF CancelQueued, Accounted, NoOrphan
    <3> QED BY <2>3, <3>1, WithdrawRefines DEF CancelQueued
  <2> QED
    BY <1>1, <2>1, <2>2, <2>3 DEF ClientStep, Wait, WaitReturns, CancelLive, recordVars
<1>2. CASE WriterStep
  <2>1. ASSUME NEW o \in Ops, Start(o) PROVE Lifecycle!Next
    <3>1. o \in Lifecycle!Queued /\ \A q \in Lifecycle!Queued : ticket[o] <= ticket[q]
      BY <2>1, SameQueue DEF Start
    <3>2. \A x \in Ops : state[x] \notin Lifecycle!Live
      BY <2>1 DEF Start, Accounted, NoOrphan, Live, Lifecycle!Live
    <3>3. Lifecycle!Begin(o)
      BY <2>1, <3>1, <3>2 DEF Start, Lifecycle!Begin
    <3> QED BY <3>3 DEF Lifecycle!Next
  <2>2. ASSUME NEW p \in Progress, Heartbeat(p) PROVE Lifecycle!Next \/ UNCHANGED <<state, ticket>>
    <3>1. running \in Ops /\ state[running] \in Lifecycle!Live
      BY <2>2 DEF Heartbeat, Accounted, NoOrphan, HeldStarted, Started, TypeOK, States, Live, Lifecycle!Live
    <3>2. UNCHANGED ticket
      BY <2>2 DEF Heartbeat
    <3>3. CASE p = "publishing"
      <4>1. Lifecycle!Publish(running)
        BY <2>2, <3>1, <3>2, <3>3 DEF Heartbeat, Lifecycle!Publish
      <4> QED BY <3>1, <4>1 DEF Lifecycle!Next
    <3>4. CASE p # "publishing"
      BY <2>2, <3>1, <3>2, <3>4 DEF Heartbeat, TypeOK
    <3> QED BY <3>3, <3>4
  <2>3. ASSUME NEW outcome \in Outcomes, Settle(outcome)
        PROVE  Lifecycle!Next \/ UNCHANGED <<state, ticket>>
    <3>1. Verdict(outcome, phase[running]) \in Terminal
      BY DEF Verdict, Terminal
    <3>2. running \in Ops /\ Started(running) /\ {running} \cap Ops = {running}
      BY <2>3 DEF Settle, Accounted, NoOrphan, HeldStarted, TypeOK
    <3> QED BY <2>3, <3>1, <3>2, EndRefines DEF Settle
  <2> QED
    BY <1>2, <2>1, <2>2, <2>3 DEF WriterStep, WriterReturns, ReleaseWriter, recordVars
<1>3. ASSUME NEW o \in Ops, WatchStep(o) PROVE UNCHANGED <<state, ticket>>
  BY <1>3 DEF WatchStep, WatchEnds, WatchExpired, WatchRecheck, recordVars
<1>4. ASSUME NEW t \in Closers, CloseStep(t)
      PROVE  Lifecycle!Next \/ UNCHANGED <<state, ticket>>
  <2>0. "cancelled" \in Terminal /\ "failed" \in Terminal /\ target[t] \in Ops \cup {None}
    BY DEF Terminal, TypeOK
  <2>1. CASE Close(t)
    BY <2>1, WithdrawRefines DEF Close
  <2>2. ASSUME NEW S, S \subseteq {target[t]}, NEW final \in Terminal, FinishAll(S, final, {})
        PROVE  Lifecycle!Next \/ UNCHANGED <<state, ticket>>
    <3>1. CASE target[t] \in Ops /\ target[t] \in S
      <4>1. Started(target[t]) /\ S \cap Ops = {target[t]}
        BY <2>2, <3>1 DEF Accounted, HeldStarted
      <4> QED BY <2>2, <3>1, <4>1, EndRefines
    <3>2. CASE S \cap Ops = {}
      BY <2>2, <3>2, FinishAllState DEF TypeOK
    <3> QED BY <2>0, <2>2, <3>1, <3>2
  <2>3. CASE CloseClaimed(t)
    BY <2>0, <2>2, <2>3 DEF CloseClaimed
  <2>4. CASE CloseJoined(t)
    BY <2>0, <2>2, <2>4 DEF CloseJoined, recordVars
  <2> QED BY <1>4, <2>1, <2>3, <2>4 DEF CloseStep
<1>5. ASSUME NEW t \in Threads, CancelStep(t) PROVE UNCHANGED <<state, ticket>>
  BY <1>5 DEF CancelStep, BeginCancel, MarkTooLate, DropClaim, InstallIntent, FinishCancel,
     ForgetClaim, recordVars
<1>6. CASE UNCHANGED vars
  BY <1>6 DEF vars, recordVars
<1> QED BY <1>1, <1>2, <1>3, <1>4, <1>5, <1>6 DEF Next

\* The queue implements the lifecycle: one operation at a time, in order, each ended once.
THEOREM QueueImplementsLifecycle == Spec => LifecycleImplemented
<1>1. Init => Lifecycle!Init
  BY DEF Init, Lifecycle!Init
<1>2. TypeOK /\ Accounted /\ [Next]_vars => [Lifecycle!Next]_Lifecycle!lifecycleVars
  BY StepRefines DEF Lifecycle!lifecycleVars
<1> QED
  BY <1>1, <1>2, TypeCorrect, AlwaysAccounted, PTL DEF Spec, LifecycleImplemented, Lifecycle!Spec

-----------------------------------------------------------------------------
(* What a step does to the records and the deque *)

\* Queued records leave the deque, cancelled.
Withdraws(S) ==
    /\ S \subseteq queued /\ FinishAll(S, "cancelled", {})
    /\ queued' = queued \ S /\ UNCHANGED known

\* Records that have started end.
Ends(S, final) ==
    /\ S \subseteq Ops /\ \A o \in S : Started(o)
    /\ FinishAll(S, final, {}) /\ UNCHANGED <<queued, known>>

\* No record ends or is withdrawn, and none is accepted.
Stays ==
    /\ UNCHANGED <<superseded, key, position, ticket, finishedAt, known, queued>>
    /\ \A o \in Ops : state'[o] = state[o] \/ (state[o] \in Live /\ state'[o] \in Live)

\* All there is.
LEMMA StepKinds ==
    ASSUME TypeOK, CancellersHold, Accounted, [Next]_vars
    PROVE  \/ \E c \in Clients, o \in Ops, k \in Keys \cup {NoKey}, aged \in Ages : Submit(c, o, k, aged)
           \/ \E c \in Clients, k \in Keys \cup {NoKey}, aged \in Ages : SubmitFull(c, k, aged)
           \/ \E S : Withdraws(S)
           \/ \E final \in Terminal : \E S : Ends(S, final)
           \/ \E o \in Ops : Start(o)
           \/ Stays
<1> USE OperationQueueAssumption DEF OperationQueueAssumption
<1>0. "cancelled" \in Terminal /\ "failed" \in Terminal
  BY DEF Terminal
<1>1. CASE UNCHANGED recordVars /\ UNCHANGED queueVars
  BY <1>1 DEF Stays, recordVars, queueVars
<1>2. ASSUME NEW c \in Clients, ClientStep(c) PROVE
           \/ \E o \in Ops, k \in Keys \cup {NoKey}, aged \in Ages : Submit(c, o, k, aged)
           \/ \E k \in Keys \cup {NoKey}, aged \in Ages : SubmitFull(c, k, aged)
           \/ \E S : Withdraws(S)
           \/ Stays
  <2>1. ASSUME NEW o \in Ops, CancelQueued(c, o) PROVE Withdraws({o})
    BY <2>1 DEF CancelQueued, Withdraws, Accounted, NoOrphan
  <2>2. ASSUME NEW o \in Ops, Wait(c, o) \/ CancelLive(c, o) PROVE Stays
    BY <2>2 DEF Wait, CancelLive, Stays, recordVars, queueVars
  <2>3. CASE WaitReturns(c)
    BY <2>3 DEF WaitReturns, Stays, recordVars, queueVars
  <2> QED BY <1>2, <2>1, <2>2, <2>3 DEF ClientStep
<1>3. CASE WriterStep
  <2>1. ASSUME NEW p \in Progress, Heartbeat(p) PROVE Stays
    <3>1. running \in Ops /\ state[running] \in Live
      BY <2>1 DEF Heartbeat, Accounted, NoOrphan, HeldStarted, Started, TypeOK, States
    <3>2. \A o \in Ops : state'[o] = state[o] \/ (o = running /\ state'[o] = "publishing")
      BY <2>1 DEF Heartbeat, TypeOK
    <3>3. UNCHANGED <<superseded, key, position, ticket, finishedAt, known, queued>>
      BY <2>1 DEF Heartbeat, queueVars
    <3> QED BY <3>1, <3>2, <3>3 DEF Stays, Live
  <2>2. ASSUME NEW outcome \in Outcomes, Settle(outcome)
        PROVE  Ends({running}, Verdict(outcome, phase[running])) /\ Verdict(outcome, phase[running]) \in Terminal
    BY <2>2 DEF Settle, Ends, Verdict, Terminal, Accounted, NoOrphan, HeldStarted, TypeOK, queueVars
  <2> QED BY <1>1, <1>3, <2>1, <2>2 DEF WriterStep, WriterReturns, ReleaseWriter, Stays, recordVars, queueVars
<1>4. ASSUME NEW o \in Ops, WatchStep(o) PROVE Stays
  BY <1>4 DEF WatchStep, WatchEnds, WatchExpired, WatchRecheck, Stays, recordVars, queueVars
<1>5. ASSUME NEW t \in Closers, CloseStep(t)
      PROVE  (\E S : Withdraws(S)) \/ (\E final \in Terminal : \E S : Ends(S, final)) \/ Stays
  <2>1. CASE Close(t)
    <3>1. Withdraws(queued)
      BY <2>1 DEF Close, Withdraws
    <3> QED BY <3>1
  <2>2. CASE CloseClaimed(t)
    <3>1. Ends({target[t]}, "cancelled")
      BY <2>2 DEF CloseClaimed, CancellersHold, CancelPCs, Record, Threads, Ends, Accounted, HeldStarted, TypeOK, queueVars
    <3> QED BY <1>0, <3>1
  <2>3. CASE CloseJoined(t)
    <3>1. CASE FinishAll({target[t]} \ {None}, "failed", {})
      <4>1. Ends({target[t]} \ {None}, "failed")
        BY <2>3, <3>1 DEF CloseJoined, Ends, Accounted, HeldStarted, TypeOK, queueVars
      <4> QED BY <1>0, <4>1
    <3>2. CASE UNCHANGED recordVars
      BY <2>3, <3>2 DEF CloseJoined, Stays, recordVars, queueVars
    <3> QED BY <2>3, <3>1, <3>2 DEF CloseJoined
  <2> QED BY <1>5, <2>1, <2>2, <2>3 DEF CloseStep
<1>6. ASSUME NEW t \in Threads, CancelStep(t) PROVE Stays
  BY <1>6 DEF CancelStep, BeginCancel, MarkTooLate, DropClaim, InstallIntent, FinishCancel, ForgetClaim,
     Stays, recordVars, queueVars
<1>7. CASE UNCHANGED vars
  BY <1>1, <1>7 DEF vars
<1> QED BY <1>2, <1>3, <1>4, <1>5, <1>6, <1>7 DEF Next

-----------------------------------------------------------------------------
(* Ranks *)

\* Any set of operations is finite.
LEMMA OpsFinite ==
    ASSUME NEW S, S \subseteq Ops
    PROVE  IsFiniteSet(S) /\ Cardinality(S) \in Nat
BY OperationQueueAssumption, FS_Subset, FS_CardinalityType DEF OperationQueueAssumption

\* A rank counts the member itself and nothing beyond the set.
LEMMA RankBounds ==
    ASSUME TypeOK, NEW S, S \subseteq Ops, NEW a \in S
    PROVE  Rank(a, S) \in 1 .. Cardinality(S)
<1> DEFINE below == {q \in S : ticket[q] <= ticket[a]}
<1>1. IsFiniteSet(S) /\ Cardinality(S) \in Nat
  BY OpsFinite
<1>2. below \in SUBSET S /\ a \in below
  BY DEF TypeOK
<1>3. Cardinality(below) \in Nat /\ Cardinality(below) <= Cardinality(S)
  BY <1>1, <1>2, FS_Subset, FS_CardinalityType
<1>4. Cardinality(below) # 0
  BY <1>1, <1>2, FS_Subset, FS_EmptySet
<1> QED BY <1>1, <1>3, <1>4 DEF Rank

\* Ranks follow the tickets.
LEMMA RankStrict ==
    ASSUME TypeOK, NEW S, S \subseteq Ops, NEW a \in S, NEW b \in S, ticket[a] < ticket[b]
    PROVE  Rank(a, S) < Rank(b, S)
<1> DEFINE A == {q \in S : ticket[q] <= ticket[a]}
           B == {q \in S : ticket[q] <= ticket[b]}
<1>1. A \in SUBSET B /\ b \in B /\ b \notin A
  BY DEF TypeOK
<1>2. IsFiniteSet(B)
  BY OpsFinite
<1> HIDE DEF A, B
<1>3. Cardinality(A) <= Cardinality(B) /\ Cardinality(A) # Cardinality(B)
  BY <1>1, <1>2, FS_Subset
<1>4. Cardinality(A) \in Nat /\ Cardinality(B) \in Nat
  BY <1>1, <1>2, FS_Subset, FS_CardinalityType
<1>5. Rank(a, S) = Cardinality(A) /\ Rank(b, S) = Cardinality(B)
  BY DEF Rank, A, B
<1> QED BY <1>3, <1>4, <1>5

\* Nobody's rank gets worse when others leave.
LEMMA RankShrinks ==
    ASSUME TypeOK, NEW T, T \subseteq Ops, NEW S, S \subseteq T, NEW a
    PROVE  Rank(a, S) <= Rank(a, T)
<1> DEFINE A == {q \in S : ticket[q] <= ticket[a]}
           B == {q \in T : ticket[q] <= ticket[a]}
<1>1. A \in SUBSET B /\ IsFiniteSet(B)
  BY OpsFinite
<1> QED BY <1>1, FS_Subset DEF Rank

-----------------------------------------------------------------------------
(* Tickets *)

\* Tickets number the submissions.
Ticketed ==
    /\ \A o \in Ops : ticket[o] <= Submissions /\ (state[o] = "new" <=> ticket[o] = 0)
    /\ \A a, b \in Ops : ticket[a] = ticket[b] /\ ticket[a] # 0 => a = b

\* But for submit, no step accepts a record.
LEMMA OthersAcceptNothing ==
    ASSUME TypeOK, Accounted,
           \/ \E c \in Clients, k \in Keys \cup {NoKey}, aged \in Ages : SubmitFull(c, k, aged)
           \/ \E S : Withdraws(S)
           \/ \E final \in Terminal : \E S : Ends(S, final)
           \/ \E o \in Ops : Start(o)
           \/ Stays
    PROVE  /\ \A o \in Ops : state'[o] = "new" <=> state[o] = "new"
           /\ Submissions' = Submissions /\ UNCHANGED <<ticket, key>>
<1>0. "new" \notin Terminal /\ "new" \notin Live /\ "cancelled" \in Terminal
  BY DEF Terminal, Live
<1>1. ASSUME NEW S, NEW final \in Terminal, NEW R, FinishAll(S, final, R),
             \A o \in S : state[o] # "new"
      PROVE  (\A o \in Ops : state'[o] = "new" <=> state[o] = "new") /\ UNCHANGED <<ticket, key>>
  BY <1>0, <1>1, FinishAllState DEF FinishAll
<1>2. (\A o \in Ops : state'[o] = "new" <=> state[o] = "new") /\ UNCHANGED <<ticket, key>>
  <2>1. ASSUME NEW c \in Clients, NEW k \in Keys \cup {NoKey}, NEW aged \in Ages, SubmitFull(c, k, aged)
        PROVE  (\A o \in Ops : state'[o] = "new" <=> state[o] = "new") /\ UNCHANGED <<ticket, key>>
    <3>1. \A o \in SameKey(k) : state[o] # "new"
      BY DEF SameKey, Accounted, NoOrphan, TypeOK
    <3> QED BY <1>0, <1>1, <2>1, <3>1 DEF SubmitFull
  <2>2. ASSUME NEW S, Withdraws(S)
        PROVE  (\A o \in Ops : state'[o] = "new" <=> state[o] = "new") /\ UNCHANGED <<ticket, key>>
    <3>1. \A o \in S : state[o] # "new"
      BY <2>2 DEF Withdraws, Accounted, NoOrphan, TypeOK
    <3> QED BY <1>0, <1>1, <2>2, <3>1 DEF Withdraws
  <2>3. ASSUME NEW final \in Terminal, NEW S, Ends(S, final)
        PROVE  (\A o \in Ops : state'[o] = "new" <=> state[o] = "new") /\ UNCHANGED <<ticket, key>>
    <3>1. \A o \in S : state[o] # "new"
      BY <2>3 DEF Ends, Started
    <3> QED BY <1>1, <2>3, <3>1 DEF Ends
  <2>4. ASSUME NEW o \in Ops, Start(o)
        PROVE  (\A x \in Ops : state'[x] = "new" <=> state[x] = "new") /\ UNCHANGED <<ticket, key>>
    BY <2>4 DEF Start, Accounted, NoOrphan, TypeOK
  <2>5. CASE Stays
    BY <1>0, <2>5 DEF Stays
  <2> QED BY <2>1, <2>2, <2>3, <2>4, <2>5
<1>3. {o \in Ops : state'[o] # "new"} = {o \in Ops : state[o] # "new"}
  BY <1>2
<1> QED BY <1>2, <1>3 DEF Submissions

\* A submission is the next one.
LEMMA SubmitCounts ==
    ASSUME TypeOK, Accounted, NEW c \in Clients, NEW o \in Ops, NEW k \in Keys \cup {NoKey},
           NEW aged \in Ages, Submit(c, o, k, aged)
    PROVE  /\ Submissions' = Submissions + 1
           /\ \A x \in Ops : state'[x] = "new" <=> state[x] = "new" /\ x # o
<1>1. \A x \in SameKey(k) : state[x] # "new"
  BY DEF SameKey, Accounted, NoOrphan, TypeOK
<1>2. \A x \in Ops : state'[x] = IF x = o THEN "queued"
                                 ELSE IF x \in SameKey(k) THEN "cancelled" ELSE state[x]
  BY DEF Submit
<1>3. \A x \in Ops : state'[x] = "new" <=> state[x] = "new" /\ x # o
  BY <1>1, <1>2
<1> DEFINE old == {x \in Ops : state[x] # "new"}
<1>4. state[o] = "new"
  BY DEF Submit
<1>5. {x \in Ops : state'[x] # "new"} = old \cup {o} /\ o \notin old
  BY <1>3, <1>4
<1>6. Cardinality(old \cup {o}) = Cardinality(old) + 1
  BY <1>5, OpsFinite, FS_AddElement
<1> QED BY <1>3, <1>5, <1>6 DEF Submissions

\* No step breaks the order of the tickets.
LEMMA TicketedNext ==
    ASSUME TypeOK, CancellersHold, Accounted, Ticketed, [Next]_vars
    PROVE  Ticketed'
<1>1. ASSUME NEW c \in Clients, NEW o \in Ops, NEW k \in Keys \cup {NoKey}, NEW aged \in Ages,
             Submit(c, o, k, aged)
      PROVE  Ticketed'
  <2>1. \A x \in Ops : ticket'[x] = IF x = o THEN Submissions + 1 ELSE ticket[x]
    BY <1>1 DEF Submit, TypeOK
  <2>2. Submissions \in Nat /\ Submissions' = Submissions + 1
        /\ \A x \in Ops : state'[x] = "new" <=> state[x] = "new" /\ x # o
    BY <1>1, SubmitCounts, TotalsType
  <2> QED BY <2>1, <2>2 DEF Ticketed, TypeOK
<1>2. ASSUME \A o \in Ops : state'[o] = "new" <=> state[o] = "new",
             Submissions' = Submissions, UNCHANGED ticket
      PROVE  Ticketed'
  BY <1>2 DEF Ticketed
<1> QED BY <1>1, <1>2, StepKinds, OthersAcceptNothing


-----------------------------------------------------------------------------
(* Replacement by key *)

\* Replacement is sound, the deque is within its limit, and what was superseded had
\* been accepted: a submission that finds the deque full finds none of its key.
Replacing ==
    /\ ReplacementSound
    /\ Cardinality(queued) <= MaxQueued
    /\ \A o \in superseded : state[o] # "new"

\* No step breaks what is known of replacements.
LEMMA ReplacingNext ==
    ASSUME TypeOK, CancellersHold, Accounted, Ticketed, Replacing, [Next]_vars
    PROVE  Replacing'
<1>0. /\ MaxQueued \in Nat /\ Cardinality(queued) \in Nat /\ superseded \subseteq Ops /\ queued \subseteq Ops
      /\ Cardinality(queued) <= MaxQueued
  BY OpsFinite, OperationQueueAssumption DEF TypeOK, OperationQueueAssumption, Replacing
<1>1. ASSUME NEW c \in Clients, NEW o \in Ops, NEW k \in Keys \cup {NoKey}, NEW aged \in Ages,
             Submit(c, o, k, aged)
      PROVE  Replacing'
  <2> DEFINE dropped == SameKey(k)
  <2>1. /\ dropped \subseteq queued /\ (\A x \in dropped : key[x] = k)
        /\ k # NoKey => \A x \in queued \ dropped : key[x] # k
        /\ k = NoKey => dropped = {}
    BY DEF SameKey
  <2>2. /\ queued' = (queued \ dropped) \cup {o} /\ superseded' = superseded \cup dropped
        /\ Cardinality(queued \ dropped) < MaxQueued /\ state[o] = "new"
    BY <1>1 DEF Submit
  <2>3. /\ \A x \in Ops : ticket'[x] = IF x = o THEN Submissions + 1 ELSE ticket[x]
        /\ \A x \in Ops : key'[x] = IF x = o THEN k ELSE key[x]
    BY <1>1 DEF Submit, TypeOK
  <2>4. \A x \in Ops : state'[x] = "new" <=> state[x] = "new" /\ x # o
    BY <1>1, SubmitCounts
  <2>5. o \notin queued
    BY <2>2 DEF Accounted, NoOrphan
  <2> HIDE DEF dropped
  <2>6. OneQueuedPerKey'
    BY <1>0, <2>1, <2>2, <2>3, <2>5 DEF OneQueuedPerKey, Replacing, ReplacementSound
  <2>7. ASSUME NEW x \in superseded' PROVE \E n \in Ops : key'[n] = key'[x] /\ ticket'[n] > ticket'[x]
    <3>1. Submissions \in Nat /\ \A y \in Ops : ticket[y] <= Submissions /\ ticket[y] \in Nat
      BY TotalsType DEF Ticketed, TypeOK
    <3>2. CASE x \in dropped
      <4>1. x \in Ops /\ x # o /\ key[x] = k
        BY <1>0, <2>1, <2>5, <3>2
      <4> QED BY <2>3, <3>1, <4>1
    <3>3. CASE x \in superseded
      <4>1. PICK n \in Ops : key[n] = key[x] /\ ticket[n] > ticket[x]
        BY <3>3 DEF Replacing, ReplacementSound, SupersededHasSuccessor
      <4>2. x \in Ops /\ x # o
        BY <1>0, <2>2, <3>3 DEF Replacing
      <4>3. n # o
        BY <2>2, <3>1, <4>1, <4>2 DEF Ticketed
      <4> QED BY <2>3, <4>1, <4>2, <4>3
    <3> QED BY <2>2, <3>2, <3>3
  <2>8. Cardinality(queued') <= MaxQueued
    <3>1. IsFiniteSet(queued \ dropped) /\ Cardinality(queued \ dropped) \in Nat
      BY <1>0, OpsFinite
    <3>2. Cardinality((queued \ dropped) \cup {o}) = Cardinality(queued \ dropped) + 1
      BY <2>5, <3>1, FS_AddElement
    <3> QED BY <1>0, <2>2, <3>1, <3>2
  <2>9. \A x \in superseded' : state'[x] # "new"
    <3>1. \A x \in dropped : state[x] # "new"
      BY <1>0, <2>1 DEF Accounted, NoOrphan
    <3> QED BY <1>0, <2>1, <2>2, <2>4, <3>1 DEF Replacing
  <2> QED BY <2>6, <2>7, <2>8, <2>9 DEF Replacing, ReplacementSound, SupersededHasSuccessor
<1>2. ASSUME superseded' = superseded, queued' \subseteq queued, UNCHANGED <<ticket, key>>,
             \A o \in Ops : state'[o] = "new" <=> state[o] = "new"
      PROVE  Replacing'
  <2>1. Cardinality(queued') <= MaxQueued
    <3>1. Cardinality(queued') \in Nat /\ Cardinality(queued') <= Cardinality(queued)
      BY <1>0, <1>2, OpsFinite, FS_Subset
    <3> QED BY <1>0, <3>1
  <2> QED
    BY <1>0, <1>2, <2>1 DEF Replacing, ReplacementSound, OneQueuedPerKey, SupersededHasSuccessor
<1>3. ASSUME NEW c \in Clients, NEW k \in Keys \cup {NoKey}, NEW aged \in Ages, SubmitFull(c, k, aged)
      PROVE  superseded' = superseded /\ queued' \subseteq queued
  <2>1. SameKey(k) \subseteq queued /\ IsFiniteSet(queued) /\ queued \ SameKey(k) \in SUBSET queued
    BY <1>0, OpsFinite DEF SameKey
  <2>2. Cardinality(queued \ SameKey(k)) >= MaxQueued /\ Cardinality(queued \ SameKey(k)) \in Nat
        /\ Cardinality(queued \ SameKey(k)) <= Cardinality(queued)
    BY <1>0, <1>3, <2>1, FS_Subset, OpsFinite DEF SubmitFull
  <2>3. queued = queued \ SameKey(k)
    BY <1>0, <2>1, <2>2, FS_Subset
  <2>4. SameKey(k) = {}
    BY <2>1, <2>3
  <2> QED BY <1>3, <2>4 DEF SubmitFull, FinishAll
<1>4. ASSUME \/ \E S : Withdraws(S)
             \/ \E final \in Terminal : \E S : Ends(S, final)
             \/ \E o \in Ops : Start(o)
             \/ Stays
      PROVE  superseded' = superseded /\ queued' \subseteq queued
  BY <1>4 DEF Withdraws, Ends, FinishAll, Start, Stays
<1> QED BY <1>1, <1>2, <1>3, <1>4, StepKinds, OthersAcceptNothing

-----------------------------------------------------------------------------
(* Positions *)

\* No step makes a position that a client was told too small.
LEMMA PositionsNext ==
    ASSUME TypeOK, CancellersHold, Accounted, Ticketed, PositionsHonest, [Next]_vars
    PROVE  PositionsHonest'
<1>0. queued \subseteq Ops
  BY DEF TypeOK
<1>1. ASSUME NEW c \in Clients, NEW o \in Ops, NEW k \in Keys \cup {NoKey}, NEW aged \in Ages,
             Submit(c, o, k, aged)
      PROVE  PositionsHonest'
  <2> DEFINE rest == queued \ SameKey(k)
  <2>1. rest \subseteq Ops /\ o \notin rest
    BY <1>0, <1>1 DEF Submit, Accounted, NoOrphan
  <2>2. queued' = rest \cup {o} /\ (rest \cup {o}) \ {o} = rest
    BY <1>1, <2>1 DEF Submit
  <2>3. \A x \in rest : position'[x] = Rank(x, rest)
    BY <1>1, <2>1, <2>2 DEF Submit
  <2>4. position'[o] = Cardinality(rest \cup {o})
    BY <1>1 DEF Submit
  <2>5. \A x \in Ops : ticket'[x] = IF x = o THEN Submissions + 1 ELSE ticket[x]
    BY <1>1 DEF Submit, TypeOK
  <2>6. Submissions \in Nat /\ \A x \in Ops : ticket[x] \in Nat /\ ticket[x] <= Submissions
    BY TotalsType DEF Ticketed, TypeOK
  <2> HIDE DEF rest
  <2>7. \A x \in rest : {q \in queued' : ticket'[q] <= ticket'[x]} = {q \in rest : ticket[q] <= ticket[x]}
    BY <2>1, <2>2, <2>5, <2>6
  <2>8. {q \in queued' : ticket'[q] <= ticket'[o]} = queued'
    BY <2>1, <2>2, <2>5, <2>6
  <2>9. /\ \A x \in rest : Rank(x, queued)' = position'[x]
        /\ Rank(o, queued)' = position'[o]
    BY <2>2, <2>3, <2>4, <2>7, <2>8 DEF Rank
  <2>10. \A x \in rest : position'[x] \in Nat /\ position'[x] < position'[o]
    <3>1. Cardinality(rest \cup {o}) = Cardinality(rest) + 1 /\ Cardinality(rest) \in Nat
      BY <2>1, OpsFinite, FS_AddElement
    <3> QED BY <2>1, <2>3, <2>4, <3>1, RankBounds
  <2>11. \A x, y \in rest : ticket[x] < ticket[y] => position'[x] < position'[y]
    BY <2>1, <2>3, RankStrict
  <2>12. Cardinality(rest \cup {o}) \in Nat
    BY <2>1, OpsFinite
  <2>13. ASSUME NEW a \in queued' PROVE position'[a] >= Rank(a, queued)'
    <3>1. CASE a = o
      BY <2>4, <2>9, <2>12, <3>1
    <3>2. CASE a \in rest
      BY <2>9, <2>10, <3>2
    <3> QED BY <2>2, <3>1, <3>2
  <2>14. ASSUME NEW a \in queued', NEW b \in queued', ticket'[a] < ticket'[b]
         PROVE  position'[a] < position'[b]
    <3>1. a # o
      BY <2>1, <2>2, <2>5, <2>6, <2>14
    <3>2. CASE b = o
      BY <2>2, <2>10, <3>1, <3>2
    <3>3. CASE b # o
      BY <2>1, <2>2, <2>5, <2>11, <2>14, <3>1, <3>3
    <3> QED BY <3>2, <3>3
  <2> QED BY <2>13, <2>14 DEF PositionsHonest
<1>2. ASSUME queued' \subseteq queued, UNCHANGED ticket, \A o \in queued' : position'[o] = position[o]
      PROVE  PositionsHonest'
  <2>1. \A a \in queued' : Rank(a, queued)' = Rank(a, queued')
    BY <1>2 DEF Rank
  <2>2. \A a \in queued' : Rank(a, queued') <= Rank(a, queued)
    BY <1>0, <1>2, RankShrinks
  <2>3. \A a \in queued' : Rank(a, queued') \in Nat /\ Rank(a, queued) \in Nat /\ position[a] \in Nat
    BY <1>0, <1>2, RankType DEF TypeOK
  <2> QED BY <1>2, <2>1, <2>2, <2>3 DEF PositionsHonest
<1>3. ASSUME NEW S, S \subseteq queued, NEW final, NEW R, FinishAll(S, final, R), queued' = queued \ S
      PROVE  PositionsHonest'
  <2>1. UNCHANGED ticket /\ \A o \in Ops \ S : position'[o] = position[o]
    BY <1>3 DEF FinishAll
  <2> QED BY <1>0, <1>2, <1>3, <2>1
<1>4. ASSUME NEW S, NEW final, Ends(S, final) PROVE PositionsHonest'
  <2>1. S \cap queued = {}
    BY <1>4 DEF Ends, Started, Accounted, NoOrphan
  <2>2. UNCHANGED ticket /\ \A o \in Ops \ S : position'[o] = position[o]
    BY <1>4 DEF Ends, FinishAll
  <2>3. queued' = queued
    BY <1>4 DEF Ends
  <2> QED BY <1>0, <1>2, <2>1, <2>2, <2>3
<1>5. ASSUME NEW o \in Ops, Start(o) PROVE PositionsHonest'
  <2>1. queued' = queued \ {o} /\ UNCHANGED ticket
    BY <1>5 DEF Start
  <2>2. \A x \in queued' : position'[x] = Rank(x, queued') /\ Rank(x, queued)' = Rank(x, queued')
    BY <1>0, <1>5, <2>1 DEF Start, Rank
  <2>3. \A x \in queued' : Rank(x, queued') \in Nat
    BY <1>0, <2>1, RankType
  <2>4. \A x, y \in queued' : ticket[x] < ticket[y] => Rank(x, queued') < Rank(y, queued')
    BY <1>0, <2>1, RankStrict
  <2> QED BY <2>1, <2>2, <2>3, <2>4 DEF PositionsHonest
<1>6. CASE Stays
  BY <1>2, <1>6 DEF Stays
<1>7. ASSUME NEW c \in Clients, NEW k \in Keys \cup {NoKey}, NEW aged \in Ages, SubmitFull(c, k, aged)
      PROVE  PositionsHonest'
  BY <1>3, <1>7 DEF SubmitFull, SameKey
<1>8. ASSUME NEW S, Withdraws(S) PROVE PositionsHonest'
  BY <1>3, <1>8 DEF Withdraws
<1> QED BY <1>1, <1>4, <1>5, <1>6, <1>7, <1>8, StepKinds

-----------------------------------------------------------------------------
(* The order of finishing *)

\* No two ended records finished at the same time.
FinishOrdered ==
    /\ \A o \in Ops : state[o] \in Terminal => finishedAt[o] <= Finishes
    /\ \A a, b \in Ops : state[a] \in Terminal /\ state[b] \in Terminal
                         /\ finishedAt[a] = finishedAt[b] => a = b

\* Records that end in one step are numbered behind all others, in the order of submission.
LEMMA EndingOrdered ==
    ASSUME TypeOK, Ticketed, FinishOrdered, NEW E, E \subseteq Ops,
           \A o \in E : state[o] \notin Terminal \cup {"new"},
           \A o \in Ops : state'[o] \in Terminal <=> state[o] \in Terminal \/ o \in E,
           \A o \in E : finishedAt'[o] = Finishes + Rank(o, E),
           \A o \in Ops \ E : finishedAt'[o] = finishedAt[o]
    PROVE  FinishOrdered'
<1> DEFINE old == {o \in Ops : state[o] \in Terminal}
<1>1. {o \in Ops : state'[o] \in Terminal} = old \cup E /\ old \cap E = {}
  OBVIOUS
<1>2. IsFiniteSet(old) /\ IsFiniteSet(E)
  BY OpsFinite
<1>3. Cardinality(old \cup E) = Cardinality(old) + Cardinality(E)
  <2>1. Cardinality(old \cap E) = 0
    BY <1>1, FS_EmptySet
  <2>2. Cardinality(old \cup E) = Cardinality(old) + Cardinality(E) - Cardinality(old \cap E)
    BY <1>2, FS_Union
  <2>3. Cardinality(old) \in Nat /\ Cardinality(E) \in Nat
    BY OpsFinite
  <2> QED BY <2>1, <2>2, <2>3
<1>4. Finishes' = Finishes + Cardinality(E) /\ Cardinality(E) \in Nat /\ Finishes \in Nat
  BY <1>1, <1>3, OpsFinite, TotalsType DEF Finishes
<1>5. \A o \in E : Rank(o, E) \in 1 .. Cardinality(E)
  BY RankBounds
<1>6. ASSUME NEW a \in E, NEW b \in E, Rank(a, E) = Rank(b, E) PROVE a = b
  <2>1. ticket[a] \in Nat /\ ticket[b] \in Nat /\ ticket[a] # 0
    BY DEF Ticketed, TypeOK
  <2>2. Rank(a, E) \in Nat /\ Rank(b, E) \in Nat
    BY <1>4, <1>5
  <2>3. ~(ticket[a] < ticket[b]) /\ ~(ticket[b] < ticket[a])
    BY <1>6, <2>2, RankStrict
  <2> QED BY <2>1, <2>3 DEF Ticketed
<1>7. \A o \in Ops : finishedAt[o] \in Nat
  BY DEF TypeOK
<1>8. ASSUME NEW o \in Ops, state'[o] \in Terminal
      PROVE  /\ finishedAt'[o] <= Finishes'
             /\ o \notin E => state[o] \in Terminal /\ finishedAt'[o] = finishedAt[o]
                              /\ finishedAt[o] <= Finishes
             /\ o \in E => finishedAt'[o] = Finishes + Rank(o, E)
  BY <1>4, <1>5, <1>7, <1>8 DEF FinishOrdered
<1>9. ASSUME NEW a \in Ops, NEW b \in Ops, state'[a] \in Terminal, state'[b] \in Terminal,
             finishedAt'[a] = finishedAt'[b]
      PROVE  a = b
  <2>1. CASE a \in E /\ b \in E
    <3>1. Rank(a, E) = Rank(b, E)
      BY <1>4, <1>5, <1>8, <1>9, <2>1
    <3> QED BY <1>6, <2>1, <3>1
  <2>2. CASE a \notin E /\ b \notin E
    BY <1>8, <1>9, <2>2 DEF FinishOrdered
  <2>3. CASE a \in E /\ b \notin E
    BY <1>4, <1>5, <1>7, <1>8, <1>9, <2>3
  <2>4. CASE a \notin E /\ b \in E
    BY <1>4, <1>5, <1>7, <1>8, <1>9, <2>4
  <2> QED BY <2>1, <2>2, <2>3, <2>4
<1> QED BY <1>8, <1>9 DEF FinishOrdered

\* No step breaks the order of finishing.
LEMMA FinishOrderedNext ==
    ASSUME TypeOK, CancellersHold, Accounted, Ticketed, FinishOrdered, [Next]_vars
    PROVE  FinishOrdered'
<1>0. "cancelled" \in Terminal /\ "queued" \notin Terminal /\ "running" \notin Terminal
      /\ "new" \notin Terminal /\ Live \cap Terminal = {}
  BY DEF Terminal, Live
<1>1. ASSUME NEW S, S \subseteq Ops, \A o \in S : state[o] # "new", NEW final \in Terminal,
             NEW R, FinishAll(S, final, R)
      PROVE  FinishOrdered'
  <2> DEFINE ended == {o \in S : state[o] \notin Terminal}
  <2>1. /\ state' = [o \in Ops |-> IF o \in ended THEN final ELSE state[o]]
        /\ finishedAt' = [o \in Ops |-> IF o \in ended THEN Finishes + Rank(o, ended)
                                        ELSE finishedAt[o]]
    BY <1>1 DEF FinishAll
  <2>2. ended \subseteq Ops /\ \A o \in ended : state[o] \notin Terminal \cup {"new"}
    BY <1>1
  <2> HIDE DEF ended
  <2>3. \A o \in Ops : state'[o] \in Terminal <=> state[o] \in Terminal \/ o \in ended
    BY <1>1, <2>1
  <2>4. /\ \A o \in ended : finishedAt'[o] = Finishes + Rank(o, ended)
        /\ \A o \in Ops \ ended : finishedAt'[o] = finishedAt[o]
    BY <2>1, <2>2
  <2> QED BY <2>2, <2>3, <2>4, EndingOrdered
<1>2. ASSUME UNCHANGED finishedAt,
             \A o \in Ops : state'[o] \in Terminal <=> state[o] \in Terminal
      PROVE  FinishOrdered'
  <2>1. {o \in Ops : state'[o] \in Terminal} = {o \in Ops : state[o] \in Terminal}
    BY <1>2
  <2>2. Finishes' = Finishes
    BY <2>1 DEF Finishes
  <2> QED BY <1>2, <2>2 DEF FinishOrdered
<1>3. ASSUME NEW c \in Clients, NEW o \in Ops, NEW k \in Keys \cup {NoKey}, NEW aged \in Ages,
             Submit(c, o, k, aged)
      PROVE  FinishOrdered'
  <2> DEFINE dropped == SameKey(k)
  <2>1. dropped \subseteq Ops /\ o \notin dropped
        /\ \A x \in dropped : state[x] \notin Terminal \cup {"new"}
    BY <1>0, <1>3 DEF SameKey, Submit, Accounted, NoOrphan, TypeOK
  <2>2. \A x \in Ops : state'[x] = IF x = o THEN "queued"
                                   ELSE IF x \in dropped THEN "cancelled" ELSE state[x]
    BY <1>3 DEF Submit
  <2>3. finishedAt' = [x \in Ops |-> IF x \in dropped THEN Finishes + Rank(x, dropped)
                                     ELSE finishedAt[x]]
    BY <1>3 DEF Submit
  <2>4. state[o] = "new"
    BY <1>3 DEF Submit
  <2> HIDE DEF dropped
  <2>5. \A x \in Ops : state'[x] \in Terminal <=> state[x] \in Terminal \/ x \in dropped
    BY <1>0, <2>1, <2>2, <2>4
  <2>6. /\ \A x \in dropped : finishedAt'[x] = Finishes + Rank(x, dropped)
        /\ \A x \in Ops \ dropped : finishedAt'[x] = finishedAt[x]
    BY <2>1, <2>3
  <2> QED BY <2>1, <2>5, <2>6, EndingOrdered
<1>4. ASSUME NEW c \in Clients, NEW k \in Keys \cup {NoKey}, NEW aged \in Ages, SubmitFull(c, k, aged)
      PROVE  FinishOrdered'
  <2>1. SameKey(k) \subseteq Ops /\ \A x \in SameKey(k) : state[x] # "new"
    BY DEF SameKey, Accounted, NoOrphan, TypeOK
  <2> QED BY <1>0, <1>1, <1>4, <2>1 DEF SubmitFull
<1>5. ASSUME NEW S, Withdraws(S) PROVE FinishOrdered'
  <2>1. S \subseteq Ops /\ \A x \in S : state[x] # "new"
    BY <1>5 DEF Withdraws, Accounted, NoOrphan, TypeOK
  <2> QED BY <1>0, <1>1, <1>5, <2>1 DEF Withdraws
<1>6. ASSUME NEW final \in Terminal, NEW S, Ends(S, final) PROVE FinishOrdered'
  <2>1. S \subseteq Ops /\ \A x \in S : state[x] # "new"
    BY <1>6 DEF Ends, Started
  <2> QED BY <1>1, <1>6, <2>1 DEF Ends
<1>7. ASSUME NEW o \in Ops, Start(o) PROVE FinishOrdered'
  <2>1. state[o] = "queued"
    BY <1>7 DEF Start, Accounted, NoOrphan
  <2>2. UNCHANGED finishedAt /\ \A x \in Ops : state'[x] = IF x = o THEN "running" ELSE state[x]
    BY <1>7 DEF Start, TypeOK
  <2> QED BY <1>0, <1>2, <2>1, <2>2
<1>8. CASE Stays
  BY <1>0, <1>2, <1>8 DEF Stays
<1> QED BY <1>3, <1>4, <1>5, <1>6, <1>7, <1>8, StepKinds

-----------------------------------------------------------------------------
(* Eviction *)

\* Eviction takes nothing but what is evictable.
LEMMA PrunedKeeps ==
    ASSUME NEW aged, NEW keep
    PROVE  Pruned(aged, keep) \subseteq known /\ known \ Evictable \subseteq Pruned(aged, keep)
BY DEF Pruned

\* Kept is what eviction respects; known records have been submitted.
Kept == NeededRecordsKept /\ \A o \in known : state[o] # "new"

\* A wait keeps its record, or has just begun for a record that is known.
LEMMA WaitingHolds ==
    ASSUME TypeOK, [Next]_vars, NEW c \in Clients, pc'[c] = "wait"
    PROVE  \/ pc[c] = "wait" /\ target'[c] = target[c]
           \/ target'[c] \in known /\ known' = known
<1> USE OperationQueueAssumption DEF OperationQueueAssumption, TypeOK, Threads
<1>1. ASSUME UNCHANGED <<pc, target>> PROVE pc[c] = "wait" /\ target'[c] = target[c]
  BY <1>1
<1>3. ASSUME NEW t \in Threads, NEW outcome, Return(t, outcome)
      PROVE  pc[c] = "wait" /\ target'[c] = target[c]
  BY <1>3 DEF Return
<1>4. ASSUME NEW d \in Clients, ClientStep(d)
      PROVE  \/ pc[c] = "wait" /\ target'[c] = target[c]
             \/ target'[c] \in known /\ known' = known
  <2>1. ASSUME NEW o \in Ops, NEW k \in Keys \cup {NoKey}, NEW aged \in Ages, Submit(d, o, k, aged)
        PROVE  pc[c] = "wait" /\ target'[c] = target[c]
    BY <2>1 DEF Submit
  <2>2. ASSUME NEW o \in Ops, Wait(d, o)
        PROVE  \/ pc[c] = "wait" /\ target'[c] = target[c]
               \/ target'[c] \in known /\ known' = known
    BY <2>2 DEF Wait, queueVars
  <2>3. ASSUME NEW o \in Ops, CancelLive(d, o) PROVE pc[c] = "wait" /\ target'[c] = target[c]
    BY <2>3 DEF CancelLive
  <2>4. CASE WaitReturns(d)
    BY <2>4 DEF WaitReturns
  <2> QED BY <1>1, <1>4, <2>1, <2>2, <2>3, <2>4 DEF ClientStep, SubmitFull, CancelQueued, threadVars
<1>5. ASSUME WriterStep PROVE pc[c] = "wait" /\ target'[c] = target[c]
  <2>1. ASSUME NEW o \in Ops, Start(o) PROVE pc[c] = "wait" /\ target'[c] = target[c]
    BY <2>1 DEF Start
  <2> QED
    BY <1>1, <1>5, <2>1 DEF WriterStep, WriterReturns, ReleaseWriter, Heartbeat, Settle, threadVars
<1>6. ASSUME NEW o \in Ops, WatchStep(o) PROVE pc[c] = "wait" /\ target'[c] = target[c]
  BY <1>6 DEF WatchStep, WatchEnds, WatchExpired, WatchRecheck
<1>7. ASSUME NEW t \in Closers, CloseStep(t) PROVE pc[c] = "wait" /\ target'[c] = target[c]
  BY <1>7 DEF CloseStep, Close, CloseClaimed, CloseJoined
<1>8. ASSUME NEW t \in Threads, CancelStep(t) PROVE pc[c] = "wait" /\ target'[c] = target[c]
  <2>1. ASSUME NEW p \in PCs \ {"wait"}, pc' = [pc EXCEPT ![t] = p], UNCHANGED target
        PROVE  pc[c] = "wait" /\ target'[c] = target[c]
    BY <2>1
  <2> QED
    BY <1>3, <1>8, <2>1 DEF CancelStep, BeginCancel, MarkTooLate, DropClaim, InstallIntent,
       FinishCancel, ForgetClaim, PCs
<1>9. CASE UNCHANGED vars
  BY <1>1, <1>9 DEF vars, threadVars
<1> QED BY <1>4, <1>5, <1>6, <1>7, <1>8, <1>9 DEF Next

\* What a step takes out of the records was evictable, and what it adds was submitted.
LEMMA KnownSteps ==
    ASSUME TypeOK, CancellersHold, Accounted, [Next]_vars
    PROVE  /\ known \ Evictable \subseteq known'
           /\ \A o \in known' \ known : state'[o] # "new"
           /\ \A o \in Ops : state'[o] \in Live \cup {"queued"} =>
                  state[o] \in Live \cup {"queued"} \/ o \in known'
           /\ \A o \in Ops : state[o] # "new" => state'[o] # "new"
<1>0. "cancelled" \in Terminal /\ Terminal \cap (Live \cup {"queued"}) = {}
  BY DEF Terminal, Live
<1>1. ASSUME NEW c \in Clients, NEW o \in Ops, NEW k \in Keys \cup {NoKey}, NEW aged \in Ages,
             Submit(c, o, k, aged)
      PROVE  /\ known \ Evictable \subseteq known'
             /\ \A x \in known' \ known : state'[x] # "new"
             /\ \A x \in Ops : state'[x] \in Live \cup {"queued"} =>
                    state[x] \in Live \cup {"queued"} \/ x \in known'
             /\ \A x \in Ops : state[x] # "new" => state'[x] # "new"
  <2>1. known' = Pruned(aged, MaxTerminal - 1) \cup {o}
    BY <1>1 DEF Submit
  <2>2. \A x \in Ops : state'[x] = IF x = o THEN "queued"
                                   ELSE IF x \in SameKey(k) THEN "cancelled" ELSE state[x]
    BY <1>1 DEF Submit
  <2> QED BY <1>0, <2>1, <2>2, PrunedKeeps
<1>2. ASSUME NEW S, NEW final \in Terminal, NEW R, FinishAll(S, final, R),
             \A o \in Ops : state'[o] = "new" <=> state[o] = "new",
             known \ Evictable \subseteq known', known' \subseteq known
      PROVE  /\ \A o \in known' \ known : state'[o] # "new"
             /\ \A o \in Ops : state'[o] \in Live \cup {"queued"} =>
                    state[o] \in Live \cup {"queued"} \/ o \in known'
  BY <1>0, <1>2, FinishAllState
<1>3. ASSUME NEW c \in Clients, NEW k \in Keys \cup {NoKey}, NEW aged \in Ages, SubmitFull(c, k, aged)
      PROVE  known \ Evictable \subseteq known' /\ known' \subseteq known
  BY <1>3, PrunedKeeps DEF SubmitFull
<1>4. ASSUME NEW o \in Ops, Start(o)
      PROVE  /\ known' = known
             /\ \A x \in Ops : state'[x] \in Live \cup {"queued"} => state[x] \in Live \cup {"queued"}
  <2>1. state[o] = "queued" /\ known' = known
    BY <1>4 DEF Start, Accounted, NoOrphan
  <2>2. \A x \in Ops : state'[x] = IF x = o THEN "running" ELSE state[x]
    BY <1>4 DEF Start, TypeOK
  <2> QED BY <2>1, <2>2
<1>5. ASSUME Stays
      PROVE  /\ known' = known
             /\ \A x \in Ops : state'[x] \in Live \cup {"queued"} => state[x] \in Live \cup {"queued"}
  BY <1>5 DEF Stays
<1>6. ASSUME NEW S, Withdraws(S) \/ \E final \in Terminal : Ends(S, final)
      PROVE  known' = known /\ \E final \in Terminal : \E R : FinishAll(S, final, R)
  BY <1>0, <1>6 DEF Withdraws, Ends
<1> QED BY <1>0, <1>1, <1>2, <1>3, <1>4, <1>5, <1>6, StepKinds, OthersAcceptNothing DEF SubmitFull

\* No step forgets a record that is still needed.
LEMMA KeptNext ==
    ASSUME TypeOK, CancellersHold, Accounted, Kept, [Next]_vars
    PROVE  Kept'
<1>0. Terminal \cap (Live \cup {"queued"}) = {}
  BY DEF Terminal, Live
<1>1. ASSUME NEW o \in Ops, state'[o] \in Live \cup {"queued"} PROVE o \in known'
  <2>1. CASE state[o] \in Live \cup {"queued"}
    BY <1>0, <2>1, KnownSteps DEF Kept, NeededRecordsKept, Evictable
  <2> QED BY <1>1, <2>1, KnownSteps
<1>2. ASSUME NEW c \in Clients, pc'[c] = "wait" PROVE target'[c] \in known'
  <2>1. CASE pc[c] = "wait" /\ target'[c] = target[c]
    <3>1. target[c] \in known /\ c \in Waiters(target[c])
      BY <2>1 DEF Kept, NeededRecordsKept, Waiters
    <3>2. target[c] \notin Evictable
      BY <3>1 DEF Evictable
    <3> QED BY <2>1, <3>1, <3>2, KnownSteps
  <2> QED BY <1>2, <2>1, WaitingHolds
<1>3. ASSUME NEW o \in known' PROVE state'[o] # "new"
  <2>1. CASE o \in known
    BY <2>1, KnownSteps DEF Kept, TypeOK
  <2> QED BY <2>1, KnownSteps
<1> QED BY <1>1, <1>2, <1>3 DEF Kept, NeededRecordsKept

\* Among ended records there is one that ended first.
LEMMA FirstFinished ==
    ASSUME TypeOK, NEW S, S \subseteq Ops, S # {}
    PROVE  \E m \in S : \A p \in S : finishedAt[m] <= finishedAt[p]
<1> DEFINE T == {finishedAt[o] : o \in S}
           R == {ss \in Nat \X Nat : ss[1] < ss[2]}
<1>1. T \subseteq Nat /\ T # {}
  BY DEF TypeOK
<1>2. IsWellFoundedOn(R, Nat)
  BY NatLessThanWellFounded DEF OpToRel
<1>3. PICK n \in T : \A y \in T : ~(<<y, n>> \in R)
  BY <1>1, <1>2, WFMin
<1>4. ASSUME NEW p \in S PROVE n <= finishedAt[p]
  <2>1. finishedAt[p] \in T
    OBVIOUS
  <2>2. finishedAt[p] \in Nat /\ n \in Nat
    BY <1>1, <1>3, <2>1
  <2>3. ~(<<finishedAt[p], n>> \in R)
    BY <1>3, <2>1
  <2> HIDE DEF T
  <2>4. ~(finishedAt[p] < n)
    BY <2>2, <2>3
  <2> QED BY <2>2, <2>4
<1>5. PICK m \in S : n = finishedAt[m]
  BY <1>3
<1> QED BY <1>4, <1>5

\* Pruning to `keep` records reaches that number or evicts all it may.
LEMMA PrunedBounded ==
    ASSUME TypeOK, FinishOrdered, NEW aged, NEW keep \in Nat
    PROVE  Cardinality(Pruned(aged, keep)) <= keep \/ Pruned(aged, keep) = known \ Evictable
<1> DEFINE old == {o \in Evictable : finishedAt[o] <= aged}
           rest == Evictable \ old
           young == known \ old
           excess == Cardinality(young) - keep
           upto(o) == {p \in rest : finishedAt[p] <= finishedAt[o]}
           oldest == {o \in rest : Cardinality(upto(o)) <= excess}
<1>1. Pruned(aged, keep) = young \ oldest /\ known \ Evictable = young \ rest
  BY DEF Pruned, Evictable
<1>2. young \subseteq Ops /\ rest \subseteq young /\ oldest \subseteq rest
      /\ \A o \in rest : state[o] \in Terminal
  BY DEF TypeOK, Evictable
<1> HIDE DEF old, rest, young
<1>3. excess \in Int /\ Cardinality(young) \in Nat
  BY <1>2, OpsFinite
<1> HIDE DEF excess
<1>4. CASE oldest = rest
  BY <1>1, <1>4
<1>5. CASE oldest # rest
  <2>1. PICK m \in rest \ oldest : \A p \in rest \ oldest : finishedAt[m] <= finishedAt[p]
    <3>1. rest \ oldest # {} /\ rest \ oldest \subseteq Ops
      BY <1>2, <1>5
    <3> HIDE DEF oldest
    <3> QED BY <3>1, FirstFinished
  <2>2. m \in Ops /\ m \in rest /\ m \notin oldest
    BY <1>2, <2>1
  <2>3. ~(Cardinality(upto(m)) <= excess)
    BY <2>2
  <2>4. upto(m) \subseteq oldest \cup {m}
    <3> SUFFICES ASSUME NEW p \in rest, finishedAt[p] <= finishedAt[m], p # m PROVE p \in oldest
      OBVIOUS
    <3>1. p \in Ops /\ finishedAt[p] \in Nat /\ finishedAt[m] \in Nat
      BY <1>2, <2>2 DEF TypeOK
    <3>2. finishedAt[p] # finishedAt[m]
      BY <1>2, <2>2, <3>1 DEF FinishOrdered
    <3> HIDE DEF oldest
    <3> QED BY <2>1, <3>1, <3>2
  <2> HIDE DEF oldest, upto
  <2>5. oldest \subseteq Ops
    BY <1>2
  <2>6. Cardinality(oldest \cup {m}) = Cardinality(oldest) + 1 /\ Cardinality(oldest) \in Nat
    BY <2>2, <2>5, OpsFinite, FS_AddElement
  <2>7. Cardinality(upto(m)) <= Cardinality(oldest \cup {m}) /\ Cardinality(upto(m)) \in Nat
    BY <2>2, <2>4, <2>5, OpsFinite, FS_Subset
  <2>8. Cardinality(oldest) >= excess
    BY <1>3, <2>3, <2>6, <2>7
  <2>9. Cardinality(young \ oldest) = Cardinality(young) - Cardinality(oldest)
    <3>1. young \cap oldest = oldest
      BY <1>2
    <3>2. Cardinality(young \ oldest) = Cardinality(young) - Cardinality(young \cap oldest)
      BY <1>2, OpsFinite, FS_Difference
    <3> QED BY <3>1, <3>2
  <2> QED BY <1>1, <1>3, <2>6, <2>8, <2>9 DEF excess
<1> QED BY <1>4, <1>5

Bounded == known' \ known # {} =>
    \/ Cardinality(known') <= MaxTerminal
    \/ \A o \in known \cap known' : state[o] \in Live \cup {"queued"} \/ Waiters(o) # {}

\* No step lets the cache outgrow its limit.
LEMMA BoundedNext ==
    ASSUME TypeOK, CancellersHold, Accounted, FinishOrdered, Kept, [Next]_vars
    PROVE  Bounded
<1>1. ASSUME NEW c \in Clients, NEW o \in Ops, NEW k \in Keys \cup {NoKey}, NEW aged \in Ages,
             Submit(c, o, k, aged)
      PROVE  Bounded
  <2> DEFINE kept == Pruned(aged, MaxTerminal - 1)
  <2>1. known' = kept \cup {o} /\ state[o] = "new"
    BY <1>1 DEF Submit
  <2>2. MaxTerminal - 1 \in Nat /\ MaxTerminal \in Nat
    BY OperationQueueAssumption DEF OperationQueueAssumption
  <2>3. kept \subseteq Ops
    BY PrunedKeeps DEF TypeOK
  <2>4. Cardinality(kept) <= MaxTerminal - 1 \/ kept = known \ Evictable
    BY <2>2, PrunedBounded
  <2> HIDE DEF kept
  <2>5. CASE Cardinality(kept) <= MaxTerminal - 1
    <3>1. Cardinality(kept) \in Nat /\ IsFiniteSet(kept)
      BY <2>3, OpsFinite
    <3>2. Cardinality(known') = Cardinality(kept) \/ Cardinality(known') = Cardinality(kept) + 1
      BY <2>1, <3>1, FS_AddElement
    <3> QED BY <2>2, <2>5, <3>1, <3>2 DEF Bounded
  <2>6. CASE kept = known \ Evictable
    <3>1. ASSUME NEW x \in known \cap known' PROVE state[x] \in Live \cup {"queued"} \/ Waiters(x) # {}
      <4>1. x \in Ops /\ (x = o \/ x \notin Evictable)
        BY <2>1, <2>6, <3>1 DEF TypeOK
      <4>2. state[x] # "new"
        BY <3>1 DEF Kept
      <4> QED BY <2>1, <3>1, <4>1, <4>2 DEF Evictable, TypeOK, States
    <3> QED BY <3>1 DEF Bounded
  <2> QED BY <2>4, <2>5, <2>6
<1>2. CASE known' \subseteq known
  BY <1>2 DEF Bounded
<1>3. ASSUME NEW c \in Clients, NEW k \in Keys \cup {NoKey}, NEW aged \in Ages, SubmitFull(c, k, aged)
      PROVE  known' \subseteq known
  BY <1>3, PrunedKeeps DEF SubmitFull
<1>4. ASSUME \/ \E S : Withdraws(S)
             \/ \E final \in Terminal : \E S : Ends(S, final)
             \/ \E o \in Ops : Start(o)
             \/ Stays
      PROVE  known' \subseteq known
  BY <1>4 DEF Withdraws, Ends, Start, Stays
<1> QED BY <1>1, <1>2, <1>3, <1>4, StepKinds

-----------------------------------------------------------------------------
(* Intents *)

Decided == \A o \in Ops : phase[o] \in Intents
               => /\ phase'[o] \in Intents
                  /\ state'[o] = "succeeded" => state[o] = "succeeded"

\* A step that ends nothing as a success and installs nothing but intents respects them.
LEMMA DecidedNext ==
    ASSUME TypeOK, Accounted, [Next]_vars
    PROVE  Decided
<1> USE DEF Decided
<1>1. ASSUME NEW S, NEW final, final # "succeeded", NEW R, FinishAll(S, final, R) PROVE Decided
  BY <1>1, FinishAllState
<1>2. CASE UNCHANGED <<state, phase>>
  BY <1>2
<1>3. ASSUME NEW c \in Clients, ClientStep(c) PROVE Decided
  <2>1. ASSUME NEW o \in Ops, NEW k \in Keys \cup {NoKey}, NEW aged \in Ages, Submit(c, o, k, aged)
        PROVE  Decided
    BY <2>1 DEF Submit
  <2> QED
    BY <1>1, <1>2, <1>3, <2>1 DEF ClientStep, SubmitFull, Wait, WaitReturns, CancelQueued, CancelLive,
       recordVars
<1>4. ASSUME WriterStep PROVE Decided
  <2>1. ASSUME NEW o \in Ops, Start(o) PROVE Decided
    BY <2>1 DEF Start, TypeOK
  <2>2. ASSUME NEW p \in Progress, Heartbeat(p) PROVE Decided
    BY <2>2 DEF Heartbeat, TypeOK
  <2>3. ASSUME NEW outcome \in Outcomes, Settle(outcome) PROVE Decided
    <3>1. /\ \A o \in Ops : o # running => state'[o] = state[o]
          /\ running \in Ops => state'[running] \in {state[running], Verdict(outcome, phase[running])}
          /\ UNCHANGED phase
      BY <2>3, FinishAllState DEF Settle
    <3>2. phase[running] \in Intents => Verdict(outcome, phase[running]) # "succeeded"
      BY DEF Verdict, Intents
    <3> QED BY <3>1, <3>2
  <2> QED BY <1>2, <1>4, <2>1, <2>2, <2>3 DEF WriterStep, WriterReturns, ReleaseWriter, recordVars
<1>5. ASSUME NEW o \in Ops, WatchStep(o) PROVE Decided
  <2>1. CASE WatchRecheck(o)
    BY <2>1 DEF WatchRecheck, TypeOK, Intents
  <2> QED BY <1>2, <1>5, <2>1 DEF WatchStep, WatchEnds, WatchExpired, recordVars
<1>6. ASSUME NEW t \in Closers, CloseStep(t) PROVE Decided
  BY <1>1, <1>2, <1>6 DEF CloseStep, Close, CloseClaimed, CloseJoined, recordVars
<1>7. ASSUME NEW t \in Threads, CancelStep(t) PROVE Decided
  <2>1. CASE InstallIntent(t)
    BY <2>1 DEF InstallIntent, Intent, Intents, TypeOK
  <2> QED
    BY <1>2, <1>7, <2>1 DEF CancelStep, BeginCancel, MarkTooLate, DropClaim, FinishCancel, ForgetClaim,
       recordVars
<1>8. CASE UNCHANGED vars
  BY <1>2, <1>8 DEF vars, recordVars
<1> QED BY <1>3, <1>4, <1>5, <1>6, <1>7, <1>8 DEF Next

-----------------------------------------------------------------------------
(* Claims *)

Claiming == {"finish", "won", "lost"}

\* ClaimsAccounted, told from the claiming thread.
ClaimsHeld ==
    \A o \in Ops, t \in Threads :
        claim[o] = t => state[o] \in Live /\ Record(t) = o /\ pc[t] \in Claiming

\* A step that takes no claim keeps them in order when the records that stay claimed
\* stay live and nobody who claims moves.
LEMMA ClaimsStay ==
    ASSUME ClaimsHeld,
           \A o \in Ops : \/ claim'[o] = None
                          \/ claim'[o] = claim[o] /\ (state[o] \in Live => state'[o] \in Live),
           \A t \in Threads : pc[t] \in Claiming => pc'[t] \in Claiming /\ Record(t)' = Record(t)
    PROVE  ClaimsHeld'
<1> SUFFICES ASSUME NEW o \in Ops, NEW t \in Threads, claim'[o] = t
             PROVE  state'[o] \in Live /\ Record(t)' = o /\ pc'[t] \in Claiming
  BY DEF ClaimsHeld
<1>1. claim[o] = t
  BY OperationQueueAssumption DEF OperationQueueAssumption, Threads
<1> QED BY <1>1, OperationQueueAssumption DEF ClaimsHeld, OperationQueueAssumption, Threads

\* No step leaves a claim without its holder.
LEMMA ClaimsNext ==
    ASSUME TypeOK, CancellersHold, Accounted, ClaimsHeld, [Next]_vars
    PROVE  ClaimsHeld'
<1> USE OperationQueueAssumption DEF OperationQueueAssumption
<1>0. Terminal \cap Live = {} /\ "publishing" \in Live /\ "running" \in Live
      /\ "queued" \notin Live /\ "new" \notin Live
  BY DEF Terminal, Live
<1>1. ASSUME NEW S, NEW final, NEW R, FinishAll(S, final, R), NEW o \in Ops
      PROVE  \/ claim'[o] = None
             \/ claim'[o] = claim[o] /\ (state[o] \in Live => state'[o] \in Live)
  BY <1>0, <1>1 DEF FinishAll
<1>2. ASSUME UNCHANGED <<state, claim>>, NEW o \in Ops
      PROVE  \/ claim'[o] = None
             \/ claim'[o] = claim[o] /\ (state[o] \in Live => state'[o] \in Live)
  BY <1>2
<1>3. ASSUME NEW t \in Threads, pc[t] \notin Claiming, NEW p, pc' = [pc EXCEPT ![t] = p],
             \/ UNCHANGED target
             \/ \E o : target' = [target EXCEPT ![t] = o],
             NEW u \in Threads, pc[u] \in Claiming
      PROVE  pc'[u] \in Claiming /\ Record(u)' = Record(u)
  BY <1>3 DEF Record, TypeOK, Threads
<1>4. ASSUME UNCHANGED <<pc, target>>, NEW u \in Threads, pc[u] \in Claiming
      PROVE  pc'[u] \in Claiming /\ Record(u)' = Record(u)
  BY <1>4 DEF Record
<1>5. ASSUME NEW t \in Threads, pc[t] \notin Claiming, NEW outcome, Return(t, outcome),
             NEW u \in Threads, pc[u] \in Claiming
      PROVE  pc'[u] \in Claiming /\ Record(u)' = Record(u)
  BY <1>5 DEF Return, Record, TypeOK, Threads
<1>6. ASSUME NEW c \in Clients, ClientStep(c) PROVE ClaimsHeld'
  <2>0. c \in Threads /\ "idle" \notin Claiming /\ "wait" \notin Claiming
    BY DEF Threads, Claiming
  <2>1. ASSUME NEW o \in Ops, NEW k \in Keys \cup {NoKey}, NEW aged \in Ages, Submit(c, o, k, aged)
        PROVE  ClaimsHeld'
    <3>1. \A x \in Ops : \/ claim'[x] = None
                         \/ claim'[x] = claim[x] /\ (state[x] \in Live => state'[x] \in Live)
      <4>1. state[o] = "new"
        BY <2>1 DEF Submit
      <4>2. \A x \in Ops : state'[x] = IF x = o THEN "queued"
                                       ELSE IF x \in SameKey(k) THEN "cancelled" ELSE state[x]
        BY <2>1 DEF Submit
      <4>3. \A x \in Ops : claim'[x] = IF x \in SameKey(k) THEN None ELSE claim[x]
        BY <2>1 DEF Submit
      <4> QED BY <1>0, <4>1, <4>2, <4>3
    <3>2. pc[c] = "idle" /\ (\E p : pc' = [pc EXCEPT ![c] = p])
          /\ \E x : target' = [target EXCEPT ![c] = x]
      BY <2>1 DEF Submit
    <3>3. \A u \in Threads : pc[u] \in Claiming => pc'[u] \in Claiming /\ Record(u)' = Record(u)
      BY <1>3, <2>0, <3>2
    <3> QED BY <3>1, <3>3, ClaimsStay
  <2>2. ASSUME NEW k \in Keys \cup {NoKey}, NEW aged \in Ages, SubmitFull(c, k, aged)
        PROVE  ClaimsHeld'
    BY <1>1, <1>4, <2>2, ClaimsStay DEF SubmitFull, threadVars
  <2>3. ASSUME NEW o \in Ops, CancelQueued(c, o) PROVE ClaimsHeld'
    BY <1>1, <1>4, <2>3, ClaimsStay DEF CancelQueued, threadVars
  <2>4. ASSUME NEW o \in Ops, Wait(c, o) \/ CancelLive(c, o) PROVE ClaimsHeld'
    <3>1. pc[c] \notin Claiming /\ (\E p : pc' = [pc EXCEPT ![c] = p])
          /\ (\E x : target' = [target EXCEPT ![c] = x]) /\ UNCHANGED <<state, claim>>
      BY <2>0, <2>4 DEF Wait, CancelLive, recordVars
    <3>2. \A u \in Threads : pc[u] \in Claiming => pc'[u] \in Claiming /\ Record(u)' = Record(u)
      BY <1>3, <2>0, <3>1
    <3> QED BY <1>2, <3>1, <3>2, ClaimsStay
  <2>5. ASSUME WaitReturns(c) PROVE ClaimsHeld'
    <3>1. pc[c] \notin Claiming /\ (\E p : pc' = [pc EXCEPT ![c] = p])
          /\ (\E x : target' = [target EXCEPT ![c] = x]) /\ UNCHANGED <<state, claim>>
      BY <2>0, <2>5 DEF WaitReturns, recordVars
    <3>2. \A u \in Threads : pc[u] \in Claiming => pc'[u] \in Claiming /\ Record(u)' = Record(u)
      BY <1>3, <2>0, <3>1
    <3> QED BY <1>2, <3>1, <3>2, ClaimsStay
  <2> QED BY <1>6, <2>1, <2>2, <2>3, <2>4, <2>5 DEF ClientStep
<1>7. ASSUME WriterStep PROVE ClaimsHeld'
  <2>1. ASSUME NEW o \in Ops, Start(o) PROVE ClaimsHeld'
    <3>1. state[o] = "queued"
      BY <2>1 DEF Start, Accounted, NoOrphan
    <3> SUFFICES ASSUME NEW x \in Ops, NEW t \in Threads, claim'[x] = t
                 PROVE  state'[x] \in Live /\ Record(t)' = x /\ pc'[t] \in Claiming
      BY DEF ClaimsHeld
    <3>2. claim[x] = t
      BY <2>1 DEF Start
    <3>3. state[x] \in Live /\ Record(t) = x /\ pc[t] \in Claiming
      BY <3>2 DEF ClaimsHeld, Threads
    <3>4. x # o /\ t # o
      BY <1>0, <3>1, <3>3 DEF Record
    <3> QED BY <1>0, <2>1, <3>3, <3>4 DEF Start, Record, TypeOK
  <2>2. ASSUME NEW p \in Progress, Heartbeat(p) PROVE ClaimsHeld'
    <3>1. \A o \in Ops : claim'[o] = claim[o] /\ (state[o] \in Live => state'[o] \in Live)
      BY <1>0, <2>2 DEF Heartbeat, TypeOK
    <3>2. UNCHANGED <<pc, target>>
      BY <2>2 DEF Heartbeat, threadVars
    <3> QED BY <1>4, <3>1, <3>2, ClaimsStay
  <2>3. ASSUME NEW outcome \in Outcomes, Settle(outcome) PROVE ClaimsHeld'
    BY <1>1, <1>4, <2>3, ClaimsStay DEF Settle
  <2>4. ASSUME WriterReturns \/ ReleaseWriter PROVE ClaimsHeld'
    BY <1>2, <1>4, <2>4, ClaimsStay DEF WriterReturns, ReleaseWriter, recordVars
  <2> QED BY <1>7, <2>1, <2>2, <2>3, <2>4 DEF WriterStep
<1>8. ASSUME NEW o \in Ops, WatchStep(o) PROVE ClaimsHeld'
  <2>1. o \in Threads /\ pc[o] \notin Claiming
    BY <1>8 DEF WatchStep, WatchEnds, WatchExpired, WatchRecheck, Claiming, Threads
  <2>2. (\E p : pc' = [pc EXCEPT ![o] = p]) /\ UNCHANGED <<target, state, claim>>
    BY <1>8 DEF WatchStep, WatchEnds, WatchExpired, WatchRecheck, recordVars
  <2>3. \A u \in Threads : pc[u] \in Claiming => pc'[u] \in Claiming /\ Record(u)' = Record(u)
    BY <1>3, <2>1, <2>2
  <2> QED BY <1>2, <2>2, <2>3, ClaimsStay
<1>9. ASSUME NEW t \in Closers, CloseStep(t) PROVE ClaimsHeld'
  <2>1. t \in Threads /\ pc[t] \notin Claiming
    BY <1>9 DEF CloseStep, Close, CloseClaimed, CloseJoined, Claiming, Threads
  <2>2. \E p : pc' = [pc EXCEPT ![t] = p]
    BY <1>9 DEF CloseStep, Close, CloseClaimed, CloseJoined
  <2>3. UNCHANGED target \/ \E x : target' = [target EXCEPT ![t] = x]
    BY <1>9 DEF CloseStep, Close, CloseClaimed, CloseJoined
  <2>4. \A u \in Threads : pc[u] \in Claiming => pc'[u] \in Claiming /\ Record(u)' = Record(u)
    BY <1>3, <2>1, <2>2, <2>3
  <2>5. UNCHANGED <<state, claim>> \/ \E S : \E final : FinishAll(S, final, {})
    BY <1>9 DEF CloseStep, Close, CloseClaimed, CloseJoined, recordVars
  <2> QED BY <1>1, <1>2, <2>4, <2>5, ClaimsStay
<1>10. ASSUME NEW t \in Threads, CancelStep(t) PROVE ClaimsHeld'
  <2>0. Claiming \cap {"begin", "late", "claimed"} = {} /\ Claiming \subseteq CancelPCs
    BY DEF Claiming, CancelPCs
  <2>1. ASSUME NEW status \in Answers, BeginCancel(t, status) PROVE ClaimsHeld'
    <3>1. pc[t] \notin Claiming /\ UNCHANGED <<state, claim>>
      BY <2>0, <2>1 DEF BeginCancel, recordVars
    <3>2. \/ Return(t, status)
          \/ (\E p : pc' = [pc EXCEPT ![t] = p]) /\ UNCHANGED target
      BY <2>1 DEF BeginCancel
    <3>3. \A u \in Threads : pc[u] \in Claiming => pc'[u] \in Claiming /\ Record(u)' = Record(u)
      BY <1>3, <1>5, <3>1, <3>2
    <3> QED BY <1>2, <3>1, <3>3, ClaimsStay
  <2>2. ASSUME MarkTooLate(t) \/ DropClaim(t) PROVE ClaimsHeld'
    <3>1. pc[t] \notin Claiming /\ UNCHANGED <<state, claim>> /\ \E outcome : Return(t, outcome)
      BY <2>0, <2>2 DEF MarkTooLate, DropClaim, recordVars
    <3>2. \A u \in Threads : pc[u] \in Claiming => pc'[u] \in Claiming /\ Record(u)' = Record(u)
      BY <1>5, <3>1
    <3> QED BY <1>2, <3>1, <3>2, ClaimsStay
  <2>3. ASSUME InstallIntent(t) PROVE ClaimsHeld'
    <3>1. Record(t) \in Ops /\ running = Record(t) /\ state[Record(t)] \notin Terminal
      BY <2>3 DEF InstallIntent, Gone, CancellersHold, CancelPCs
    <3>2. state[Record(t)] \in Live
      BY <3>1 DEF Accounted, HeldStarted, Started, TypeOK, States
    <3>3. /\ \A o \in Ops : claim'[o] = IF o = Record(t) THEN t ELSE claim[o]
          /\ \A u \in Threads : pc'[u] = IF u = t THEN "finish" ELSE pc[u]
          /\ UNCHANGED <<state, target>>
      BY <2>3 DEF InstallIntent, TypeOK
    <3> SUFFICES ASSUME NEW o \in Ops, NEW u \in Threads, claim'[o] = u
                 PROVE  state'[o] \in Live /\ Record(u)' = o /\ pc'[u] \in Claiming
      BY DEF ClaimsHeld
    <3>4. Record(u)' = Record(u)
      BY <3>3 DEF Record
    <3>5. CASE o = Record(t)
      BY <3>2, <3>3, <3>4, <3>5 DEF Claiming
    <3>6. CASE o # Record(t)
      BY <3>3, <3>4, <3>6 DEF ClaimsHeld, Claiming
    <3> QED BY <3>5, <3>6
  <2>4. ASSUME NEW answer \in {"won", "lost"}, FinishCancel(t, answer) PROVE ClaimsHeld'
    <3>1. UNCHANGED <<state, claim>> /\ UNCHANGED target
          /\ \A u \in Threads : pc'[u] = IF u = t THEN answer ELSE pc[u]
      BY <2>4 DEF FinishCancel, recordVars, TypeOK
    <3>2. \A u \in Threads : pc[u] \in Claiming => pc'[u] \in Claiming /\ Record(u)' = Record(u)
      BY <3>1 DEF Claiming, Record
    <3> QED BY <1>2, <3>1, <3>2, ClaimsStay
  <2>5. ASSUME ForgetClaim(t) PROVE ClaimsHeld'
    <3>1. Record(t) \in Ops
      BY <2>5 DEF ForgetClaim, CancellersHold, CancelPCs
    <3>2. /\ \A o \in Ops : claim'[o] = IF o = Record(t) THEN None ELSE claim[o]
          /\ UNCHANGED state
          /\ \A u \in Threads : u # t => pc'[u] = pc[u]
          /\ \A u \in Threads : u # t => Record(u)' = Record(u)
      BY <2>5 DEF ForgetClaim, Return, TypeOK, Record, Threads
    <3> SUFFICES ASSUME NEW o \in Ops, NEW u \in Threads, claim'[o] = u
                 PROVE  state'[o] \in Live /\ Record(u)' = o /\ pc'[u] \in Claiming
      BY DEF ClaimsHeld
    <3>3. claim[o] = u /\ o # Record(t)
      BY <3>2 DEF Threads
    <3>4. state[o] \in Live /\ Record(u) = o /\ pc[u] \in Claiming
      BY <3>3 DEF ClaimsHeld
    <3> QED BY <3>2, <3>3, <3>4
  <2> QED BY <1>10, <2>1, <2>2, <2>3, <2>4, <2>5 DEF CancelStep
<1>11. CASE UNCHANGED vars
  BY <1>2, <1>4, <1>11, ClaimsStay DEF vars, recordVars, threadVars
<1> QED BY <1>6, <1>7, <1>8, <1>9, <1>10, <1>11 DEF Next

-----------------------------------------------------------------------------
(* What the steps preserve holds always *)

\* Tickets number the submissions in every reachable state.
LEMMA AlwaysTicketed == Spec => []Ticketed
<1>1. Init => Ticketed
  <2>1. ASSUME Init PROVE \A o \in Ops : state[o] = "new" /\ ticket[o] = 0
    BY <2>1 DEF Init
  <2> QED BY <2>1, TotalsType DEF Ticketed
<1>2. TypeOK /\ CancellersHold /\ Accounted /\ Ticketed /\ [Next]_vars => Ticketed'
  BY TicketedNext
<1> QED BY <1>1, <1>2, TypeCorrect, AlwaysAccounted, PTL DEF Spec

\* Ended records are numbered in the order in which they ended.
LEMMA AlwaysFinishOrdered == Spec => []FinishOrdered
<1>1. Init => FinishOrdered
  BY DEF Init, FinishOrdered, Terminal
<1>2. TypeOK /\ CancellersHold /\ Accounted /\ Ticketed /\ FinishOrdered /\ [Next]_vars => FinishOrdered'
  BY FinishOrderedNext
<1> QED BY <1>1, <1>2, TypeCorrect, AlwaysAccounted, AlwaysTicketed, PTL DEF Spec

\* The cache holds every record that is still needed.
LEMMA AlwaysKept == Spec => []Kept
<1>1. Init => Kept
  BY DEF Init, Kept, NeededRecordsKept, Live, Threads
<1>2. TypeOK /\ CancellersHold /\ Accounted /\ Kept /\ [Next]_vars => Kept'
  BY KeptNext
<1> QED BY <1>1, <1>2, TypeCorrect, AlwaysAccounted, PTL DEF Spec

\* A replacement key has at most one queued operation, and whatever was superseded has a
\* successor that was accepted.
THEOREM ReplacementIsSound == Spec => []ReplacementSound
<1>1. Init => Replacing
  <2>1. Init => queued = {} /\ superseded = {}
    BY DEF Init
  <2> QED
    BY <2>1, FS_EmptySet, OperationQueueAssumption DEF Replacing, ReplacementSound, OneQueuedPerKey,
       SupersededHasSuccessor, OperationQueueAssumption
<1>2. TypeOK /\ CancellersHold /\ Accounted /\ Ticketed /\ Replacing /\ [Next]_vars => Replacing'
  BY ReplacingNext
<1>3. Replacing => ReplacementSound
  BY DEF Replacing
<1> QED BY <1>1, <1>2, <1>3, TypeCorrect, AlwaysAccounted, AlwaysTicketed, PTL DEF Spec

\* Positions never promise an earlier turn than an operation has, and follow the order.
THEOREM PositionsAreHonest == Spec => []PositionsHonest
<1>1. Init => PositionsHonest
  BY DEF Init, PositionsHonest
<1>2. TypeOK /\ CancellersHold /\ Accounted /\ Ticketed /\ PositionsHonest /\ [Next]_vars
         => PositionsHonest'
  BY PositionsNext
<1> QED BY <1>1, <1>2, TypeCorrect, AlwaysAccounted, AlwaysTicketed, PTL DEF Spec

\* No record that is queued, executed or waited for is evicted.
THEOREM NeededRecordsAreKept == Spec => []NeededRecordsKept
<1>1. Kept => NeededRecordsKept
  BY DEF Kept
<1> QED BY <1>1, AlwaysKept, PTL

\* A submission leaves the records within max_terminal or nothing of them to evict.
THEOREM RecordsAreBounded == Spec => RecordsBounded
<1>1. TypeOK /\ CancellersHold /\ Accounted /\ FinishOrdered /\ Kept /\ [Next]_vars => [Bounded]_vars
  BY BoundedNext
<1> QED
  BY <1>1, TypeCorrect, AlwaysAccounted, AlwaysFinishOrdered, AlwaysKept, PTL
  DEF Spec, RecordsBounded, Bounded

\* An intent to end an operation is final: it never succeeds afterwards.
THEOREM IntentsWin == Spec => IntentWins
<1>1. TypeOK /\ Accounted /\ [Next]_vars => [Decided]_vars
  BY DecidedNext
<1> QED BY <1>1, TypeCorrect, AlwaysAccounted, PTL DEF Spec, IntentWins, Decided

\* A claim is on a live record and held by a thread that will give it back.
THEOREM ClaimsAreAccounted == Spec => []ClaimsAccounted
<1>1. Init => ClaimsHeld
  BY OperationQueueAssumption DEF Init, ClaimsHeld, OperationQueueAssumption, Threads
<1>2. TypeOK /\ CancellersHold /\ Accounted /\ ClaimsHeld /\ [Next]_vars => ClaimsHeld'
  BY ClaimsNext
<1>3. TypeOK /\ ClaimsHeld => ClaimsAccounted
  BY DEF TypeOK, ClaimsHeld, ClaimsAccounted, Claiming
<1> QED BY <1>1, <1>2, <1>3, TypeCorrect, AlwaysAccounted, PTL DEF Spec

-----------------------------------------------------------------------------
(***************************************************************************)
(* The queue and the session proxy together.                               *)
(***************************************************************************)

\* The writer is inside execute() exactly while the proxy is, and what it executes
\* has not ended; a watchdog runs only for what has started.
Executing ==
    /\ writer = "execute" <=> step # "out"
    /\ step # "out" => running \in Ops /\ state[running] \in Live
    /\ \A o \in Ops : pc[o] # "off" => Started(o)

Piped ==
    /\ step \notin {"recv", "report"} => worker \in {"free", "gone"}
    /\ worker = "gone" => proc # "alive"
    /\ proc # "alive" => worker \in Frames \cup {"gone"}

Published ==
    /\ worker \in {"committed", "mirrored"} => running \in committed
    /\ worker = "ok" /\ running \in Publishing => running \in committed
    /\ step # "out" /\ part = 2 => running \in committed
    /\ step \in {"finish", "return"} /\ result = "ok" /\ running \in Publishing
           => running \in committed
    /\ SuccessIsPublished

Versions ==
    /\ selected # None => selected \in committed
    /\ \A o \in Ops : journal[o] # None => journal[o] \in committed
    /\ SourcesPublished

Claimed ==
    /\ ClaimsHaveHolders
    /\ claimant # None => held[claimant] # None
    /\ \A t \in Cancellers : teardown[t] # "no" =>
           /\ pc[t] = "finish" /\ held[t] # None
           /\ active = None \/ claimant # t

ProxyInv == Executing /\ Piped /\ Published /\ Versions /\ Claimed

-----------------------------------------------------------------------------
(* The composition is a queue *)

\* A thread that cancels is one of the queue's threads.
LEMMA CancellersAreThreads == Cancellers \subseteq Threads /\ Ops \subseteq Cancellers
BY DEF Cancellers, Threads

\* Every step of the composition is a step of the open queue or none at all: the
\* proxy answers only what the queue lets begin_cancel and finish_cancel answer.
LEMMA StepIsAQueueStep == [WNext]_writerVars => [Next]_vars
<1> SUFFICES ASSUME [WNext]_writerVars PROVE [Next]_vars
  OBVIOUS
<1>1. ASSUME NEW c \in Clients, ClientStep(c) PROVE Next
  BY <1>1 DEF Next
<1>2. ASSUME NEW o \in Ops, WatchStep(o) PROVE Next
  BY <1>2 DEF Next
<1>3. CASE WWriterStep
  <2>1. ASSUME NEW o \in Ops, WStart(o) PROVE Next
    BY <2>1 DEF WStart, Next, WriterStep
  <2>2. CASE CallStep
    BY <2>2 DEF CallStep
  <2>3. CASE WReportPublishing \/ WReportBuilding
    BY <2>3 DEF WReportPublishing, WReportBuilding, Report, Next, WriterStep, Progress
  <2>4. CASE WSettle
    <3>1. Outcome \subseteq Outcomes
      BY DEF Outcome, Outcomes
    <3> QED BY <2>4, <3>1 DEF WSettle, Next, WriterStep
  <2>5. CASE ReleaseWriter
    BY <2>5 DEF Next, WriterStep
  <2> QED BY <1>3, <2>1, <2>2, <2>3, <2>4, <2>5 DEF WWriterStep
<1>4. CASE WorkerStep
  BY <1>4 DEF WorkerStep
<1>5. ASSUME NEW t \in Cancellers, WCancelStep(t) PROVE [Next]_vars
  <2>1. CancelAnswer(Record(t)) \in Answers
    BY EngineWriterAssumption DEF EngineWriterAssumption, CancelAnswer, CancelStatus
  <2>2. CancelStep(t) \/ UNCHANGED vars
    BY <1>5, <2>1 DEF WCancelStep, CancelStep, WBeginCancel, WDropClaim, WTakeCall, WKill,
       WWins, WLoses, WForgetClaim
  <2> QED BY <2>2, CancellersAreThreads DEF Next
<1>6. CASE UNCHANGED writerVars
  BY <1>6 DEF writerVars
<1> QED BY <1>1, <1>2, <1>3, <1>4, <1>5, <1>6 DEF WNext

\* EngineWriter implements OperationQueue: the session proxy is one of the
\* environments the queue is specified for.
THEOREM IsAQueue == WSpec => Spec
<1>1. WInit => Init
  BY DEF WInit
<1> QED BY <1>1, StepIsAQueueStep, PTL DEF WSpec, Spec

-----------------------------------------------------------------------------
(* Types *)

ProxyTyped ==
    /\ active \in Calls \cup {None} /\ flags \subseteq {"uncancellable", "completed"}
    /\ claimant \in Cancellers \cup {None} /\ held \in [Cancellers -> Calls \cup {None}]
    /\ proc \in {"none", "alive", "dead"}
    /\ worker \in Frames \cup {"free", "work", "acked", "committed", "mirrored", "gone"}
    /\ step \in {"out", "begin", "send", "recv", "report", "finish", "return"}
    /\ part \in {1, 2} /\ result \in Replies \cup {"none", "crash", "timeout"}
    /\ teardown \in [Cancellers -> {"no", "kill", "rollback"}] /\ grabbed \subseteq Cancellers
    /\ journal \in [Ops -> Ops \cup {None}] /\ sources \in Ops \cup {None}
    /\ committed \subseteq Ops /\ selected \in Ops \cup {None}

\* The steps of the writer inside execute() keep the types of the proxy.
LEMMA CallTyped ==
    ASSUME ProxyTyped, Executing, CallStep
    PROVE  ProxyTyped'
<1> USE DEF ProxyTyped, claimVars, workerVars, stepVars, teardownVars, fileVars, Frames, Replies
<1>1. step # "out" /\ running \in Ops
  BY DEF CallStep, Executing
<1>2. Call \in Calls /\ Call[1] = running
  BY <1>1 DEF Call, Calls
<1>3. RestoredBy(Call) \in Ops \cup {None} /\ Recovered \in Ops \cup {None}
  BY <1>1, <1>2 DEF RestoredBy, Recovered
<1>4. CASE BeginCall
  <2>1. sources' \in Ops \cup {None}
    BY <1>3, <1>4 DEF BeginCall
  <2>2. journal' \in [Ops -> Ops \cup {None}]
    BY <1>4, <2>1 DEF BeginCall
  <2> QED BY <1>2, <1>4, <2>1, <2>2 DEF BeginCall
<1>5. CASE StartupCrash
  BY <1>3, <1>5 DEF StartupCrash
<1>6. CASE SendRequest
  BY <1>3, <1>6 DEF SendRequest
<1>7. CASE RecvPublishing
  BY <1>7 DEF RecvPublishing
<1>8. CASE RecvReply
  BY <1>8 DEF RecvReply
<1>9. CASE GiveUp("crash") \/ GiveUp("timeout")
  BY <1>3, <1>9 DEF GiveUp
<1>10. CASE FinishCall
  <2>1. active' \in Calls \cup {None} /\ flags' \subseteq {"uncancellable", "completed"}
    BY <1>10 DEF FinishCall
  <2>2. step' \in {"begin", "return"} /\ part' \in {1, 2}
    BY <1>10 DEF FinishCall
  <2>3. UNCHANGED <<claimant, held, workerVars, result, teardownVars, fileVars>>
    BY <1>10 DEF FinishCall
  <2> QED BY <2>1, <2>2, <2>3
<1> QED BY <1>4, <1>5, <1>6, <1>7, <1>8, <1>9, <1>10 DEF CallStep

\* The steps of the worker process keep them; it works only while it is executed.
LEMMA WorkerTyped ==
    ASSUME ProxyTyped, Executing, Piped, WorkerStep
    PROVE  ProxyTyped'
<1> USE DEF ProxyTyped, claimVars, workerVars, stepVars, teardownVars, fileVars, Frames, Replies
<1>1. CASE WorkerAsks
  BY <1>1 DEF WorkerAsks
<1>2. CASE WorkerCommits
  BY <1>2 DEF WorkerCommits, Executing, Piped
<1>3. CASE WorkerMirrors
  BY <1>3 DEF WorkerMirrors, Executing, Piped
<1>4. CASE WorkerDies
  BY <1>4 DEF WorkerDies, Ended
<1>5. ASSUME NEW reply \in Replies, WorkerReplies(reply) PROVE ProxyTyped'
  BY <1>5 DEF WorkerReplies
<1> QED BY <1>1, <1>2, <1>3, <1>4, <1>5 DEF WorkerStep

\* Releasing a claim keeps the call and its claimant well typed.
LEMMA ReleaseTyped ==
    ASSUME ProxyTyped, NEW t, ReleaseClaim(t)
    PROVE  active' \in Calls \cup {None} /\ claimant' \in Cancellers \cup {None}
BY DEF ReleaseClaim, ProxyTyped

\* A version put back is a version.
LEMMA RestoredTyped ==
    ASSUME ProxyTyped, NEW call \in Calls
    PROVE  RestoredBy(call) \in Ops \cup {None}
BY DEF RestoredBy, ProxyTyped, Calls

\* The steps of a cancelling thread keep the types of the proxy.
LEMMA CancelTyped ==
    ASSUME ProxyTyped, Claimed, NEW t \in Cancellers, WCancelStep(t)
    PROVE  ProxyTyped'
<1> USE DEF ProxyTyped, claimVars, workerVars, stepVars, teardownVars, fileVars
<1>1. CASE WBeginCancel(t)
  BY <1>1 DEF WBeginCancel, BeginCancelCall
<1>2. CASE WDropClaim(t)
  BY <1>2, ReleaseTyped DEF WDropClaim
<1>3. CASE (MarkTooLate(t) \/ InstallIntent(t)) /\ UNCHANGED proxyVars
  BY <1>3 DEF proxyVars
<1>4. CASE WTakeCall(t)
  BY <1>4 DEF WTakeCall, TakeCall
<1>5. CASE WKill(t)
  BY <1>5 DEF WKill, KillCaptured, Ended, Frames, Replies
<1>6. CASE WWins(t)
  <2>1. held[t] \in Calls
    BY <1>6 DEF WWins, RollbackCaptured, Claimed
  <2>2. RestoredBy(held[t]) \in Ops \cup {None}
    BY <2>1, RestoredTyped
  <2> QED BY <1>6, <2>2 DEF WWins, RollbackCaptured
<1>7. CASE WLoses(t)
  BY <1>7 DEF WLoses, proxyVars
<1>8. CASE WForgetClaim(t)
  BY <1>8, ReleaseTyped DEF WForgetClaim
<1> QED BY <1>1, <1>2, <1>3, <1>4, <1>5, <1>6, <1>7, <1>8 DEF WCancelStep

\* Every step keeps the types of the proxy.
LEMMA TypedNext ==
    ASSUME ProxyTyped, ProxyInv, [WNext]_writerVars
    PROVE  ProxyTyped'
<1> USE DEF ProxyTyped, claimVars, workerVars, stepVars, teardownVars, fileVars
<1>1. CASE UNCHANGED proxyVars
  BY <1>1 DEF proxyVars
<1>2. ASSUME NEW o \in Ops, WStart(o) PROVE ProxyTyped'
  BY <1>2 DEF WStart, Replies
<1>3. CASE CallStep
  BY <1>3, CallTyped DEF ProxyInv
<1>4. CASE WReportPublishing \/ WReportBuilding
  BY <1>1, <1>4 DEF WReportPublishing, WReportBuilding
<1>5. CASE WSettle
  BY <1>5, ReleaseTyped DEF WSettle
<1>6. CASE WorkerStep
  BY <1>6, WorkerTyped DEF ProxyInv
<1>7. ASSUME NEW t \in Cancellers, WCancelStep(t) PROVE ProxyTyped'
  BY <1>7, CancelTyped DEF ProxyInv
<1> QED BY <1>1, <1>2, <1>3, <1>4, <1>5, <1>6, <1>7 DEF WNext, WWriterStep, writerVars

-----------------------------------------------------------------------------
(* The writer inside execute() *)

\* What a call can put back, or a worker's startup recover, is published.
LEMMA RestoredPublished ==
    ASSUME ProxyTyped, Versions, NEW call \in Calls
    PROVE  /\ RestoredBy(call) # None => RestoredBy(call) \in committed
           /\ Recovered # None => Recovered \in committed
BY DEF RestoredBy, Recovered, Versions, SourcesPublished, ProxyTyped, Calls

\* Steps that leave the queue, the claims and the teardowns alone keep Claimed.
LEMMA SameClaims ==
    ASSUME Claimed, UNCHANGED <<active, claimant, held, teardown, pc>>
    PROVE  Claimed'
BY DEF Claimed, ClaimsHaveHolders

\* Every step of the writer inside execute() keeps the invariant.
LEMMA CallKeeps ==
    ASSUME TypeOK, ProxyTyped, ProxyInv, CallStep
    PROVE  ProxyInv'
<1> USE DEF claimVars, workerVars, stepVars, teardownVars, fileVars
<1>1. /\ step # "out" /\ running \in Ops /\ UNCHANGED <<running, state, writer, pc>>
      /\ Executing /\ Piped /\ Published /\ Versions /\ Claimed
  BY DEF CallStep, ProxyInv, Executing, vars, recordVars, queueVars, threadVars
<1>2. Call \in Calls
  BY <1>1 DEF Call, Calls, ProxyTyped
<1>3. /\ RestoredBy(Call) # None => RestoredBy(Call) \in committed
      /\ Recovered # None => Recovered \in committed
  BY <1>1, <1>2, RestoredPublished
<1>4. ASSUME step' # "out" PROVE Executing'
  BY <1>1, <1>4 DEF Executing, Started, CallStep
<1>5. CASE BeginCall
  <2>1. Piped'
    BY <1>1, <1>5 DEF BeginCall, Piped
  <2>2. Published'
    BY <1>1, <1>5 DEF BeginCall, Published, SuccessIsPublished
  <2>3. sources' # None => sources' \in committed
    BY <1>1, <1>3, <1>5 DEF BeginCall, Versions, SourcesPublished
  <2>4. Versions'
    BY <1>1, <1>5, <2>3 DEF BeginCall, Versions, SourcesPublished, ProxyTyped
  <2>5. Claimed'
    BY <1>1, <1>5, OperationQueueAssumption
    DEF BeginCall, Claimed, ClaimsHaveHolders, OperationQueueAssumption, Cancellers
  <2> QED BY <1>4, <1>5, <2>1, <2>2, <2>4, <2>5 DEF BeginCall, ProxyInv
<1>6. CASE StartupCrash
  <2>1. Piped' /\ Published'
    BY <1>1, <1>6 DEF StartupCrash, Piped, Published, SuccessIsPublished
  <2>2. Versions'
    BY <1>1, <1>3, <1>6 DEF StartupCrash, Versions, SourcesPublished
  <2>3. Claimed'
    BY <1>1, <1>6, SameClaims DEF StartupCrash
  <2> QED BY <1>4, <1>6, <2>1, <2>2, <2>3 DEF StartupCrash, ProxyInv
<1>7. CASE SendRequest
  <2>1. Piped' /\ Published'
    BY <1>1, <1>7 DEF SendRequest, Piped, Published, SuccessIsPublished
  <2>2. Versions'
    BY <1>1, <1>3, <1>7 DEF SendRequest, Versions, SourcesPublished
  <2>3. Claimed'
    BY <1>1, <1>7, SameClaims DEF SendRequest
  <2> QED BY <1>4, <1>7, <2>1, <2>2, <2>3 DEF SendRequest, ProxyInv
<1>8. CASE RecvPublishing
  <2>1. Piped' /\ Published' /\ Versions'
    BY <1>1, <1>8
    DEF RecvPublishing, Piped, Published, SuccessIsPublished, Versions, SourcesPublished
  <2>2. Claimed'
    BY <1>1, <1>8, SameClaims DEF RecvPublishing
  <2> QED BY <1>4, <1>8, <2>1, <2>2 DEF RecvPublishing, ProxyInv
<1>9. CASE RecvReply
  <2>1. Piped' /\ Published' /\ Versions'
    BY <1>1, <1>9
    DEF RecvReply, Replies, Frames, Piped, Published, SuccessIsPublished, Versions, SourcesPublished
  <2>2. Claimed'
    BY <1>1, <1>9, SameClaims DEF RecvReply
  <2> QED BY <1>4, <1>9, <2>1, <2>2 DEF RecvReply, ProxyInv
<1>10. ASSUME NEW reason \in {"crash", "timeout"}, GiveUp(reason) PROVE ProxyInv'
  <2>1. Piped' /\ Published'
    BY <1>1, <1>10 DEF GiveUp, Piped, Published, SuccessIsPublished
  <2>2. Versions'
    BY <1>1, <1>3, <1>10 DEF GiveUp, Versions, SourcesPublished
  <2>3. Claimed'
    BY <1>1, <1>10, SameClaims DEF GiveUp
  <2> QED BY <1>4, <1>10, <2>1, <2>2, <2>3 DEF GiveUp, ProxyInv
<1>11. CASE FinishCall
  <2>1. /\ step = "finish" /\ step' \in {"begin", "return"} /\ part' \in {part, 2}
        /\ step' = "begin" => result = "ok" /\ running \in WithReadiness
        /\ step' = "return" => part' = part
        /\ UNCHANGED <<worker, proc, result, committed, claimant, held, teardown, journal, sources, selected>>
    BY <1>11 DEF FinishCall
  <2>2. Piped' /\ Versions'
    BY <1>1, <2>1 DEF Piped, Versions, SourcesPublished
  <2>3. Published'
    BY <1>1, <2>1, SessionProxyAssumption DEF Published, SuccessIsPublished, SessionProxyAssumption
  <2>4. active' = active \/ active' = None
    BY <1>11 DEF FinishCall
  <2>5. Claimed'
    BY <1>1, <2>1, <2>4 DEF Claimed, ClaimsHaveHolders
  <2> QED BY <1>4, <2>1, <2>2, <2>3, <2>5 DEF ProxyInv
<1> QED BY <1>5, <1>6, <1>7, <1>8, <1>9, <1>10, <1>11 DEF CallStep

-----------------------------------------------------------------------------
(* The worker process *)

\* Every step of the worker keeps the invariant: it has work only while the writer
\* receives, so what it publishes is what the writer executes.
LEMMA WorkerKeeps ==
    ASSUME TypeOK, ProxyTyped, ProxyInv, WorkerStep
    PROVE  ProxyInv'
<1> USE DEF claimVars, workerVars, stepVars, teardownVars, fileVars
<1>1. /\ UNCHANGED <<running, state, writer, pc, step, part, result>>
      /\ UNCHANGED <<active, claimant, held, teardown, journal>>
      /\ Executing /\ Piped /\ Published /\ Versions /\ Claimed
  BY DEF WorkerStep, WorkerAsks, WorkerCommits, WorkerMirrors, WorkerDies, WorkerReplies,
         ProxyInv, vars, recordVars, queueVars, threadVars
<1>2. Executing' /\ Claimed'
  BY <1>1, SameClaims DEF Executing, Started
<1>3. CASE WorkerAsks
  <2>1. Piped' /\ Published' /\ Versions'
    BY <1>1, <1>3 DEF WorkerAsks, Piped, Published, SuccessIsPublished, Versions, SourcesPublished
  <2> QED BY <1>2, <2>1 DEF ProxyInv
<1>4. CASE WorkerCommits
  <2>1. Piped' /\ Published' /\ Versions'
    BY <1>1, <1>4 DEF WorkerCommits, Piped, Published, SuccessIsPublished, Versions, SourcesPublished
  <2> QED BY <1>2, <2>1 DEF ProxyInv
<1>5. CASE WorkerMirrors
  <2>1. Piped' /\ Published' /\ Versions'
    BY <1>1, <1>5 DEF WorkerMirrors, Piped, Published, SuccessIsPublished, Versions, SourcesPublished
  <2> QED BY <1>2, <2>1 DEF ProxyInv
<1>6. CASE WorkerDies
  <2>1. Piped' /\ Published' /\ Versions'
    BY <1>1, <1>6
    DEF WorkerDies, Ended, Frames, Replies, Piped, Published, SuccessIsPublished, Versions,
        SourcesPublished
  <2> QED BY <1>2, <2>1 DEF ProxyInv
<1>7. ASSUME NEW reply \in Replies, WorkerReplies(reply) PROVE ProxyInv'
  <2>1. Piped' /\ Versions'
    BY <1>1, <1>7 DEF WorkerReplies, Replies, Frames, Piped, Versions, SourcesPublished
  <2>2. part \in {1, 2} /\ step # "out"
    BY <1>1, <1>7 DEF WorkerReplies, Piped, ProxyTyped
  <2>3. reply = "ok" /\ running \in Publishing => running \in committed
    BY <1>1, <1>7, <2>2 DEF WorkerReplies, Published
  <2>4. Published'
    BY <1>1, <1>7, <2>2, <2>3 DEF WorkerReplies, Replies, Published, SuccessIsPublished
  <2> QED BY <1>2, <2>1, <2>4 DEF ProxyInv
<1> QED BY <1>3, <1>4, <1>5, <1>6, <1>7 DEF WorkerStep

-----------------------------------------------------------------------------
(* The queue around the proxy *)

\* What the clients, the watchdogs and most of a cancellation do to the queue.
Calm ==
    /\ UNCHANGED <<writer, running>>
    /\ \A o \in Ops : Started(o) => state'[o] = state[o]
    /\ \A o \in Ops : state'[o] = "succeeded" => state[o] = "succeeded"
    /\ \A o \in Ops : pc[o] = "off" => pc'[o] = "off"
    /\ \A t \in Cancellers : pc[t] \in {"claimed", "finish"} => pc'[t] = pc[t]

\* A calm step keeps the invariant whatever the proxy's files and claims are.
LEMMA CalmKeeps ==
    ASSUME TypeOK, ProxyTyped, ProxyInv, Calm, UNCHANGED proxyVars
    PROVE  ProxyInv'
<1> USE DEF proxyVars, claimVars, workerVars, stepVars, teardownVars, fileVars
<1>1. Executing /\ Piped /\ Published /\ Versions /\ Claimed
  BY DEF ProxyInv
<1>2. Executing'
  BY <1>1 DEF Executing, Calm, Started, Live
<1>3. Piped' /\ Versions'
  BY <1>1 DEF Calm, Piped, Versions, SourcesPublished
<1>4. Published'
  BY <1>1, SessionProxyAssumption
  DEF Calm, Published, SuccessIsPublished, SessionProxyAssumption
<1>5. Claimed'
  BY <1>1 DEF Calm, Claimed, ClaimsHaveHolders, ProxyTyped
<1> QED BY <1>2, <1>3, <1>4, <1>5 DEF ProxyInv

\* The clients' steps are calm: they end only what is still in the deque.
LEMMA ClientIsCalm ==
    ASSUME TypeOK, Accounted, NEW c \in Clients, ClientStep(c)
    PROVE  Calm
<1> USE OperationQueueAssumption
    DEF OperationQueueAssumption, Calm, TypeOK, Accounted, NoOrphan, Started, Cancellers, Threads,
        recordVars, queueVars, threadVars
<1>1. ASSUME NEW o \in Ops, NEW k \in Keys \cup {NoKey}, NEW aged \in Ages, Submit(c, o, k, aged)
      PROVE  Calm
  BY <1>1 DEF Submit, SameKey
<1>2. ASSUME NEW S, S \subseteq queued, NEW R, FinishAll(S, "cancelled", R),
             UNCHANGED <<writer, running, pc>>
      PROVE  Calm
  BY <1>2, FinishAllState
<1>3. ASSUME NEW k \in Keys \cup {NoKey}, NEW aged \in Ages, SubmitFull(c, k, aged)
      PROVE  Calm
  <2>1. SameKey(k) \subseteq queued /\ FinishAll(SameKey(k), "cancelled", SameKey(k))
    BY <1>3 DEF SubmitFull, SameKey
  <2>2. UNCHANGED <<writer, running, pc>>
    BY <1>3 DEF SubmitFull
  <2> QED BY <1>2, <2>1, <2>2
<1>4. ASSUME NEW o \in Ops, CancelQueued(c, o) PROVE Calm
  <2>1. {o} \subseteq queued /\ FinishAll({o}, "cancelled", {})
    BY <1>4 DEF CancelQueued
  <2>2. UNCHANGED <<writer, running, pc>>
    BY <1>4 DEF CancelQueued
  <2> QED BY <1>2, <2>1, <2>2
<1>5. ASSUME NEW o \in Ops, Wait(c, o) \/ CancelLive(c, o) PROVE Calm
  BY <1>5 DEF Wait, CancelLive
<1>6. CASE WaitReturns(c)
  BY <1>6 DEF WaitReturns
<1> QED BY <1>1, <1>3, <1>4, <1>5, <1>6 DEF ClientStep

\* So are the watchdog's polls.
LEMMA WatchIsCalm ==
    ASSUME TypeOK, NEW o \in Ops, WatchStep(o)
    PROVE  Calm
BY OperationQueueAssumption
DEF OperationQueueAssumption, Calm, TypeOK, Cancellers, Threads, WatchStep, WatchEnds,
    WatchExpired, WatchRecheck, recordVars, queueVars

\* The queue's writer steps: an operation is started, reports, settles and leaves.
LEMMA WriterKeeps ==
    ASSUME TypeOK, TypeOK', ProxyTyped, ProxyInv, Accounted, WWriterStep
    PROVE  ProxyInv'
<1> USE DEF proxyVars, claimVars, workerVars, stepVars, teardownVars, fileVars
<1>1. Executing /\ Piped /\ Published /\ Versions /\ Claimed
  BY DEF ProxyInv
<1>2. ASSUME NEW o \in Ops, WStart(o) PROVE ProxyInv'
  <2>1. /\ writer = "idle" /\ writer' = "execute" /\ running' = o /\ state[o] = "queued"
        /\ state' = [state EXCEPT ![o] = "running"] /\ pc' = [pc EXCEPT ![o] = Watchdog(o)]
    BY <1>2 DEF WStart, Start, Accounted, NoOrphan
  <2>2. /\ step = "out" /\ step' \in {"begin", "return"} /\ part' = 1 /\ result' = "none"
        /\ UNCHANGED <<claimVars, workerVars, teardownVars, fileVars>>
    BY <1>1, <1>2, <2>1 DEF WStart, Executing
  <2>3. pc[o] = "off"
    BY <1>1, <2>1 DEF Executing, Started
  <2>4. Executing'
    BY <1>1, <2>1, <2>2 DEF Executing, Started, Live, TypeOK, Threads
  <2>5. Piped' /\ Versions'
    BY <1>1, <2>2 DEF Piped, Versions, SourcesPublished
  <2>6. Published'
    BY <1>1, <2>1, <2>2 DEF Piped, Published, SuccessIsPublished, TypeOK
  <2>7. \A t \in Cancellers : pc[t] \in {"claimed", "finish"} => pc'[t] = pc[t]
    BY <2>1, <2>3, CancellersAreThreads DEF TypeOK
  <2>8. Claimed'
    BY <1>1, <2>2, <2>7 DEF Claimed, ClaimsHaveHolders, ProxyTyped
  <2> QED BY <2>4, <2>5, <2>6, <2>8 DEF ProxyInv
<1>3. CASE CallStep
  BY <1>3, CallKeeps
<1>4. CASE WReportPublishing \/ WReportBuilding
  <2>1. /\ step \in {"recv", "report"} /\ step' \in {"recv", "report"}
        /\ UNCHANGED <<claimVars, workerVars, part, result, teardownVars, fileVars>>
    BY <1>4 DEF WReportPublishing, WReportBuilding
  <2>2. UNCHANGED <<running, writer, pc>>
    BY <1>4 DEF WReportPublishing, WReportBuilding, Report, Heartbeat, vars, recordVars, queueVars, threadVars
  <2>3. running \in Ops /\ state[running] \in Live
    BY <1>1, <2>1 DEF Executing
  <2>4. state' \in {state, [state EXCEPT ![running] = "publishing"]}
    BY <1>4, <2>3 DEF WReportPublishing, WReportBuilding, Report, Heartbeat, vars, recordVars, TypeOK
  <2>5. Executing'
    BY <1>1, <2>1, <2>2, <2>3, <2>4 DEF Executing, Started, Live, TypeOK
  <2>6. Piped' /\ Versions'
    BY <1>1, <2>1 DEF Piped, Versions, SourcesPublished
  <2>7. SuccessIsPublished'
    BY <1>1, <2>1, <2>3, <2>4, SessionProxyAssumption
    DEF Published, SuccessIsPublished, TypeOK, SessionProxyAssumption
  <2>8. Published'
    BY <1>1, <2>1, <2>2, <2>7 DEF Published
  <2>9. Claimed'
    BY <1>1, <2>1, <2>2, SameClaims
  <2> QED BY <2>5, <2>6, <2>8, <2>9 DEF ProxyInv
<1>5. CASE WSettle
  <2>1. PICK outcome \in Outcome : Settle(outcome)
    BY <1>5 DEF WSettle
  <2>2. /\ step = "return" /\ step' = "out"
        /\ UNCHANGED <<flags, held, workerVars, part, result, teardownVars, fileVars>>
    BY <1>5 DEF WSettle
  <2>3. running \in Ops /\ state[running] \in Live
    BY <1>1, <2>2 DEF Executing
  <2>4. writer = "execute" /\ writer' = "settled" /\ UNCHANGED <<running, queued, pc>>
    BY <2>1 DEF Settle, queueVars
  <2> DEFINE verdict == Verdict(outcome, phase[running])
  <2>5. state' = [o \in Ops |-> IF o \in {running} /\ state[o] \notin Terminal THEN verdict ELSE state[o]]
    BY <2>1, FinishAllState DEF Settle
  <2>6. verdict \in Terminal /\ (verdict = "succeeded" => outcome = "returned")
    BY DEF Verdict, Terminal, Outcome
  <2>7. outcome = "returned" /\ running \in Publishing => running \in committed
    BY <1>1, <2>2, SessionProxyAssumption
    DEF Outcome, Published, ProxyTyped, SessionProxyAssumption
  <2> HIDE DEF verdict
  <2>8. SuccessIsPublished'
    BY <1>1, <2>2, <2>3, <2>5, <2>6, <2>7, SessionProxyAssumption
    DEF Published, SuccessIsPublished, TypeOK, SessionProxyAssumption
  <2>9. Executing'
    BY <1>1, <2>2, <2>3, <2>4, <2>5, <2>6 DEF Executing, Started, Terminal, TypeOK
  <2>10. Piped' /\ Versions'
    BY <1>1, <2>2 DEF Piped, Versions, SourcesPublished
  <2>11. Published'
    BY <1>1, <2>2, <2>4, <2>8 DEF Published, Piped
  <2>12. active' \in {active, None} /\ claimant' \in {claimant, None}
    BY <1>5 DEF WSettle, ReleaseClaim
  <2>13. Claimed'
    BY <1>1, <2>2, <2>4, <2>12, OperationQueueAssumption
    DEF Claimed, ClaimsHaveHolders, OperationQueueAssumption, Cancellers
  <2> QED BY <2>9, <2>10, <2>11, <2>13 DEF ProxyInv
<1>6. CASE ReleaseWriter /\ UNCHANGED proxyVars
  <2>1. writer = "settled" /\ writer' = "idle" /\ UNCHANGED <<state, pc>>
    BY <1>6 DEF ReleaseWriter, recordVars
  <2>2. step = "out"
    BY <1>1, <2>1 DEF Executing
  <2>3. Executing'
    BY <1>1, <1>6, <2>1, <2>2 DEF Executing, Started
  <2>4. Piped' /\ Versions' /\ Claimed'
    BY <1>1, <1>6, <2>1, SameClaims DEF Piped, Versions, SourcesPublished
  <2>5. Published'
    BY <1>1, <1>6, <2>1, <2>2 DEF Published, SuccessIsPublished, Piped
  <2> QED BY <2>3, <2>4, <2>5 DEF ProxyInv
<1> QED BY <1>2, <1>3, <1>4, <1>5, <1>6 DEF WWriterStep

-----------------------------------------------------------------------------
(* Cancelling threads *)

\* A step of a cancelling thread leaves the records' states, the writer and every
\* other thread where they are.
LEMMA CancelQuiet ==
    ASSUME TypeOK, Claimed, NEW t \in Cancellers, WCancelStep(t)
    PROVE  /\ UNCHANGED <<writer, running, state, queued>>
           /\ \A u \in Threads : u # t => pc'[u] = pc[u]
           /\ pc[t] # "off"
           /\ UNCHANGED <<step, part, result, journal, committed, selected>>
<1> USE CancellersAreThreads
    DEF recordVars, queueVars, vars, threadVars, proxyVars, stepVars, fileVars, Return, TypeOK
<1>1. CASE WBeginCancel(t)
  BY <1>1 DEF WBeginCancel, BeginCancel, BeginCancelCall
<1>2. CASE WDropClaim(t)
  BY <1>2 DEF WDropClaim, DropClaim
<1>3. CASE (MarkTooLate(t) \/ InstallIntent(t)) /\ UNCHANGED proxyVars
  BY <1>3 DEF MarkTooLate, InstallIntent
<1>4. CASE WTakeCall(t)
  BY <1>4 DEF WTakeCall, TakeCall
<1>5. CASE WWins(t) \/ WLoses(t)
  BY <1>5 DEF WWins, WLoses, FinishCancel, RollbackCaptured
<1>6. CASE WForgetClaim(t)
  BY <1>6 DEF WForgetClaim, ForgetClaim
<1>7. CASE WKill(t)
  BY <1>7 DEF WKill, KillCaptured, Claimed
<1> QED BY <1>1, <1>2, <1>3, <1>4, <1>5, <1>6, <1>7 DEF WCancelStep

\* What it does to the files and the worker keeps the other parts of the invariant.
LEMMA CancelKeepsFiles ==
    ASSUME TypeOK, ProxyTyped, ProxyInv, NEW t \in Cancellers, WCancelStep(t)
    PROVE  Executing' /\ Piped' /\ Published' /\ Versions'
<1> USE DEF claimVars, workerVars, stepVars, teardownVars, fileVars, proxyVars
<1>1. Executing /\ Piped /\ Published /\ Versions /\ Claimed
  BY DEF ProxyInv
<1>2. /\ UNCHANGED <<writer, running, state, queued>>
      /\ \A u \in Threads : u # t => pc'[u] = pc[u]
      /\ pc[t] # "off"
      /\ UNCHANGED <<step, part, result, journal, committed, selected>>
  BY <1>1, CancelQuiet
<1>3. Executing'
  BY <1>1, <1>2, CancellersAreThreads DEF Executing, Started
<1>4. \/ UNCHANGED <<proc, worker>>
      \/ proc = "alive" /\ proc' = "dead" /\ worker' = Ended
  BY DEF WCancelStep, WBeginCancel, BeginCancelCall, WDropClaim, WTakeCall, TakeCall, WKill,
         KillCaptured, WWins, RollbackCaptured, WLoses, WForgetClaim
<1>5. Piped' /\ Published'
  BY <1>1, <1>2, <1>4 DEF Piped, Published, SuccessIsPublished, Ended, Frames, Replies
<1>6. sources' = sources \/ (WWins(t) /\ sources' = RestoredBy(held[t]))
  BY DEF WCancelStep, WBeginCancel, BeginCancelCall, WDropClaim, WTakeCall, TakeCall, WKill,
         KillCaptured, WWins, RollbackCaptured, WLoses, WForgetClaim
<1>7. ASSUME WWins(t), sources' = RestoredBy(held[t]) PROVE Versions'
  <2>1. held[t] \in Calls
    BY <1>1, <1>7 DEF WWins, RollbackCaptured, Claimed, ProxyTyped
  <2> QED BY <1>1, <1>2, <1>7, <2>1, RestoredPublished DEF Versions, SourcesPublished
<1>8. Versions'
  BY <1>1, <1>2, <1>6, <1>7 DEF Versions, SourcesPublished
<1> QED BY <1>3, <1>5, <1>8

\* A claim goes from the thread it was granted to, by that thread, to nobody.
LEMMA CancelKeepsClaims ==
    ASSUME TypeOK, ProxyTyped, ProxyInv, NEW t \in Cancellers, WCancelStep(t)
    PROVE  Claimed'
<1> USE DEF claimVars, workerVars, stepVars, teardownVars, fileVars, proxyVars
<1>1. Claimed /\ None \notin Cancellers
  BY OperationQueueAssumption DEF ProxyInv, OperationQueueAssumption, Cancellers
<1>2. \A u \in Cancellers : u # t => pc'[u] = pc[u]
  BY <1>1, CancelQuiet, CancellersAreThreads
<1> USE CancellersAreThreads DEF Claimed, ClaimsHaveHolders, ProxyTyped, TypeOK
<1>3. CASE WBeginCancel(t)
  <2>1. /\ pc[t] = "begin" /\ UNCHANGED <<active, teardown>>
    BY <1>3 DEF WBeginCancel, BeginCancel, BeginCancelCall
  <2>2. CASE CancelAnswer(Record(t)) = "claimed"
    <3>1. active # None /\ claimant = None
      BY <2>2 DEF CancelAnswer
    <3>2. /\ claimant' = t /\ held' = [held EXCEPT ![t] = active]
          /\ pc'[t] = "claimed"
      BY <1>3, <2>2 DEF WBeginCancel, BeginCancel, BeginCancelCall
    <3> QED BY <1>1, <1>2, <2>1, <3>1, <3>2
  <2>3. CASE CancelAnswer(Record(t)) # "claimed"
    <3>1. UNCHANGED <<claimant, held>>
      BY <1>3, <2>3 DEF WBeginCancel, BeginCancelCall
    <3> QED BY <1>1, <1>2, <2>1, <3>1
  <2> QED BY <2>2, <2>3
<1>4. CASE WDropClaim(t)
  <2>1. pc[t] = "claimed" /\ UNCHANGED <<held, teardown>> /\ ReleaseClaim(t)
    BY <1>4 DEF WDropClaim, DropClaim
  <2> QED BY <1>1, <1>2, <2>1 DEF ReleaseClaim, ClaimStands
<1>5. CASE (MarkTooLate(t) \/ InstallIntent(t)) /\ UNCHANGED proxyVars
  <2>1. \/ pc[t] = "late"
        \/ pc[t] = "claimed" /\ pc'[t] = "finish"
    BY <1>5 DEF MarkTooLate, InstallIntent
  <2> QED BY <1>1, <1>2, <1>5, <2>1
<1>6. CASE WTakeCall(t)
  BY <1>1, <1>6 DEF WTakeCall, TakeCall, ClaimStands, vars, threadVars
<1>7. CASE WKill(t)
  BY <1>1, <1>7 DEF WKill, KillCaptured, vars, threadVars
<1>8. CASE WWins(t)
  BY <1>1, <1>2, <1>8 DEF WWins, RollbackCaptured
<1>9. CASE WLoses(t)
  BY <1>1, <1>2, <1>9 DEF WLoses, ClaimStands
<1>10. CASE WForgetClaim(t)
  <2>1. /\ pc[t] \in {"won", "lost"} /\ UNCHANGED <<held, teardown>>
        /\ active' \in {active, None} /\ claimant' \in {claimant, None}
    BY <1>10 DEF WForgetClaim, ForgetClaim, ReleaseClaim
  <2> QED BY <1>1, <1>2, <2>1
<1> QED
  BY <1>3, <1>4, <1>5, <1>6, <1>7, <1>8, <1>9, <1>10 DEF WCancelStep

-----------------------------------------------------------------------------
(* The theorems *)

\* The invariant holds at first and is kept by every step.
LEMMA InvInit == WInit => ProxyTyped /\ ProxyInv
<1> SUFFICES ASSUME WInit PROVE ProxyTyped /\ ProxyInv
  OBVIOUS
<1> USE DEF WInit, Init, ProxyInit
<1>1. ProxyTyped
  BY DEF ProxyTyped, Frames, Replies
<1>2. Executing
  BY CancellersAreThreads DEF Executing, Started
<1>3. Piped /\ Versions /\ Claimed
  BY DEF Piped, Versions, SourcesPublished, Claimed, ClaimsHaveHolders
<1>4. Published
  BY SessionProxyAssumption DEF Published, SuccessIsPublished, SessionProxyAssumption
<1> QED BY <1>1, <1>2, <1>3, <1>4 DEF ProxyInv

\* The invariant is kept by every step of the composition.
LEMMA InvNext ==
    ASSUME TypeOK, TypeOK', Accounted, ProxyTyped, ProxyInv, [WNext]_writerVars
    PROVE  ProxyInv'
<1>1. ASSUME NEW c \in Clients, ClientStep(c), UNCHANGED proxyVars PROVE ProxyInv'
  BY <1>1, ClientIsCalm, CalmKeeps
<1>2. ASSUME NEW o \in Ops, WatchStep(o), UNCHANGED proxyVars PROVE ProxyInv'
  BY <1>2, WatchIsCalm, CalmKeeps
<1>3. CASE WWriterStep
  BY <1>3, WriterKeeps
<1>4. CASE WorkerStep
  BY <1>4, WorkerKeeps
<1>5. ASSUME NEW t \in Cancellers, WCancelStep(t) PROVE ProxyInv'
  BY <1>5, CancelKeepsFiles, CancelKeepsClaims DEF ProxyInv
<1>6. CASE UNCHANGED writerVars
  <2>1. Calm /\ UNCHANGED proxyVars
    BY <1>6 DEF writerVars, vars, recordVars, queueVars, threadVars, Calm
  <2> QED BY <2>1, CalmKeeps
<1> QED BY <1>1, <1>2, <1>3, <1>4, <1>5, <1>6 DEF WNext

\* The pointer is moved for the operation being executed, which has not ended.
LEMMA PublishingStep ==
    ASSUME ProxyTyped, ProxyInv, TypeOK, [WNext]_writerVars
    PROVE  PublishesWhileLive
<1> USE DEF PublishesWhileLive, claimVars, workerVars, stepVars, teardownVars, fileVars, proxyVars
<1>1. CASE WorkerCommits
  BY <1>1 DEF WorkerCommits, ProxyInv, Executing, Piped
<1>2. CASE UNCHANGED committed
  BY <1>2
<1>3. ASSUME WorkerStep PROVE WorkerCommits \/ UNCHANGED committed
  BY <1>3 DEF WorkerStep, WorkerAsks, WorkerMirrors, WorkerDies, WorkerReplies
<1>4. ASSUME WWriterStep PROVE UNCHANGED committed
  BY <1>4 DEF WWriterStep, WStart, CallStep, BeginCall, StartupCrash, SendRequest, RecvPublishing,
     RecvReply, GiveUp, FinishCall, WReportPublishing, WReportBuilding, WSettle
<1>5. ASSUME NEW t \in Cancellers, WCancelStep(t) PROVE UNCHANGED committed
  BY <1>5, CancelQuiet DEF ProxyInv
<1> QED BY <1>1, <1>2, <1>3, <1>4, <1>5 DEF WNext, writerVars

\* The invariant of the engine's writer.
THEOREM WriterInvariant == WSpec => [](TypeOK /\ Accounted /\ ProxyTyped /\ ProxyInv)
<1>1. WSpec => [](TypeOK /\ Accounted)
  BY IsAQueue, TypeCorrect, AlwaysAccounted, PTL
<1>2. TypeOK /\ TypeOK' /\ Accounted /\ ProxyTyped /\ ProxyInv /\ [WNext]_writerVars
          => (ProxyTyped /\ ProxyInv)'
  BY TypedNext, InvNext
<1> QED BY <1>1, <1>2, InvInit, PTL DEF WSpec

\* The writer, the pipe and the worker stay in step: no call ever finds the answer
\* to an earlier one that was cancelled, timed out or lost with its worker.
THEOREM PipeStaysInStep == WSpec => []WritersInStep
<1>1. TypeOK /\ ProxyTyped => WTypeOK
  BY DEF ProxyTyped, WTypeOK
<1>2. ProxyTyped /\ ProxyInv => PipeInStep
  BY DEF ProxyTyped, ProxyInv, Piped, PipeInStep, Frames, Replies
<1> QED BY <1>1, <1>2, WriterInvariant, PTL DEF WritersInStep

\* Whoever rolls a call back last, the workspace never keeps the files of an
\* operation that did not publish.
THEOREM FilesArePublished == WSpec => []SourcesPublished
<1>1. ProxyInv => SourcesPublished
  BY DEF ProxyInv, Versions
<1> QED BY <1>1, WriterInvariant, PTL

\* A claim on the active call is always held by a thread that finishes or releases it.
THEOREM ClaimsAreHeld == WSpec => []ClaimsHaveHolders
<1>1. ProxyInv => ClaimsHaveHolders
  BY DEF ProxyInv, Claimed
<1> QED BY <1>1, WriterInvariant, PTL

\* A success is published, and nothing is published for an operation that has ended.
THEOREM ReportsMatchThePointer == WSpec => PublicationAgrees
<1>1. ProxyInv => SuccessIsPublished
  BY DEF ProxyInv, Published
<1>2. TypeOK /\ ProxyTyped /\ ProxyInv /\ [WNext]_writerVars => PublishesWhileLive
  BY PublishingStep
<1> QED BY <1>1, <1>2, WriterInvariant, PTL DEF WSpec, PublicationAgrees
=============================================================================
