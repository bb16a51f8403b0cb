--------------------------- MODULE RequestsProofs ---------------------------
(***************************************************************************)
(* No file leaves a strict session unauthorized, every answer fits its     *)
(* question and every reported export is whole, for any clients, formats,  *)
(* number of builds and of nonces.                                         *)
(*                                                                         *)
(* An authorization is spread over three places: the host's nonce, what    *)
(* the writer was told of it and the audit record.  OnTheWay says what the *)
(* writer's step knows of them; that no two records have one nonce needs   *)
(* that a nonce it was told of is neither live any more nor recorded yet.  *)
(***************************************************************************)
EXTENDS Requests, TLAPS

Records ==
  [nonce : DOMAIN issued, build : 1 .. MaxBuilds, format : Formats,
   outcome : {"authorized", "failed"}]

\* What TypeOK does not say of the nonces and their records.
Typed == TypeOK /\ Len(issued) \in 0 .. MaxNonces /\ audit \in Seq(Records)

Exporting == {"asking", "told", "authorized", "writing", "flushing"}

\* What an export that has come so far relies on.
Way(o) ==
  /\ o.step \in Exporting => build > 0
  /\ o.strict = o.negotiated
  /\ o.nonce # Null => o.nonce \in DOMAIN issued
  /\ o.step \in {"asking", "told", "authorized"} => o.nonce # Null
  /\ o.step \in {"writing", "flushing"} /\ o.kind = "export" => ready \/ ~o.strict
  /\ o.step = "told" /\ o.told =>
       /\ o.nonce \notin live /\ issued[o.nonce] = [build |-> build, format |-> o.format]
       /\ \A i \in Authorizations : audit[i].nonce # o.nonce
  /\ o.step = "authorized" =>
       \E i \in Authorizations : audit[i].nonce = o.nonce /\ audit[i].format = o.format

OnTheWay == op # Null => Way(op)

Inv == Typed /\ OnTheWay /\ ForcedIsAuthorized /\ BlockedStaysOut

-----------------------------------------------------------------------------
(* Calls *)

Kinds == {"read", "lookup", "build", "goals", "export", "slice", "other"}

Good(r) ==
  /\ r.kind \in Kinds /\ r.strict \in BOOLEAN /\ r.negotiated = r.strict
  /\ r.readiness \in BOOLEAN /\ r.enabled \subseteq Fields

LEMMA DispatchedIsGood == \A q : Good(Dispatched(q, TRUE)) /\ Good(Dispatched(q, FALSE))
<1>1. \A m : Kind(m) \in Kinds
  BY DEF Kind, Kinds
<1> QED BY <1>1 DEF Good, Dispatched, StrictExport, FieldsFor

\* What the server passes on is what it made of a request.
LEMMA CallsAreDispatched ==
  ASSUME NEW c \in Clients, NEW r \in Calls(c)
  PROVE  \E q : r = Dispatched(q, TRUE) \/ r = Dispatched(q, FALSE)
<1> DEFINE
      Tool == {Dispatched(Request(t, t, BridgeHello, FALSE, TRUE, valid), FALSE) :
                 t \in Tools \ OperationMethods, valid \in BOOLEAN}
      ToolOperation == {Dispatched(Request(o, m, BridgeHello, private, TRUE, TRUE), TRUE) :
                 o \in OperationMethods, m \in Handlers, private \in BOOLEAN}
      Direct == {Dispatched(Request(m, m, hello, private, v2, TRUE), TRUE) :
                 m \in Methods, hello \in Hellos, private \in BOOLEAN, v2 \in BOOLEAN}
      Submitted == {Dispatched(Request("submit_operation", m, hello, private, v2, TRUE), TRUE) :
                 m \in Methods, hello \in Hellos, private \in BOOLEAN, v2 \in BOOLEAN}
<1>1. ToolCalls = Tool \cup ToolOperation
  BY DEF ToolCalls, Dispatched, Request
<1>2. ClientCalls = Direct \cup Submitted
  BY DEF ClientCalls, Dispatched, Request
<1> HIDE DEF Tool, ToolOperation, Direct, Submitted
<1>3. \/ r \in Tool \/ r \in ToolOperation \/ r \in Direct \/ r \in Submitted
  BY <1>1, <1>2 DEF Calls
<1>4. CASE r \in Tool
  <2>1. PICK t \in Tools \ OperationMethods, valid \in BOOLEAN :
          r = Dispatched(Request(t, t, BridgeHello, FALSE, TRUE, valid), FALSE)
    BY <1>4, SMTT(20) DEF Tool, Request, Dispatched
  <2> QED BY <2>1, Zenon
<1>5. CASE r \in ToolOperation
  <2>1. PICK o \in OperationMethods, m \in Handlers, private \in BOOLEAN :
          r = Dispatched(Request(o, m, BridgeHello, private, TRUE, TRUE), TRUE)
    BY <1>5 DEF ToolOperation, Request, Dispatched
  <2> QED BY <2>1, Zenon
<1>6. CASE r \in Direct
  <2>1. PICK m \in Methods, hello \in Hellos, private \in BOOLEAN, v2 \in BOOLEAN :
          r = Dispatched(Request(m, m, hello, private, v2, TRUE), TRUE)
    BY <1>6 DEF Direct, Request, Dispatched
  <2> QED BY <2>1, Zenon
<1>7. CASE r \in Submitted
  <2>1. PICK m \in Methods, hello \in Hellos, private \in BOOLEAN, v2 \in BOOLEAN :
          r = Dispatched(Request("submit_operation", m, hello, private, v2, TRUE), TRUE)
    BY <1>7 DEF Submitted, Request, Dispatched
  <2> QED BY <2>1, Zenon
<1> QED BY <1>3, <1>4, <1>5, <1>6, <1>7

\* What is known of it.
LEMMA CallFacts ==
  ASSUME NEW c \in Clients, NEW r \in Calls(c)
  PROVE  Good(r)
<1>1. PICK q : r = Dispatched(q, TRUE) \/ r = Dispatched(q, FALSE)
  BY CallsAreDispatched
<1> QED BY <1>1, DispatchedIsGood, Zenon

\* A client that is sent a readiness with a build can take it.
LEMMA ReadinessNegotiated ==
  ASSUME NEW c \in Clients, NEW r \in Calls(c)
  PROVE  r.readiness => "readiness" \in r.enabled
<1>1. PICK q : r = Dispatched(q, TRUE) \/ r = Dispatched(q, FALSE)
  BY CallsAreDispatched
<1>2. \A m : Dispatched(q, m).readiness => "readiness" \in Dispatched(q, m).enabled
  BY DEF Dispatched, FieldsFor, Fields
<1> QED BY <1>1, <1>2, Zenon

\* An operation as it starts.
LEMMA StartFacts ==
  ASSUME Inv, NEW c \in Clients, NEW r \in Calls(c), Start(c, r)
  PROVE  op' \in Operations /\ Way(op')
<1>1. PICK nonce \in DOMAIN issued \cup {Null}, format \in Formats : op' = Operation(c, r, nonce, format)
  BY ClientsAssumption DEF Start
<1>2. DOMAIN issued \subseteq Nonces
  BY BoundsAssumption DEF Inv, Typed, TypeOK, Nonces
<1>3. op' \in Operations
  BY <1>1, <1>2, CallFacts DEF Good, Operation, Operations, Kinds, Steps
<1>4. op'.step = "start" /\ op'.strict = op'.negotiated /\ op'.nonce = nonce
  BY <1>1, CallFacts DEF Good, Operation
<1> QED BY <1>1, <1>3, <1>4 DEF Way, Exporting

-----------------------------------------------------------------------------
(* Steps that leave the session, the file and the override alone *)

Connected ==
  /\ call \in [Clients -> Serving \cup {Null}]
  /\ submitted \in {Null, Unfinished} \cup Results

LEMMA OnlyTheOperation ==
  ASSUME Inv, Connected', UNCHANGED <<session, file, override>>,
         op' # Null => op' \in Operations /\ Way(op')
  PROVE  Inv'
<1>1. Typed'
  BY DEF Inv, Typed, TypeOK, Connected, session, override, Records
<1>2. OnTheWay'
  BY DEF OnTheWay, Way, session, override, Authorizations
<1>3. ForcedIsAuthorized' /\ BlockedStaysOut'
  BY DEF Inv, ForcedIsAuthorized, BlockedStaysOut, override, Authorizations
<1> QED BY <1>1, <1>2, <1>3 DEF Inv

LEMMA HandleKeepsInv ==
  ASSUME Inv, NEW c \in Clients, NEW r \in Calls(c), Handle(c, r)
  PROVE  Inv'
<1>0. Good(r) /\ Connected /\ pubs \in 0 .. MaxBuilds /\ (op # Null => op \in Operations /\ Way(op))
  BY CallFacts DEF Inv, Typed, TypeOK, OnTheWay, Connected
<1>1. CASE HandleAtOnce(c, r)
  BY <1>0, <1>1, OnlyTheOperation DEF HandleAtOnce, Connected
<1>2. CASE HandleRead(c, r)
  <2>1. Connected'
    <3>1. [reads |-> TRUE, enabled |-> r.enabled, saw |-> pubs]
             \in Serving
      BY <1>0 DEF Good, Serving
    <3> QED BY <1>0, <1>2, <3>1 DEF HandleRead, Connected
  <2> QED BY <1>0, <1>2, <2>1, OnlyTheOperation DEF HandleRead
<1>3. CASE HandleSync(c, r)
  <2>1. Connected'
    <3>1. [reads |-> FALSE, enabled |-> r.enabled, saw |-> 0]
             \in Serving
      BY <1>0, BoundsAssumption DEF Good, Serving
    <3> QED BY <1>0, <1>3, <3>1 DEF HandleSync, Connected
  <2> QED BY <1>3, <2>1, StartFacts, OnlyTheOperation DEF HandleSync
<1>4. CASE HandleSubmit(c, r)
  <2>1. Connected'
    BY <1>0, <1>4 DEF HandleSubmit, Connected
  <2> QED BY <1>4, <2>1, StartFacts, OnlyTheOperation DEF HandleSubmit
<1>5. CASE HandleGet(c, r)
  BY <1>0, <1>5, OnlyTheOperation DEF HandleGet, Connected
<1> QED BY <1>1, <1>2, <1>3, <1>4, <1>5 DEF Handle

LEMMA ClientsKeepInv ==
  ASSUME Inv, GiveUp \/ \E c \in Clients : ReadGeneration(c)
  PROVE  Inv'
<1>0. Connected /\ (op # Null => op \in Operations /\ Way(op))
  BY DEF Inv, Typed, TypeOK, OnTheWay, Connected
<1>1. CASE GiveUp
  <2>1. Connected'
    BY <1>0, <1>1 DEF GiveUp, Connected
  <2>2. ASSUME op # Null PROVE Unheard(op) \in Operations /\ Way(Unheard(op))
    <3>1. CASE Unheard(op) = op
      BY <1>0, <2>2, <3>1
    <3>2. CASE Unheard(op) = [op EXCEPT !.heard = FALSE]
      <4>1. Unheard(op) \in Operations
        BY <1>0, <2>2, <3>2 DEF Operations
      <4>2. /\ Unheard(op).step = op.step /\ Unheard(op).strict = op.strict
            /\ Unheard(op).negotiated = op.negotiated /\ Unheard(op).nonce = op.nonce
            /\ Unheard(op).kind = op.kind /\ Unheard(op).told = op.told
            /\ Unheard(op).format = op.format
        BY <1>0, <2>2, <3>2 DEF Operations
      <4> QED BY <1>0, <2>2, <4>1, <4>2 DEF Way
    <3> QED BY <3>1, <3>2 DEF Unheard
  <2> QED BY <1>1, <2>1, <2>2, OnlyTheOperation DEF GiveUp
<1>2. CASE \E c \in Clients : ReadGeneration(c)
  <2>1. PICK c \in Clients : ReadGeneration(c)
    BY <1>2
  <2>2. Connected'
    BY <1>0, <2>1 DEF ReadGeneration, Connected
  <2> QED BY <1>0, <2>1, <2>2, OnlyTheOperation DEF ReadGeneration
<1> QED BY <1>1, <1>2

-----------------------------------------------------------------------------
(* The writer's steps *)

Off == {"start", "published", "done"}

\* The operation moves on, and off the way of an export.
Leaves ==
  /\ op' \in Operations /\ op'.step \in Off
  /\ op'.strict = op.strict /\ op'.negotiated = op.negotiated /\ op'.nonce = op.nonce

LEMMA DoneLeaves ==
  ASSUME op \in Operations, NEW ok \in BOOLEAN, Done(ok)
  PROVE  Leaves
<1>1. op' \in Operations
  BY DEF Done, Operations, Steps
<1> QED BY <1>1 DEF Done, Leaves, Off, Operations

LEMMA LeavingIsOffTheWay ==
  ASSUME op \in Operations, Way(op), Leaves
  PROVE  Way(op')
BY DEF Leaves, Off, Way, Exporting

\* The session changes under an operation that is not an export, or is off its way.
LEMMA SessionChanges ==
  ASSUME Inv, op # Null, Leaves, UNCHANGED <<connections, file, override>>,
         pubs' \in 0 .. MaxBuilds, build' \in 0 .. pubs', ready' \in BOOLEAN
  PROVE  Inv'
<1>1. Typed'
  BY DEF Inv, Typed, TypeOK, Leaves, connections, override, Records
<1>2. OnTheWay'
  BY DEF Inv, OnTheWay, Way, Leaves, Off, Exporting, override
<1>3. ForcedIsAuthorized' /\ BlockedStaysOut'
  BY DEF Inv, ForcedIsAuthorized, BlockedStaysOut, override, Authorizations
<1> QED BY <1>1, <1>2, <1>3 DEF Inv

LEMMA GoalsKeepInv ==
  ASSUME Inv, SetGoals \/ Publish \/ WorkerDies
  PROVE  Inv'
<1>0. op # Null /\ op \in Operations /\ pubs \in 0 .. MaxBuilds /\ build \in 0 .. pubs
  BY DEF Inv, Typed, TypeOK, SetGoals, Publish, WorkerDies, Starts, At
<1>1. CASE SetGoals
  <2>1. Leaves
    BY <1>0, <1>1, DoneLeaves DEF SetGoals
  <2> QED BY <1>0, <1>1, <2>1, SessionChanges DEF SetGoals, Quiet
<1>2. CASE Publish
  <2>1. op' \in Operations
    BY <1>0, <1>2 DEF Publish, Go, Operations, Steps
  <2>2. Leaves
    BY <1>0, <1>2, <2>1 DEF Publish, Go, Leaves, Off, Operations
  <2>3. pubs' \in 0 .. MaxBuilds /\ build' \in 0 .. pubs' /\ ready' \in BOOLEAN
    BY <1>0, <1>2, BoundsAssumption DEF Publish
  <2> QED BY <1>0, <1>2, <2>2, <2>3, SessionChanges DEF Publish, Quiet
<1>3. CASE WorkerDies
  <2>1. Leaves
    BY <1>0, <1>3, DoneLeaves DEF WorkerDies
  <2>2. pubs' \in 0 .. MaxBuilds /\ build' \in 0 .. pubs' /\ ready' \in BOOLEAN
    <3>1. CASE build' = 0 /\ ready' = FALSE /\ pubs' = pubs
      <4>1. pubs' \in 0 .. MaxBuilds /\ build' \in 0 .. pubs'
        BY <1>0, <3>1, BoundsAssumption
      <4>2. ready' \in BOOLEAN
        BY <3>1
      <4> QED BY <4>1, <4>2
    <3>2. CASE pubs < MaxBuilds /\ build' = 1 /\ ready' \in BOOLEAN /\ pubs' = pubs + 1
      <4>1. pubs' \in 0 .. MaxBuilds /\ build' \in 0 .. pubs'
        BY <1>0, <3>2, BoundsAssumption
      <4> QED BY <3>2, <4>1
    <3> QED BY <1>3, <3>1, <3>2 DEF WorkerDies
  <2> QED BY <1>0, <1>3, <2>1, <2>2, SessionChanges DEF WorkerDies, Quiet
<1> QED BY <1>1, <1>2, <1>3

\* The steps that only move the operation on.
LEMMA MovesKeepInv ==
  ASSUME Inv, RunOther \/ BuildFails \/ AppendReadiness \/ DecideExport \/ StartSlice
              \/ WriterSilent \/ Deliver
  PROVE  Inv'
<1>0. op # Null /\ op \in Operations /\ Way(op) /\ Connected
  <2>1. op # Null
    BY DEF RunOther, BuildFails, AppendReadiness, DecideExport, StartSlice, WriterSilent, Deliver,
           Starts, At
  <2> QED BY <2>1 DEF Inv, Typed, TypeOK, OnTheWay, Connected
<1> DEFINE Moves == Quiet /\ UNCHANGED <<session, file, override>> /\ op' \in Operations /\ Way(op')
<1>1. Moves => Inv'
  BY <1>0, OnlyTheOperation DEF Quiet, connections, Connected
<1>2. ASSUME NEW ok \in BOOLEAN, Done(ok) PROVE op' \in Operations /\ Way(op')
  BY <1>0, <1>2, DoneLeaves, LeavingIsOffTheWay DEF Leaves
<1>3. ASSUME Go("writing"), build > 0, op.kind = "export" => MayExport
      PROVE  op' \in Operations /\ Way(op')
  <2>1. op' \in Operations
    BY <1>0, <1>3 DEF Go, Operations, Steps
  <2>2. /\ op'.step = "writing" /\ op'.strict = op.strict /\ op'.negotiated = op.negotiated
        /\ op'.nonce = op.nonce /\ op'.kind = op.kind
    BY <1>0, <1>3 DEF Go, Operations
  <2> QED BY <1>0, <1>3, <2>1, <2>2 DEF Way, MayExport
<1>4. ASSUME Go("asking"), build > 0, op.nonce # Null PROVE op' \in Operations /\ Way(op')
  <2>1. op' \in Operations
    BY <1>0, <1>4 DEF Go, Operations, Steps
  <2>2. /\ op'.step = "asking" /\ op'.strict = op.strict /\ op'.negotiated = op.negotiated
        /\ op'.nonce = op.nonce
    BY <1>0, <1>4 DEF Go, Operations
  <2> QED BY <1>0, <1>4, <2>1, <2>2 DEF Way
<1>5. CASE RunOther
  BY <1>1, <1>2, <1>5 DEF RunOther
<1>6. CASE BuildFails
  BY <1>1, <1>2, <1>6 DEF BuildFails
<1>7. CASE AppendReadiness
  <2>1. CASE \E fields \in SUBSET Fields : op' = [op EXCEPT !.step = "done", !.ok = TRUE, !.fields = fields]
    <3>1. op' \in Operations
      BY <1>0, <2>1 DEF Operations, Steps
    <3>2. Leaves
      BY <1>0, <2>1, <3>1 DEF Leaves, Off, Operations
    <3> QED BY <1>0, <1>1, <1>7, <3>2, LeavingIsOffTheWay DEF AppendReadiness, Leaves
  <2>2. CASE Done(FALSE)
    BY <1>1, <1>2, <1>7, <2>2 DEF AppendReadiness
  <2> QED BY <1>7, <2>1, <2>2 DEF AppendReadiness, Fields
<1>8. CASE DecideExport
  <2>1. CASE Done(FALSE)
    BY <1>1, <1>2, <1>8, <2>1 DEF DecideExport
  <2>2. CASE build > 0 /\ MayExport /\ Go("writing")
    BY <1>1, <1>3, <1>8, <2>2 DEF DecideExport
  <2>3. CASE build > 0 /\ op.nonce # Null /\ Go("asking")
    BY <1>1, <1>4, <1>8, <2>3 DEF DecideExport
  <2> QED BY <1>8, <2>1, <2>2, <2>3 DEF DecideExport
<1>9. CASE StartSlice
  <2>1. CASE Done(FALSE)
    BY <1>1, <1>2, <1>9, <2>1 DEF StartSlice
  <2>2. CASE build > 0 /\ Go("writing")
    BY <1>1, <1>3, <1>9, <2>2 DEF StartSlice, Starts
  <2> QED BY <1>9, <2>1, <2>2 DEF StartSlice
<1>10. CASE WriterSilent
  <2>1. op' \in Operations
    BY <1>0, <1>10 DEF WriterSilent, Operations, Steps
  <2>2. Leaves
    BY <1>0, <1>10, <2>1 DEF WriterSilent, Leaves, Off, Operations
  <2> QED BY <1>0, <1>1, <1>10, <2>2, LeavingIsOffTheWay DEF WriterSilent, Leaves
<1>11. CASE Deliver
  <2>1. Result \in Results
    BY <1>0 DEF Operations, Result, Results
  <2>2. Connected'
    BY <1>0, <1>11, <2>1 DEF Deliver, Connected
  <2> QED BY <1>11, <2>2, OnlyTheOperation DEF Deliver
<1> QED BY <1>5, <1>6, <1>7, <1>8, <1>9, <1>10, <1>11

-----------------------------------------------------------------------------
(* The way of an export *)

\* What every step of an export finds.
LEMMA ExportFacts ==
  ASSUME Inv, op # Null
  PROVE  /\ op \in Operations /\ Way(op)
         /\ pubs \in 0 .. MaxBuilds /\ build \in 0 .. pubs /\ ready \in BOOLEAN
         /\ op.nonce \in Nonces \cup {Null} /\ op.format \in Formats
BY DEF Inv, Typed, TypeOK, OnTheWay, Operations

LEMMA ConsumeKeepsInv ==
  ASSUME Inv, Consume
  PROVE  Inv'
<1>0. op # Null /\ op \in Operations /\ Way(op) /\ op.step = "asking"
  BY ExportFacts DEF Consume, At
<1>1. PICK told \in {FALSE, Matches(op.nonce, build, op.format)} :
        op' = [op EXCEPT !.step = "told", !.told = told]
  BY DEF Consume
<1>2. told \in BOOLEAN /\ (told => Matches(op.nonce, build, op.format))
  BY DEF Matches
<1>3. op' \in Operations
  BY <1>0, <1>1, <1>2 DEF Operations, Steps
<1>4. /\ op'.step = "told" /\ op'.told = told /\ op'.strict = op.strict
      /\ op'.negotiated = op.negotiated /\ op'.nonce = op.nonce /\ op'.format = op.format
  BY <1>0, <1>1, <1>2 DEF Operations
<1>5. UNCHANGED <<connections, session, file, issued, audit>>
  BY DEF Consume, Quiet
<1>6. live' \subseteq live /\ (told => op.nonce \in live /\ op.nonce \notin live')
  BY <1>2 DEF Consume, Matches
<1>7. Typed'
  BY <1>3, <1>5, <1>6 DEF Inv, Typed, TypeOK, connections, session, Records
<1>8. OnTheWay'
  <2>1. told => issued[op.nonce] = [build |-> build, format |-> op.format]
    BY <1>2 DEF Matches
  <2>2. told => \A i \in Authorizations : audit[i].nonce # op.nonce
    BY <1>6 DEF Inv, ForcedIsAuthorized
  <2>3. Authorizations' = Authorizations
    BY <1>5 DEF Authorizations
  <2> QED BY <1>0, <1>4, <1>5, <1>6, <2>1, <2>2, <2>3 DEF OnTheWay, Way, Exporting, session
<1>9. ForcedIsAuthorized' /\ BlockedStaysOut'
  BY <1>5, <1>6 DEF Inv, ForcedIsAuthorized, BlockedStaysOut, Authorizations
<1> QED BY <1>7, <1>8, <1>9 DEF Inv

\* A record more; those before keep their places.
LEMMA AppendFacts ==
  ASSUME Typed, NEW rec \in Records
  PROVE  /\ Append(audit, rec) \in Seq(Records)
         /\ Len(audit) \in Nat /\ DOMAIN audit = 1 .. Len(audit)
         /\ DOMAIN Append(audit, rec) = 1 .. Len(audit) + 1
         /\ Append(audit, rec)[Len(audit) + 1] = rec
         /\ \A i \in DOMAIN audit : Append(audit, rec)[i] = audit[i]
BY DEF Typed

LEMMA AuthorizeKeepsInv ==
  ASSUME Inv, Authorize
  PROVE  Inv'
<1>0. /\ op # Null /\ op \in Operations /\ Way(op) /\ op.step = "told" /\ Connected
      /\ pubs \in 0 .. MaxBuilds /\ build \in 0 .. pubs
  BY ExportFacts DEF Authorize, At, Inv, Typed, TypeOK, Connected
<1>1. CASE audit' = audit /\ Done(FALSE)
  <2>1. Way(op') /\ op' \in Operations
    BY <1>0, <1>1, DoneLeaves, LeavingIsOffTheWay DEF Leaves
  <2> QED BY <1>0, <1>1, <2>1, OnlyTheOperation
          DEF Authorize, Quiet, Connected, connections, override
<1>2. CASE op.told /\ audit' = Append(audit, Record("authorized")) /\ Go("authorized")
  <2> DEFINE rec == Record("authorized")
             n == Len(audit) + 1
  <2>1. UNCHANGED <<connections, session, file, issued, live>>
    BY DEF Authorize, Quiet
  <2>2. /\ op.nonce \in DOMAIN issued /\ op.nonce \notin live /\ build > 0
        /\ issued[op.nonce] = [build |-> build, format |-> op.format]
        /\ \A i \in Authorizations : audit[i].nonce # op.nonce
    BY <1>0, <1>2 DEF Way, Exporting
  <2>3. rec \in Records
    BY <1>0, <2>2, BoundsAssumption DEF Record, Records, Operations
  <2>4. /\ rec.nonce = op.nonce /\ rec.build = build /\ rec.format = op.format
        /\ rec.outcome = "authorized"
    BY DEF Record
  <2> HIDE DEF rec
  <2>5. audit' \in Seq(Records) /\ n \in DOMAIN audit' /\ audit'[n] = rec
    BY <1>2, <2>3, AppendFacts DEF Inv, rec
  <2>6. Authorizations' = Authorizations \cup {n} /\ \A i \in Authorizations : audit'[i] = audit[i]
    <3>1. /\ DOMAIN audit = 1 .. Len(audit) /\ DOMAIN audit' = 1 .. n /\ Len(audit) \in Nat
          /\ audit'[n] = rec /\ \A i \in DOMAIN audit : audit'[i] = audit[i]
      BY <1>2, <2>3, AppendFacts DEF Inv, rec
    <3>2. DOMAIN audit' = DOMAIN audit \cup {n}
      BY <3>1
    <3> QED BY <2>4, <3>1, <3>2 DEF Authorizations
  <2>7. op' \in Operations
    BY <1>0, <1>2 DEF Go, Operations, Steps
  <2>8. /\ op'.step = "authorized" /\ op'.strict = op.strict /\ op'.negotiated = op.negotiated
        /\ op'.nonce = op.nonce /\ op'.format = op.format
    BY <1>0, <1>2 DEF Go, Operations
  <2>9. Typed'
    BY <2>1, <2>5, <2>7 DEF Inv, Typed, TypeOK, connections, session, Records
  <2>10. OnTheWay'
    <3>1. op'.nonce # Null
      BY <1>0, <2>8 DEF Way
    <3>2. \E i \in Authorizations' : audit'[i].nonce = op'.nonce /\ audit'[i].format = op'.format
      BY <2>4, <2>5, <2>6, <2>8
    <3> QED BY <1>0, <2>1, <2>2, <2>8, <3>1, <3>2 DEF OnTheWay, Way, Exporting, session
  <2>11. ForcedIsAuthorized'
    <3>1. file' # Null /\ file'.forcedBy # Null =>
            \E i \in Authorizations' : audit'[i].nonce = file'.forcedBy /\ audit'[i].format = file'.format
      BY <2>1, <2>6 DEF Inv, ForcedIsAuthorized
    <3>2. ASSUME NEW i \in Authorizations'
          PROVE  /\ audit'[i].nonce \notin live'
                 /\ issued'[audit'[i].nonce] = [build |-> audit'[i].build, format |-> audit'[i].format]
      <4>1. CASE i = n
        BY <2>1, <2>2, <2>4, <2>5, <4>1
      <4>2. CASE i \in Authorizations
        <5>1. /\ audit[i].nonce \notin live
              /\ issued[audit[i].nonce] = [build |-> audit[i].build, format |-> audit[i].format]
          BY <4>2 DEF Inv, ForcedIsAuthorized
        <5> QED BY <2>1, <2>6, <4>2, <5>1
      <4> QED BY <2>6, <4>1, <4>2
    <3>3. ASSUME NEW i \in Authorizations', NEW j \in Authorizations',
                 audit'[i].nonce = audit'[j].nonce
          PROVE  i = j
      <4>1. CASE i \in Authorizations /\ j \in Authorizations
        <5>1. audit[i].nonce = audit[j].nonce => i = j
          BY <4>1 DEF Inv, ForcedIsAuthorized
        <5> QED BY <2>6, <3>3, <4>1, <5>1
      <4>2. CASE i = n /\ j \in Authorizations
        BY <2>2, <2>4, <2>5, <2>6, <3>3, <4>2
      <4>3. CASE i \in Authorizations /\ j = n
        BY <2>2, <2>4, <2>5, <2>6, <3>3, <4>3
      <4>4. CASE i = n /\ j = n
        BY <4>4
      <4> QED BY <2>6, <4>1, <4>2, <4>3, <4>4
    <3> QED BY <3>1, <3>2, <3>3 DEF ForcedIsAuthorized
  <2> QED BY <2>1, <2>9, <2>10, <2>11 DEF Inv, BlockedStaysOut
<1> QED BY <1>1, <1>2 DEF Authorize

\* A failed attempt is recorded too, and authorizes nothing.
LEMMA WriteForcedKeepsInv ==
  ASSUME Inv, WriteForced
  PROVE  Inv'
<1>0. /\ op # Null /\ op \in Operations /\ Way(op) /\ op.step = "authorized"
      /\ pubs \in 0 .. MaxBuilds /\ build \in 0 .. pubs /\ build > 0 /\ op.nonce # Null
      /\ op.nonce \in DOMAIN issued /\ op.nonce \in Nonces \cup {Null}
  BY ExportFacts DEF WriteForced, At, Way, Exporting
<1>1. UNCHANGED <<connections, session, issued, live>>
  BY DEF WriteForced, Quiet
<1>2. Leaves
  BY <1>0, DoneLeaves DEF WriteForced
<1>3. Authorizations' = Authorizations /\ audit' \in Seq(Records)
      /\ \A i \in Authorizations : audit'[i] = audit[i]
  <2>1. CASE audit' = audit
    BY <2>1 DEF Inv, Typed, Authorizations
  <2>2. CASE audit' = Append(audit, Record("failed"))
    <3>1. Record("failed") \in Records /\ Record("failed").outcome = "failed"
      BY <1>0, BoundsAssumption DEF Record, Records, Operations
    <3>2. /\ DOMAIN audit = 1 .. Len(audit) /\ DOMAIN audit' = 1 .. Len(audit) + 1
          /\ Len(audit) \in Nat /\ audit'[Len(audit) + 1] = Record("failed")
          /\ audit' \in Seq(Records) /\ \A i \in DOMAIN audit : audit'[i] = audit[i]
      BY <2>2, <3>1, AppendFacts DEF Inv
    <3>3. DOMAIN audit' = DOMAIN audit \cup {Len(audit) + 1}
      BY <3>2
    <3> QED BY <3>1, <3>2, <3>3 DEF Authorizations
  <2> QED BY <2>1, <2>2 DEF WriteForced
<1>4. file' = file \/ file' = Written(op.nonce, TRUE)
  BY DEF WriteForced
<1>5. ASSUME file' = Written(op.nonce, TRUE)
      PROVE  file' \in Files /\ file'.forcedBy = op.nonce /\ file'.format = op.format
  BY <1>0, <1>5, ExportFacts DEF Written, Files, Operations
<1>6. Typed'
  BY <1>1, <1>2, <1>3, <1>4, <1>5 DEF Inv, Typed, TypeOK, connections, session, Records, Leaves
<1>7. OnTheWay'
  BY <1>0, <1>1, <1>2, LeavingIsOffTheWay DEF OnTheWay, Way, Leaves, Off, Exporting
<1>8. ForcedIsAuthorized'
  <2>1. file' # Null /\ file'.forcedBy # Null =>
          \E i \in Authorizations : audit[i].nonce = file'.forcedBy /\ audit[i].format = file'.format
    BY <1>0, <1>4, <1>5 DEF Inv, ForcedIsAuthorized, Way
  <2> QED BY <1>1, <1>3, <2>1 DEF Inv, ForcedIsAuthorized
<1>9. BlockedStaysOut'
  BY <1>0, <1>4, <1>5 DEF Inv, BlockedStaysOut
<1> QED BY <1>6, <1>7, <1>8, <1>9 DEF Inv

\* What is written without an authorization is not blocked.
LEMMA WriteKeepsInv ==
  ASSUME Inv, OpenFile \/ FinishFile
  PROVE  Inv'
<1>0. /\ op # Null /\ op \in Operations /\ Way(op) /\ op.step \in {"writing", "flushing"}
      /\ pubs \in 0 .. MaxBuilds /\ build \in 0 .. pubs /\ build > 0 /\ ready \in BOOLEAN
      /\ op.format \in Formats
  BY ExportFacts DEF OpenFile, FinishFile, At, Way, Exporting
<1>1. UNCHANGED <<connections, session, override>>
  BY DEF OpenFile, FinishFile, Quiet
<1>2. op' \in Operations /\ Way(op')
  <2>1. CASE Go("flushing")
    <3>1. op' \in Operations
      BY <1>0, <2>1 DEF Go, Operations, Steps
    <3>2. /\ op'.step = "flushing" /\ op'.strict = op.strict /\ op'.negotiated = op.negotiated
          /\ op'.nonce = op.nonce /\ op'.kind = op.kind
      BY <1>0, <2>1 DEF Go, Operations
    <3> QED BY <1>0, <3>1, <3>2 DEF Way
  <2>2. CASE Done(TRUE) \/ Done(FALSE)
    BY <1>0, <2>2, DoneLeaves, LeavingIsOffTheWay DEF Leaves
  <2> QED BY <2>1, <2>2 DEF OpenFile, FinishFile
<1>3. file' = file \/ \E whole \in BOOLEAN : file' = Written(Null, whole)
  BY DEF OpenFile, FinishFile
<1>4. ASSUME NEW whole \in BOOLEAN
      PROVE  /\ Written(Null, whole) \in Files /\ Written(Null, whole).forcedBy = Null
             /\ ~Written(Null, whole).blocked
  <2>1. ~(op.kind = "export" /\ op.negotiated /\ ~ready)
    BY <1>0 DEF Way
  <2>2. (op.kind = "export" /\ op.negotiated /\ ~ready) \in BOOLEAN
    OBVIOUS
  <2>3. Written(Null, whole) \in Files
    BY <1>0, <2>2 DEF Written, Files
  <2> QED BY <2>1, <2>3 DEF Written
<1>5. Typed'
  BY <1>1, <1>2, <1>3, <1>4 DEF Inv, Typed, TypeOK, connections, session, override, Records
<1>6. OnTheWay'
  BY <1>1, <1>2 DEF OnTheWay, Way, session, override, Authorizations
<1>7. ForcedIsAuthorized' /\ BlockedStaysOut'
  BY <1>1, <1>3, <1>4 DEF Inv, ForcedIsAuthorized, BlockedStaysOut, override, Authorizations
<1> QED BY <1>5, <1>6, <1>7 DEF Inv

-----------------------------------------------------------------------------
(* The host *)

LEMMA IssueKeepsInv ==
  ASSUME Inv, NEW b \in 1 .. pubs, NEW f \in Formats, Issue(b, f)
  PROVE  Inv'
<1> DEFINE n == Len(issued) + 1
<1>1. /\ issued \in Seq(Scopes) /\ [build |-> b, format |-> f] \in Scopes
      /\ Len(issued) \in Nat /\ n \in 1 .. MaxNonces
  BY BoundsAssumption DEF Inv, Typed, TypeOK, Issue, Scopes
<1>2. /\ issued' \in Seq(Scopes) /\ Len(issued') = n
      /\ DOMAIN issued = 1 .. Len(issued) /\ DOMAIN issued' = DOMAIN issued \cup {n}
      /\ n \notin DOMAIN issued /\ \A i \in DOMAIN issued : issued'[i] = issued[i]
  BY <1>1 DEF Issue
<1>3. live' = live \cup {n} /\ UNCHANGED <<connections, op, session, file, audit>>
  BY DEF Issue, Quiet
<1>4. \A i \in Authorizations : audit[i].nonce \in DOMAIN issued
  <2>1. \A i \in DOMAIN audit : audit[i] \in Records
    BY DEF Inv, Typed
  <2> QED BY <2>1 DEF Authorizations, Records
<1>5. Authorizations' = Authorizations
  BY <1>3 DEF Authorizations
<1>6. Typed'
  <2>1. Records \subseteq Records'
    BY <1>2 DEF Records
  <2>2. audit' \in Seq(Records')
    BY <1>3, <2>1 DEF Inv, Typed
  <2> QED BY <1>1, <1>2, <1>3, <2>2 DEF Inv, Typed, TypeOK, connections, session
<1>7. OnTheWay'
  BY <1>2, <1>3, <1>5 DEF Inv, OnTheWay, Way, session
<1>8. ForcedIsAuthorized'
  <2>1. \A i \in Authorizations :
          /\ audit[i].nonce \notin live'
          /\ issued'[audit[i].nonce] = [build |-> audit[i].build, format |-> audit[i].format]
    BY <1>2, <1>3, <1>4 DEF Inv, ForcedIsAuthorized
  <2> QED BY <1>3, <1>5, <2>1 DEF Inv, ForcedIsAuthorized
<1>9. BlockedStaysOut'
  BY <1>3 DEF Inv, BlockedStaysOut
<1> QED BY <1>6, <1>7, <1>8, <1>9 DEF Inv

LEMMA ExpireKeepsInv ==
  ASSUME Inv, NEW n \in live, Expire(n)
  PROVE  Inv'
<1>1. live' \subseteq live /\ UNCHANGED <<connections, op, session, file, issued, audit>>
  BY DEF Expire, Quiet
<1>2. Typed'
  BY <1>1 DEF Inv, Typed, TypeOK, connections, session, Records
<1>3. OnTheWay'
  BY <1>1 DEF Inv, OnTheWay, Way, session, Authorizations
<1>4. ForcedIsAuthorized' /\ BlockedStaysOut'
  BY <1>1 DEF Inv, ForcedIsAuthorized, BlockedStaysOut, Authorizations
<1> QED BY <1>2, <1>3, <1>4 DEF Inv

-----------------------------------------------------------------------------
LEMMA InitEstablishesInv == Init => Inv
<1> SUFFICES ASSUME Init PROVE Inv
  OBVIOUS
<1>1. Typed
  <2>1. issued = <<>> /\ audit = <<>> /\ live = {} /\ pubs = 0 /\ build = 0 /\ op = Null /\ file = Null
    BY DEF Init
  <2>2. /\ issued \in Seq(Scopes) /\ Len(issued) = 0 /\ audit \in Seq(Records)
        /\ live \subseteq DOMAIN issued
    BY <2>1
  <2>3. call \in [Clients -> {Null}] /\ submitted = Null /\ ready \in BOOLEAN
    BY DEF Init
  <2> QED BY <2>1, <2>2, <2>3, BoundsAssumption DEF Typed, TypeOK
<1>2. OnTheWay /\ BlockedStaysOut
  BY DEF Init, OnTheWay, BlockedStaysOut
<1>3. ForcedIsAuthorized
  BY DEF Init, ForcedIsAuthorized, Authorizations
<1> QED BY <1>1, <1>2, <1>3 DEF Inv

LEMMA NextKeepsInv == Inv /\ [Next]_vars => Inv'
<1> SUFFICES ASSUME Inv, [Next]_vars PROVE Inv'
  OBVIOUS
<1>1. CASE \E c \in Clients : \E r \in Calls(c) : Handle(c, r)
  BY <1>1, HandleKeepsInv
<1>2. CASE GiveUp \/ \E c \in Clients : ReadGeneration(c)
  BY <1>2, ClientsKeepInv
<1>3. CASE Work
  BY <1>3, GoalsKeepInv, MovesKeepInv, ConsumeKeepsInv, AuthorizeKeepsInv, WriteForcedKeepsInv,
     WriteKeepsInv DEF Work
<1>4. CASE \E b \in 1 .. pubs, f \in Formats : Issue(b, f)
  BY <1>4, IssueKeepsInv
<1>5. CASE \E n \in live : Expire(n)
  BY <1>5, ExpireKeepsInv
<1>6. CASE UNCHANGED vars
  <2>1. UNCHANGED <<session, file, override>> /\ op' = op /\ Connected'
    BY <1>6 DEF vars, connections, Connected, Inv, Typed, TypeOK
  <2>2. op # Null => op \in Operations /\ Way(op)
    BY DEF Inv, Typed, TypeOK, OnTheWay
  <2> QED BY <2>1, <2>2, OnlyTheOperation
<1> QED BY <1>1, <1>2, <1>3, <1>4, <1>5, <1>6 DEF Next

\* A strict client gets a file only of a design that was ready or that the host
\* authorized, once, for this build and format (session.export, verify_override,
\* OverrideAuthority.consume).
THEOREM NothingLeavesUnauthorized == Spec => []ExportsAuthorized
<1>1. Inv => ExportsAuthorized
  BY DEF Inv, Typed, ExportsAuthorized
<1> QED BY InitEstablishesInv, NextKeepsInv, <1>1, PTL DEF Spec

-----------------------------------------------------------------------------
(* Answers *)

\* The call of an operation somebody still waits for is that operation's, of a client that
\* knows the readiness it carries.
Waited(o, c) ==
  o.sync /\ o.heard => c # Null /\ ~c.reads /\ (o.readiness => "readiness" \in c.enabled)

\* A read saw a pointer that was there.
Answering ==
  /\ \A c \in Clients : call[c] # Null /\ call[c].reads => call[c].saw <= pubs
  /\ op # Null => Waited(op, call[op.client]) /\ ("readiness" \in op.fields => op.readiness)

\* The operation moves on for the client it was started for.
SameCaller ==
  /\ op'.client = op.client /\ op'.sync = op.sync /\ op'.heard = op.heard
  /\ op'.readiness = op.readiness
  /\ "readiness" \in op'.fields => "readiness" \in op.fields \/ op.readiness

LEMMA CallerKept ==
  ASSUME Inv, Answering, op # Null, SameCaller, UNCHANGED call, answer' = Null,
         pubs' \in 0 .. MaxBuilds, pubs <= pubs'
  PROVE  Answering' /\ AnswersFit'
<1>1. \A c \in Clients : call'[c] # Null /\ call'[c].reads => call'[c].saw <= pubs'
  BY BoundsAssumption DEF Answering, Inv, Typed, TypeOK, Serving
<1>2. Waited(op, call[op.client]) /\ ("readiness" \in op.fields => op.readiness)
  BY DEF Answering
<1>3. Waited(op', call'[op'.client]) /\ ("readiness" \in op'.fields => op'.readiness)
  BY <1>2 DEF SameCaller, Waited
<1>4. Answering'
  BY <1>1, <1>3 DEF Answering, Waited
<1> QED BY <1>4 DEF AnswersFit, AnswerFitsClient, ReadsFailOnlyOvertaken

\* What is stripped of an answer leaves what its client knows.
LEMMA StrippedFits ==
  ASSUME NEW enabled, NEW fields \in SUBSET Fields, NEW nested \in BOOLEAN,
         nested \/ ("readiness" \in fields => "readiness" \in enabled)
  PROVE  fields \ Stripped(enabled, nested) \subseteq enabled
<1>1. CASE nested
  BY <1>1 DEF Stripped, Fields
<1>2. CASE ~nested
  BY <1>2 DEF Stripped, Fields
<1> QED BY <1>1, <1>2

LEMMA HandleAnswers ==
  ASSUME Inv, Answering, NEW c \in Clients, NEW r \in Calls(c), Handle(c, r)
  PROVE  Answering' /\ AnswersFit'
<1>0. /\ call \in [Clients -> Serving \cup {Null}]
      /\ pubs \in 0 .. MaxBuilds /\ (op # Null => op \in Operations)
  BY DEF Inv, Typed, TypeOK
<1>1. ASSUME answer' = Null PROVE AnswersFit'
  BY <1>1 DEF AnswersFit, AnswerFitsClient, ReadsFailOnlyOvertaken
<1>2. CASE HandleAtOnce(c, r)
  BY <1>1, <1>2 DEF HandleAtOnce, Answering, session
<1>3. CASE HandleRead(c, r)
  <2>1. /\ call' = [call EXCEPT ![c] = [reads |-> TRUE, enabled |-> r.enabled, saw |-> pubs]]
        /\ UNCHANGED <<op, pubs>> /\ answer' = Null /\ call[c] = Null
    BY <1>3 DEF HandleRead, Idle, session
  <2>2. \A d \in Clients : call'[d] # Null /\ call'[d].reads => call'[d].saw <= pubs'
    BY <1>0, <2>1, BoundsAssumption DEF Answering, Serving
  <2>3. ASSUME op # Null PROVE Waited(op, call'[op.client]) /\ ("readiness" \in op.fields => op.readiness)
    <3>1. Waited(op, call[op.client]) /\ ("readiness" \in op.fields => op.readiness)
      BY <2>3 DEF Answering
    <3>2. CASE op.client = c
      BY <2>1, <3>1, <3>2 DEF Waited
    <3>3. CASE op.client # c
      BY <1>0, <2>1, <3>1, <3>3 DEF Waited
    <3> QED BY <3>2, <3>3
  <2> QED BY <1>1, <2>1, <2>2, <2>3 DEF Answering, Waited
<1>4. ASSUME Start(c, r)
      PROVE  /\ op = Null /\ op' # Null /\ op'.client = c /\ op'.sync = (r.route = "sync")
             /\ op'.readiness = r.readiness /\ op'.fields = {}
  <2>1. PICK nonce, format : op' = Operation(c, r, nonce, format)
    BY <1>4 DEF Start
  <2>2. op' \in Operations /\ op = Null
    BY <1>4, StartFacts DEF Start
  <2>3. op' # Null
    BY <1>4, StartFacts, NullAssumption
  <2> QED BY <2>1, <2>2, <2>3 DEF Operation
<1>5. CASE HandleSync(c, r)
  <2>1. /\ call' = [call EXCEPT ![c] = [reads |-> FALSE, enabled |-> r.enabled, saw |-> 0]]
        /\ UNCHANGED pubs /\ answer' = Null
    BY <1>5 DEF HandleSync, session
  <2>2. \A d \in Clients : call'[d] # Null /\ call'[d].reads => call'[d].saw <= pubs'
    BY <1>0, <2>1 DEF Answering
  <2>3. Waited(op', call'[op'.client]) /\ ~("readiness" \in op'.fields)
    <3>1. [reads |-> FALSE, enabled |-> r.enabled, saw |-> 0] \in Serving
      BY CallFacts, BoundsAssumption DEF Good, Serving
    <3>2. call'[c] = [reads |-> FALSE, enabled |-> r.enabled, saw |-> 0] /\ call'[c] # Null
      BY <1>0, <2>1, <3>1, NullAssumption
    <3>3. ~call'[c].reads /\ (r.readiness => "readiness" \in call'[c].enabled)
      BY <3>2, ReadinessNegotiated
    <3> QED BY <1>4, <1>5, <3>2, <3>3 DEF HandleSync, Waited
  <2> QED BY <1>1, <2>1, <2>2, <2>3 DEF Answering, Waited
<1>6. CASE HandleSubmit(c, r)
  <2>1. UNCHANGED <<call, pubs>> /\ answer' = Null
    BY <1>6 DEF HandleSubmit, session
  <2>2. ~op'.sync /\ ~("readiness" \in op'.fields)
    BY <1>4, <1>6 DEF HandleSubmit
  <2> QED BY <1>1, <2>1, <2>2 DEF Answering, Waited
<1>7. CASE HandleGet(c, r)
  <2>1. UNCHANGED <<call, pubs, op>> /\ Answer(c, r.enabled, "operation", submitted, TRUE, 0)
        /\ submitted \in Results
    BY <1>7 DEF HandleGet, session, Inv, Typed, TypeOK
  <2>2. submitted.fields \in SUBSET Fields
    BY <2>1 DEF Results
  <2>3. answer'.fields = submitted.fields \ Stripped(r.enabled, TRUE) /\ answer'.enabled = r.enabled
        /\ answer'.kind = "operation"
    BY <2>1 DEF Answer
  <2>4. answer'.fields \subseteq answer'.enabled
    BY <2>2, <2>3, StrippedFits
  <2> QED BY <2>1, <2>3, <2>4 DEF Answering, Waited, AnswersFit, AnswerFitsClient, ReadsFailOnlyOvertaken
<1> QED BY <1>2, <1>3, <1>5, <1>6, <1>7 DEF Handle

LEMMA ClientsAnswer ==
  ASSUME Inv, Answering, GiveUp \/ \E c \in Clients : ReadGeneration(c)
  PROVE  Answering' /\ AnswersFit'
<1>0. /\ call \in [Clients -> Serving \cup {Null}]
      /\ pubs \in 0 .. MaxBuilds /\ (op # Null => op \in Operations)
  BY DEF Inv, Typed, TypeOK
<1>1. CASE GiveUp
  <2>1. /\ call' = [call EXCEPT ![Bridge] = Null] /\ UNCHANGED pubs /\ answer' = Null
        /\ op' = IF op = Null THEN Null ELSE Unheard(op)
    BY <1>1 DEF GiveUp, session
  <2>2. \A d \in Clients : call'[d] # Null /\ call'[d].reads => call'[d].saw <= pubs'
    BY <1>0, <2>1 DEF Answering
  <2>3. ASSUME op' # Null
        PROVE  Waited(op', call'[op'.client]) /\ ("readiness" \in op'.fields => op'.readiness)
    <3>1. op # Null /\ op' = Unheard(op) /\ op \in Operations
          /\ Waited(op, call[op.client]) /\ ("readiness" \in op.fields => op.readiness)
      BY <1>0, <2>1, <2>3 DEF Answering
    <3>2. CASE op.client = Bridge /\ op.sync
      BY <3>1, <3>2 DEF Unheard, Waited, Operations
    <3>3. CASE ~op.sync
      BY <3>1, <3>3 DEF Unheard, Waited
    <3>4. CASE op.client # Bridge
      BY <1>0, <2>1, <3>1, <3>4 DEF Unheard, Waited, Operations
    <3> QED BY <3>2, <3>3, <3>4
  <2> QED BY <2>1, <2>2, <2>3 DEF Answering, Waited, AnswersFit, AnswerFitsClient, ReadsFailOnlyOvertaken
<1>2. ASSUME NEW c \in Clients, ReadGeneration(c) PROVE Answering' /\ AnswersFit'
  <2>1. /\ call[c] # Null /\ call[c].reads /\ call' = [call EXCEPT ![c] = Null]
        /\ UNCHANGED <<op, pubs>>
    BY <1>2 DEF ReadGeneration, session
  <2>2. \A d \in Clients : call'[d] # Null /\ call'[d].reads => call'[d].saw <= pubs'
    BY <1>0, <2>1 DEF Answering
  <2>3. ASSUME op # Null
        PROVE  Waited(op, call'[op.client]) /\ ("readiness" \in op.fields => op.readiness)
    <3>1. Waited(op, call[op.client]) /\ ("readiness" \in op.fields => op.readiness) /\ op.client \in Clients
      BY <1>0, <2>3 DEF Answering, Operations
    <3>2. CASE op.client = c
      BY <2>1, <3>1, <3>2 DEF Waited
    <3>3. CASE op.client # c
      BY <1>0, <2>1, <3>1, <3>3 DEF Waited
    <3> QED BY <3>2, <3>3
  <2>4. Answering'
    BY <2>1, <2>2, <2>3 DEF Answering, Waited
  <2>5. /\ answer'.fields = {} \ Stripped(call[c].enabled, FALSE) /\ answer'.ok = OnDisk(call[c].saw)
        /\ answer'.behind = IF call[c].saw = 0 THEN Keep ELSE pubs - call[c].saw
    BY <1>2 DEF ReadGeneration, Answer
  <2>6. call[c].saw \in 0 .. pubs /\ Keep \in Nat /\ pubs \in Nat
    BY <1>0, <1>2, <2>1, KeepAssumption, BoundsAssumption DEF Answering, Serving
  <2>7. ~OnDisk(call[c].saw) => answer'.behind >= Keep
    BY <2>5, <2>6 DEF OnDisk
  <2> QED BY <2>4, <2>5, <2>7 DEF AnswersFit, AnswerFitsClient, ReadsFailOnlyOvertaken
<1> QED BY <1>1, <1>2

LEMMA WorkAnswers ==
  ASSUME Inv, Answering, Work
  PROVE  Answering' /\ AnswersFit'
<1>0. op # Null /\ op \in Operations /\ pubs \in 0 .. MaxBuilds /\ MaxBuilds \in Nat
  BY BoundsAssumption DEF Inv, Typed, TypeOK, Work, RunOther, SetGoals, BuildFails, Publish,
     AppendReadiness, DecideExport, Consume, Authorize, WriteForced, StartSlice, OpenFile,
     FinishFile, WriterSilent, Deliver, WorkerDies, Starts, At
<1>1. ASSUME NEW ok \in BOOLEAN, Done(ok) PROVE SameCaller
  BY <1>0, <1>1, DoneLeaves DEF Done, SameCaller, Operations, Leaves, Inv, Typed, TypeOK
<1>2. ASSUME NEW to \in Steps, Go(to) PROVE SameCaller
  BY <1>0, <1>2 DEF Go, SameCaller, Operations
<1>3. CASE Deliver
  <2>1. op' = Null /\ UNCHANGED pubs
    BY <1>3 DEF Deliver, session
  <2>2. CASE op.sync /\ op.heard
    <3>1. /\ call' = [call EXCEPT ![op.client] = Null]
          /\ Answer(op.client, call[op.client].enabled, "operation", Result, FALSE, 0)
      BY <1>3, <2>2 DEF Deliver
    <3>2. "readiness" \in op.fields => "readiness" \in call[op.client].enabled
      BY <1>0, <2>2 DEF Answering, Waited
    <3>3. Result.fields \in SUBSET Fields /\ ("readiness" \in Result.fields => "readiness" \in op.fields)
      BY <1>0 DEF Result, Operations
    <3>4. answer'.fields = Result.fields \ Stripped(call[op.client].enabled, FALSE)
          /\ answer'.enabled = call[op.client].enabled /\ answer'.kind = "operation"
      BY <3>1 DEF Answer
    <3>5. answer'.fields \subseteq answer'.enabled
      BY <3>2, <3>3, <3>4, StrippedFits
    <3>6. \A d \in Clients : call'[d] # Null /\ call'[d].reads => call'[d].saw <= pubs'
      BY <2>1, <3>1 DEF Answering, Inv, Typed, TypeOK
    <3> QED BY <2>1, <3>4, <3>5, <3>6 DEF Answering, AnswersFit, AnswerFitsClient, ReadsFailOnlyOvertaken
  <2>3. CASE ~(op.sync /\ op.heard)
    BY <1>3, <2>1, <2>3 DEF Deliver, Answering, AnswersFit, AnswerFitsClient, ReadsFailOnlyOvertaken
  <2> QED BY <2>2, <2>3
<1>4. ASSUME SameCaller, Quiet, pubs' = pubs \/ (pubs < MaxBuilds /\ pubs' = pubs + 1)
      PROVE  Answering' /\ AnswersFit'
  BY <1>0, <1>4, CallerKept DEF Quiet, connections
<1>5. CASE RunOther \/ SetGoals \/ BuildFails \/ Publish \/ WorkerDies
  BY <1>1, <1>2, <1>4, <1>5 DEF RunOther, SetGoals, BuildFails, Publish, WorkerDies, session, Steps
<1>6. CASE AppendReadiness
  <2>1. SameCaller
    <3>1. CASE op' = [op EXCEPT !.step = "done", !.ok = TRUE,
                       !.fields = {"publicationId"} \cup IF op.readiness THEN {"readiness"} ELSE {}]
      BY <1>0, <3>1 DEF SameCaller, Operations
    <3>2. CASE Done(FALSE)
      BY <1>1, <3>2
    <3> QED BY <1>6, <3>1, <3>2 DEF AppendReadiness
  <2> QED BY <1>4, <1>6, <2>1 DEF AppendReadiness, session
<1>7. CASE DecideExport \/ StartSlice \/ OpenFile \/ FinishFile
  BY <1>1, <1>2, <1>4, <1>7 DEF DecideExport, StartSlice, OpenFile, FinishFile, session, Steps
<1>8. CASE Consume
  <2>1. PICK told : op' = [op EXCEPT !.step = "told", !.told = told]
    BY <1>8 DEF Consume
  <2>2. SameCaller
    BY <1>0, <2>1 DEF SameCaller, Operations
  <2> QED BY <1>4, <1>8, <2>2 DEF Consume, session
<1>9. CASE Authorize \/ WriteForced
  BY <1>1, <1>2, <1>4, <1>9 DEF Authorize, WriteForced, session, Steps
<1>10. CASE WriterSilent
  <2>1. SameCaller
    BY <1>0, <1>10 DEF WriterSilent, SameCaller, Operations
  <2> QED BY <1>4, <1>10, <2>1 DEF WriterSilent, session
<1> QED BY <1>3, <1>5, <1>6, <1>7, <1>8, <1>9, <1>10 DEF Work

\* Every client gets an answer it understands, and a read gets one unless as many
\* publications as are kept came in between (_handle_line, _published_snapshot).
THEOREM AnswersAlwaysFit == Spec => []AnswersFit
<1>1. Init => Answering /\ AnswersFit
  BY DEF Init, Answering, AnswersFit, AnswerFitsClient, ReadsFailOnlyOvertaken
<1>2. Inv /\ Answering /\ AnswersFit /\ [Next]_vars => Answering' /\ AnswersFit'
  <2> SUFFICES ASSUME Inv, Answering, AnswersFit, [Next]_vars PROVE Answering' /\ AnswersFit'
    OBVIOUS
  <2>1. ASSUME UNCHANGED <<call, op, pubs>>, answer' = Null PROVE Answering' /\ AnswersFit'
    BY <2>1 DEF Answering, Waited, AnswersFit, AnswerFitsClient, ReadsFailOnlyOvertaken
  <2>2. CASE \/ \E b \in 1 .. pubs, f \in Formats : Issue(b, f)
             \/ \E n \in live : Expire(n)
    BY <2>1, <2>2 DEF Issue, Expire, Quiet, connections, session
  <2>3. CASE UNCHANGED vars
    BY <2>3 DEF vars, connections, session, Answering, Waited, AnswersFit, AnswerFitsClient,
       ReadsFailOnlyOvertaken
  <2> QED BY <2>2, <2>3, HandleAnswers, ClientsAnswer, WorkAnswers DEF Next
<1> QED BY <1>1, <1>2, InitEstablishesInv, NextKeepsInv, PTL DEF Spec

-----------------------------------------------------------------------------
(* Exports *)

\* A build that is on the way is no export.
Reporting == ExportedIsCurrent /\ (At("published") => op.kind = "build")

\* Nothing is reported of the file while the operation is under way.
LEMMA UnderWay ==
  ASSUME op' # Null => op'.step \notin {"done", "published"}
  PROVE  Reporting'
BY DEF Reporting, ExportedIsCurrent, At

\* A failure reports no file, nor does what is no export.
LEMMA DoneReports ==
  ASSUME op # Null, op \in Operations, NEW ok \in BOOLEAN, Done(ok),
         ok => op.kind \notin {"export", "slice"}
               \/ (file'.whole /\ file'.pub = pubs' /\ file'.format = op.format)
  PROVE  Reporting'
BY DEF Done, Reporting, ExportedIsCurrent, At, Operations

LEMMA WorkReports ==
  ASSUME Inv, Reporting, Work
  PROVE  Reporting' /\ ForcedIsWhole
<1>0. op # Null /\ op \in Operations
  BY DEF Inv, Typed, TypeOK, Work, RunOther, SetGoals, BuildFails, Publish, AppendReadiness,
     DecideExport, Consume, Authorize, WriteForced, StartSlice, OpenFile, FinishFile, WriterSilent,
     Deliver, WorkerDies, Starts, At
<1>1. ForcedIsWhole
  BY DEF ForcedIsWhole, Work, RunOther, SetGoals, BuildFails, Publish, AppendReadiness,
     DecideExport, Consume, Authorize, WriteForced, StartSlice, OpenFile, FinishFile, WriterSilent,
     Deliver, WorkerDies, At
<1> SUFFICES Reporting'
  BY <1>1
<1>2. ASSUME NEW to \in Steps \ {"done", "published"}, Go(to) PROVE Reporting'
  BY <1>0, <1>2, UnderWay DEF Go, Operations
<1>3. ASSUME Done(FALSE) PROVE Reporting'
  BY <1>0, <1>3, DoneReports
<1>4. CASE RunOther \/ SetGoals
  BY <1>0, <1>4, DoneReports DEF RunOther, SetGoals, Starts
<1>5. CASE BuildFails \/ WorkerDies
  BY <1>3, <1>5 DEF BuildFails, WorkerDies
<1>6. CASE Publish
  BY <1>0, <1>6 DEF Publish, Go, Starts, At, Reporting, ExportedIsCurrent, Operations
<1>7. CASE AppendReadiness
  <2>1. op.kind = "build"
    BY <1>7 DEF AppendReadiness, Reporting
  <2> QED BY <1>0, <1>3, <1>7, <2>1 DEF AppendReadiness, Reporting, ExportedIsCurrent, At, Operations
<1>8. CASE DecideExport \/ StartSlice
  BY <1>2, <1>3, <1>8 DEF DecideExport, StartSlice, Steps
<1>9. CASE Consume
  BY <1>0, <1>9, UnderWay DEF Consume, Operations
<1>10. CASE Authorize
  BY <1>2, <1>3, <1>10 DEF Authorize, Steps
<1>11. ASSUME NEW nonce, file' = Written(nonce, TRUE), UNCHANGED session, Done(TRUE) PROVE Reporting'
  BY <1>0, <1>11, DoneReports DEF Written, session
<1>12. CASE WriteForced \/ FinishFile
  BY <1>3, <1>11, <1>12 DEF WriteForced, FinishFile, session
<1>13. CASE OpenFile
  BY <1>2, <1>3, <1>13 DEF OpenFile, Steps
<1>14. CASE WriterSilent
  BY <1>0, <1>14 DEF WriterSilent, Reporting, ExportedIsCurrent, At, Operations
<1>15. CASE Deliver
  BY <1>15, UnderWay DEF Deliver
<1> QED BY <1>1, <1>4, <1>5, <1>6, <1>7, <1>8, <1>9, <1>10, <1>12, <1>13, <1>14, <1>15 DEF Work

LEMMA OthersReport ==
  ASSUME Inv, Reporting,
         \/ \E c \in Clients : \E r \in Calls(c) : Handle(c, r)
         \/ \E c \in Clients : ReadGeneration(c)
         \/ GiveUp
         \/ \E b \in 1 .. pubs, f \in Formats : Issue(b, f)
         \/ \E n \in live : Expire(n)
         \/ UNCHANGED vars
  PROVE  Reporting' /\ ForcedIsWhole
<1>0. op # Null => op \in Operations
  BY DEF Inv, Typed, TypeOK
<1>1. UNCHANGED <<file, pubs>>
  BY DEF Handle, HandleAtOnce, HandleRead, HandleSync, HandleSubmit, HandleGet, ReadGeneration, GiveUp,
     Issue, Expire, Quiet, session, vars
<1>2. ForcedIsWhole
  BY <1>1 DEF ForcedIsWhole
<1> SUFFICES Reporting'
  BY <1>2
<1>3. CASE op' = op
  BY <1>1, <1>3 DEF Reporting, ExportedIsCurrent, At
<1>4. ASSUME NEW c \in Clients, NEW r \in Calls(c), Start(c, r) PROVE Reporting'
  <2>1. PICK nonce, format : op' = Operation(c, r, nonce, format)
    BY <1>4 DEF Start
  <2>2. op'.step = "start"
    BY <2>1 DEF Operation
  <2> QED BY <2>2, UnderWay
<1>5. CASE GiveUp
  <2>1. op' = IF op = Null THEN Null ELSE Unheard(op)
    BY <1>5 DEF GiveUp
  <2>2. CASE op # Null /\ op' = [op EXCEPT !.heard = FALSE]
    BY <1>0, <1>1, <2>2 DEF Reporting, ExportedIsCurrent, At, Operations
  <2> QED BY <1>3, <2>1, <2>2 DEF Unheard
<1> QED
  BY <1>2, <1>3, <1>4, <1>5 DEF Handle, HandleAtOnce, HandleRead, HandleSync, HandleSubmit, HandleGet,
     ReadGeneration, Issue, Expire, vars

\* What is at the destination is replaced at once by a forced export, and is whole and
\* current when a call reports an export done (exports.export, atomic_finalize).
THEOREM ExportsAreWhole == Spec => ExportsWhole
<1>1. Init => Reporting
  BY DEF Init, Reporting, ExportedIsCurrent, At
<1>2. Inv /\ Reporting /\ [Next]_vars => Reporting' /\ ForcedIsWhole
  BY WorkReports, OthersReport DEF Next
<1>3. Inv /\ Reporting /\ [Next]_vars => [ExportedIsCurrent' /\ ForcedIsWhole]_vars
  BY <1>2 DEF Reporting
<1>4. Inv /\ Reporting /\ [Next]_vars => Reporting'
  BY <1>2
<1> QED BY <1>1, <1>3, <1>4, InitEstablishesInv, NextKeepsInv, PTL DEF Spec, ExportsWhole
=============================================================================
