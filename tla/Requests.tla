------------------------------- MODULE Requests -------------------------------
(***************************************************************************)
(* Calls of the engine, from the line on the socket to the answer          *)
(* (server.py, solidifai_mcp/server.py), and the export they may end in    *)
(* (session.export, exports.py, export_policy.py, control.py, and the      *)
(* authority of the host, override_authority.rs).                          *)
(*                                                                         *)
(* A connection has a thread of its own.  It answers a parent read by      *)
(* itself, in two reads of the disk, while the writer works; everything    *)
(* else is for the writer, one operation at a time.  The deque it may wait *)
(* in is OperationQueue's and the worker EngineWriter's: here a call finds *)
(* the writer free, and a worker may die.  A strict client gets a file of  *)
(* a design that is not ready only with a nonce of the host.               *)
(***************************************************************************)
EXTENDS Surface, Sequences

CONSTANTS
  Null,
  Clients,      \* connections
  Bridge,       \* the one of the agents' tools
  Hellos,       \* what the others say of themselves
  Methods,      \* what they call
  Formats,
  Slicer,       \* the format fab_open hands over
  Keep,         \* prune_publications: generations kept
  MaxBuilds,    \* bound: publications
  MaxNonces     \* bound: nonces issued

ASSUME ClientsAssumption == Bridge \in Clients /\ Methods \subseteq Handlers /\ Slicer \in Formats
ASSUME KeepAssumption == Keep \in Nat \ {0}
ASSUME BoundsAssumption ==
  MaxBuilds \in Nat /\ MaxNonces \in Nat /\ Null \notin 1 .. MaxNonces

VARIABLES
  call,      \* per connection: Null, or the call its thread serves
  answer,    \* the answer this step has given, when it carries anything, or Null
  submitted, \* the operation submitted last, or Null (a bound: one at a time)
  op,        \* the operation the writer executes, or Null
  pubs,      \* publications made; the last one is current
  build,     \* the session: its build counter, 0 without a model
  ready,     \* get_readiness
  file,      \* what is at the destination of the exports, or Null
  issued,    \* nonces: what they were issued for
  live,      \* the ones the host still holds
  audit      \* export-overrides.jsonl

connections == <<call, submitted>>
session == <<pubs, build, ready>>
override == <<issued, live, audit>>
vars == <<connections, answer, op, session, file, override>>

Fields == {"publicationId", "readiness"}
Nonces == 1 .. MaxNonces
Scopes == [build : 1 .. MaxBuilds, format : Formats]
Steps == {"start", "published", "asking", "told", "authorized", "writing", "flushing", "done"}
Operations ==
  [client : Clients, kind : {"read", "lookup", "build", "goals", "export", "slice", "other"}, sync : BOOLEAN, strict : BOOLEAN, negotiated : BOOLEAN,
   readiness : BOOLEAN,
   nonce : Nonces \cup {Null}, format : Formats, heard : BOOLEAN,
   step : Steps, ok : BOOLEAN, silent : BOOLEAN, told : BOOLEAN,
   fields : SUBSET Fields]
Files ==
  [pub : 1 .. MaxBuilds, format : Formats, whole : BOOLEAN, forcedBy : Nonces \cup {Null},
   blocked : BOOLEAN]
Unfinished == [live |-> TRUE]
Results == [ok : BOOLEAN, fields : SUBSET Fields]
Serving == [reads : BOOLEAN, enabled : SUBSET Fields, saw : 0 .. MaxBuilds]

\* None is none of them.
ASSUME NullAssumption == Null \notin Operations /\ Null \notin Serving

TypeOK ==
  /\ call \in [Clients -> Serving \cup {Null}]
  /\ submitted \in {Null, Unfinished} \cup Results
  /\ op # Null => op \in Operations
  /\ pubs \in 0 .. MaxBuilds /\ build \in 0 .. pubs /\ ready \in BOOLEAN
  /\ file \in Files \cup {Null}
  /\ issued \in Seq(Scopes) /\ live \subseteq DOMAIN issued

Init ==
  /\ call = [c \in Clients |-> Null] /\ answer = Null
  /\ submitted = Null
  /\ op = Null
  /\ pubs = 0 /\ build = 0 /\ ready = FALSE
  /\ file = Null
  /\ issued = <<>> /\ live = {} /\ audit = <<>>

-----------------------------------------------------------------------------
\* _handle_line and _dispatch.

\* target is what the policy is about: for a submission, the method inside.
\* valid: _validate_operation_params finds nothing to refuse.
Request(method, target, hello, private, v2, valid) ==
  [method |-> method, target |-> target, hello |-> hello, private |-> private, v2 |-> v2,
   valid |-> valid]

NeedsBriefV2(r) == r.target = "update_build_brief" \/ (r.target = "propose_build" /\ r.v2)

\* What the server refuses before a handler sees it.
Refused(r) ==
  \/ ~Compatible(r.hello) \/ r.method \notin Handlers
  \/ NeedsBriefV2(r) /\ "build_brief_v2" \notin Enabled(r.hello)
  \/ r.method \in OperationMethods /\ "operations" \notin Enabled(r.hello)
  \/ r.method = "submit_operation" /\ (r.target \notin AsyncMethods \/ r.private)
  \/ r.method \notin ParentReads /\ ~r.valid

Route(r) ==
  IF Refused(r) THEN "refused"
  ELSE IF r.method \in OperationMethods THEN r.method
  ELSE IF r.method \in ParentReads THEN Kind(r.method) ELSE "sync"

\* What a client with these capabilities understands.
FieldsFor(enabled) ==
  {f \in Fields : (IF f = "readiness" THEN "readiness" ELSE "publication_metadata") \in enabled}

\* The result inside an operation keeping its publication.
M_Stripped(enabled, nested) == {IF nested THEN "readiness" ELSE "publicationId"} \ enabled

\* Fields an answer of this method may not have for this client.
Stripped(enabled, nested) ==
  ({"publicationId"} \cup IF nested THEN {"readiness"} ELSE {}) \ enabled

Answer(c, enabled, kind, result, nested, behind) ==
  answer' = [client |-> c, kind |-> kind, ok |-> result.ok, enabled |-> enabled,
             fields |-> result.fields \ Stripped(enabled, nested), behind |-> behind]

Failure == [ok |-> FALSE, fields |-> {}]

\* The server's own word on this private parameter replaces what a client says of it.
StrictExport(r) == r.target = "export" /\ "strict_export" \in Enabled(r.hello)

\* What goes on to a handler; negotiated is not code, it keeps what the client asked for.
\* The bridge's export has no parameter for a nonce.
Dispatched(r, mayForce) ==
  [route |-> Route(r), kind |-> Kind(r.target),
   strict |-> StrictExport(r),
   negotiated |-> r.target = "export" /\ "strict_export" \in Enabled(r.hello),
   readiness |-> Kind(r.target) = "build" /\ "readiness" \in Enabled(r.hello),
   enabled |-> FieldsFor(Enabled(r.hello)),
   mayForce |-> mayForce]

ToolCalls ==
  {Dispatched(Request(t, t, BridgeHello, FALSE, TRUE, valid), FALSE) :
     t \in Tools \ OperationMethods, valid \in BOOLEAN}
  \cup {Dispatched(Request(o, m, BridgeHello, private, TRUE, TRUE), TRUE) :
         o \in OperationMethods, m \in Handlers, private \in BOOLEAN}

ClientCalls ==
  {Dispatched(Request(m, m, hello, private, v2, TRUE), TRUE) :
     m \in Methods, hello \in Hellos, private \in BOOLEAN, v2 \in BOOLEAN}
  \cup {Dispatched(Request("submit_operation", m, hello, private, v2, TRUE), TRUE) :
         m \in Methods, hello \in Hellos, private \in BOOLEAN, v2 \in BOOLEAN}

Calls(c) == IF c = Bridge THEN ToolCalls ELSE ClientCalls

Idle(c) == call[c] = Null

\* Refused, or answered from what the parent knows.
HandleAtOnce(c, r) ==
  /\ Idle(c) /\ r.route \in {"refused", "lookup"}
  /\ answer' = Null
  /\ UNCHANGED <<call, submitted, op, session, file, override>>

\* _published_snapshot reads the pointer first ...
HandleRead(c, r) ==
  /\ Idle(c) /\ r.route = "read"
  /\ call' = [call EXCEPT ![c] = [reads |-> TRUE, enabled |-> r.enabled, saw |-> pubs]]
  /\ answer' = Null
  /\ UNCHANGED <<submitted, op, session, file, override>>

OnDisk(n) == n \in 1 .. pubs /\ n > pubs - Keep

\* ... and then the generation it names, which may have been pruned.
ReadGeneration(c) ==
  /\ call[c] # Null /\ call[c].reads
  /\ Answer(c, call[c].enabled, "read",
            [ok |-> OnDisk(call[c].saw), fields |-> {}],
            FALSE, IF call[c].saw = 0 THEN Keep ELSE pubs - call[c].saw)
  /\ call' = [call EXCEPT ![c] = Null]
  /\ UNCHANGED <<submitted, op, session, file, override>>

\* Everything else waits for the writer.
Operation(c, r, nonce, format) ==
  [client |-> c, kind |-> r.kind, sync |-> r.route = "sync", strict |-> r.strict, negotiated |-> r.negotiated,
   readiness |-> r.readiness, nonce |-> nonce, format |-> format, heard |-> TRUE,
   step |-> "start", ok |-> FALSE, silent |-> FALSE, told |-> FALSE, fields |-> {}]

Start(c, r) ==
  /\ op = Null
  /\ \E nonce \in IF r.kind = "export" /\ r.mayForce THEN DOMAIN issued \cup {Null} ELSE {Null},
        format \in IF r.kind = "export" THEN Formats ELSE {Slicer} :
       op' = Operation(c, r, nonce, format)

HandleSync(c, r) ==
  /\ Idle(c) /\ r.route = "sync"
  /\ Start(c, r)
  /\ call' = [call EXCEPT ![c] = [reads |-> FALSE, enabled |-> r.enabled, saw |-> 0]]
  /\ answer' = Null
  /\ UNCHANGED <<submitted, session, file, override>>

HandleSubmit(c, r) ==
  /\ Idle(c) /\ r.route = "submit_operation" /\ submitted # Unfinished
  /\ Start(c, r)
  /\ submitted' = Unfinished
  /\ answer' = Null
  /\ UNCHANGED <<call, session, file, override>>

\* get_operation, of an operation of any client.
HandleGet(c, r) ==
  /\ Idle(c) /\ r.route = "get_operation" /\ submitted \notin {Null, Unfinished}
  /\ Answer(c, r.enabled, "operation", submitted, TRUE, 0)
  /\ UNCHANGED <<call, submitted, op, session, file, override>>

Unheard(o) == IF o.client = Bridge /\ o.sync THEN [o EXCEPT !.heard = FALSE] ELSE o

\* forward: the bridge waits so long and tells its agent to retry; the operation goes on.
GiveUp ==
  /\ call[Bridge] # Null
  /\ call' = [call EXCEPT ![Bridge] = Null]
  /\ op' = IF op = Null THEN Null ELSE Unheard(op)
  /\ answer' = Null
  /\ UNCHANGED <<submitted, session, file, override>>

-----------------------------------------------------------------------------
\* _execute_operation, one operation at a time.
Quiet == answer' = Null /\ UNCHANGED connections
At(step) == op # Null /\ op.step = step
Starts(kind) == At("start") /\ op.kind = kind
Go(step) == op' = [op EXCEPT !.step = step]
Done(ok) == op' = [op EXCEPT !.step = "done", !.ok = ok]

RunOther ==
  /\ Starts("other")
  /\ \E ok \in BOOLEAN : Done(ok)
  /\ Quiet /\ UNCHANGED <<session, file, override>>

SetGoals ==
  /\ Starts("goals")
  /\ \E r \in BOOLEAN : ready' = r
  /\ Done(TRUE)
  /\ Quiet /\ UNCHANGED <<pubs, build, file, override>>

BuildFails ==
  /\ Starts("build")
  /\ Done(FALSE)
  /\ Quiet /\ UNCHANGED <<session, file, override>>

Publish ==
  /\ Starts("build") /\ pubs < MaxBuilds
  /\ pubs' = pubs + 1 /\ build' = build + 1
  /\ \E r \in BOOLEAN : ready' = r
  /\ Go("published")
  /\ Quiet /\ UNCHANGED <<file, override>>

\* The readiness of what was published goes with it; evaluating it may raise.
AppendReadiness ==
  /\ At("published")
  /\ \/ op' = [op EXCEPT !.step = "done", !.ok = TRUE,
                          !.fields = {"publicationId"} \cup IF op.readiness THEN {"readiness"} ELSE {}]
     \/ op.readiness /\ Done(FALSE)
  /\ Quiet /\ UNCHANGED <<session, file, override>>

-----------------------------------------------------------------------------
\* session.export.
MayExport == ready \/ ~op.strict

DecideExport ==
  /\ Starts("export")
  /\ \/ build = 0 /\ Done(FALSE)
     \/ build > 0 /\ MayExport /\ Go("writing")
     \/ build > 0 /\ ~MayExport /\ op.nonce = Null /\ Done(FALSE)
     \/ build > 0 /\ ~MayExport /\ op.nonce # Null /\ Go("asking")
  /\ Quiet /\ UNCHANGED <<session, file, override>>

Matches(n, b, f) == n \in live /\ issued[n] = [build |-> b, format |-> f]

\* A match that leaves the nonce with the host.
M_Consume ==
  /\ At("asking")
  /\ \E told \in {FALSE, Matches(op.nonce, build, op.format)} :
       op' = [op EXCEPT !.step = "told", !.told = told]
  /\ Quiet /\ UNCHANGED <<session, file, override>>

\* The host takes the nonce if it is for this build and format; its answer may be lost.
Consume ==
  /\ At("asking")
  /\ LET match == Matches(op.nonce, build, op.format)
     IN /\ live' = IF match THEN live \ {op.nonce} ELSE live
        /\ \E told \in {FALSE, match} : op' = [op EXCEPT !.step = "told", !.told = told]
  /\ Quiet /\ UNCHANGED <<session, file, issued, audit>>

Record(outcome) == [nonce |-> op.nonce, build |-> build, format |-> op.format, outcome |-> outcome]

\* No file without the record of its authorization; one that cannot be written refuses.
Authorize ==
  /\ At("told")
  /\ \/ /\ op.told
        /\ audit' = Append(audit, Record("authorized"))
        /\ Go("authorized")
     \/ audit' = audit /\ Done(FALSE)
  /\ Quiet /\ UNCHANGED <<session, file, issued, live>>

\* blocked: an export, for a strict client, of a design not ready.
Written(nonce, whole) ==
  [pub |-> pubs, format |-> op.format, whole |-> whole, forcedBy |-> nonce,
   blocked |-> op.kind = "export" /\ op.negotiated /\ ~ready]

\* The file written in place, and found short.
M_WriteForced ==
  /\ At("authorized")
  /\ \/ file' = Written(op.nonce, TRUE) /\ Done(TRUE)
     \/ file' = Written(op.nonce, FALSE) /\ Done(FALSE)
  /\ Quiet /\ UNCHANGED <<session, override>>

\* The writer fills a temporary file; an empty one counts as a failure.
WriteForced ==
  /\ At("authorized")
  /\ \/ file' = Written(op.nonce, TRUE) /\ Done(TRUE) /\ audit' = audit
     \/ /\ file' = file /\ Done(FALSE)
        /\ audit' \in {audit, Append(audit, Record("failed"))}
  /\ Quiet /\ UNCHANGED <<session, issued, live>>

StartSlice ==
  /\ Starts("slice")
  /\ \/ build = 0 /\ Done(FALSE)
     \/ build > 0 /\ Go("writing")
  /\ Quiet /\ UNCHANGED <<session, file, override>>

\* Any other export is written in place.
OpenFile ==
  /\ At("writing")
  /\ \/ file' = Written(Null, FALSE) /\ Go("flushing")
     \/ file' = file /\ Done(FALSE)   \* options or objects it cannot write
  /\ Quiet /\ UNCHANGED <<session, override>>

FinishFile ==
  /\ At("flushing")
  /\ \/ file' = Written(Null, TRUE) /\ Done(TRUE)
     \/ file' = file /\ Done(FALSE)
  /\ Quiet /\ UNCHANGED <<session, override>>

\* Writers that fail without raising: what counts is that something is there.
WriterSilent ==
  /\ At("writing") \/ At("flushing")
  /\ op' = [op EXCEPT !.step = "done", !.ok = file # Null, !.silent = TRUE]
  /\ Quiet /\ UNCHANGED <<session, file, override>>

-----------------------------------------------------------------------------
Result == [ok |-> op.ok, fields |-> IF op.ok THEN op.fields ELSE {}]

Deliver ==
  /\ At("done")
  /\ IF op.sync /\ op.heard
     THEN /\ Answer(op.client, call[op.client].enabled, "operation", Result, FALSE, 0)
          /\ call' = [call EXCEPT ![op.client] = Null]
     ELSE answer' = Null /\ UNCHANGED call
  /\ submitted' = IF op.sync THEN submitted ELSE Result
  /\ op' = Null
  /\ UNCHANGED <<session, file, override>>

\* The worker crashes, overruns or is killed for a cancellation; the next one builds
\* the model again, from its first build number, or comes up without one.
WorkerDies ==
  /\ op # Null /\ ~At("done")
  /\ Done(FALSE)
  /\ \/ build' = 0 /\ ready' = FALSE /\ pubs' = pubs
     \/ /\ 0 < pubs /\ pubs < MaxBuilds
        /\ build' = 1 /\ ready' \in BOOLEAN /\ pubs' = pubs + 1
  /\ Quiet /\ UNCHANGED <<file, override>>

-----------------------------------------------------------------------------
\* The host.
Issue(b, f) ==
  /\ Len(issued) < MaxNonces
  /\ issued' = Append(issued, [build |-> b, format |-> f])
  /\ live' = live \cup {Len(issued) + 1}
  /\ Quiet /\ UNCHANGED <<op, session, file, audit>>

Expire(n) ==
  /\ live' = live \ {n}
  /\ Quiet /\ UNCHANGED <<op, session, file, issued, audit>>

Handle(c, r) ==
  \/ HandleAtOnce(c, r) \/ HandleRead(c, r) \/ HandleSync(c, r)
  \/ HandleSubmit(c, r) \/ HandleGet(c, r)

Work ==
  \/ RunOther \/ SetGoals \/ BuildFails \/ Publish \/ AppendReadiness
  \/ DecideExport \/ Consume \/ Authorize \/ WriteForced \/ StartSlice \/ OpenFile
  \/ FinishFile \/ WriterSilent \/ Deliver \/ WorkerDies

Next ==
  \/ \E c \in Clients : \E r \in Calls(c) : Handle(c, r)
  \/ \E c \in Clients : ReadGeneration(c)
  \/ GiveUp
  \/ Work
  \/ \E b \in 1 .. pubs, f \in Formats : Issue(b, f)
  \/ \E n \in live : Expire(n)

Spec == Init /\ [][Next]_vars

-----------------------------------------------------------------------------
Authorizations == {i \in DOMAIN audit : audit[i].outcome = "authorized"}

\* A file that was forced out has its record, of this build and format, with a nonce
\* the host had issued for them and no longer holds; no nonce is recorded twice
\* (session.export, verify_override, OverrideAuthority.consume).
ForcedIsAuthorized ==
  /\ file # Null /\ file.forcedBy # Null =>
       \E i \in Authorizations : audit[i].nonce = file.forcedBy /\ audit[i].format = file.format
  /\ \A i \in Authorizations :
       /\ audit[i].nonce \notin live
       /\ issued[audit[i].nonce] = [build |-> audit[i].build, format |-> audit[i].format]
       /\ \A j \in Authorizations : audit[i].nonce = audit[j].nonce => i = j

\* Whichever way the call came, and whatever it said of the policy itself, a strict
\* client gets a file only of a design that was ready or that was authorized.
BlockedStaysOut == file # Null /\ file.blocked => file.forcedBy # Null

\* A forced export replaces the file at once or leaves it as it was, also when the
\* worker dies or the writer fails (tempfile and atomic_finalize).
ForcedIsWhole ==
  At("authorized") => file' = file \/ file' = Written(op.nonce, TRUE)

\* An export that is reported done has put the current model, whole, at its
\* destination, unless its writer failed without saying so (exports.export).
ExportedIsCurrent ==
  At("done") /\ op.ok /\ ~op.silent /\ op.kind \in {"export", "slice"} =>
    file.whole /\ file.pub = pubs /\ file.format = op.format

\* No answer carries what its client has not negotiated, the answer to a client that
\* asks for another one's operation included (_handle_line).
AnswerFitsClient ==
  answer # Null => answer.fields \subseteq answer.enabled

\* A read that passes the writer, in two reads of the disk, fails only when as many
\* publications as are kept came in between (_published_snapshot, prune_publications).
ReadsFailOnlyOvertaken ==
  answer # Null /\ answer.kind = "read" /\ ~answer.ok => answer.behind >= Keep

\* Nothing leaves a strict session unauthorized, by whatever route it is asked.
ExportsAuthorized == TypeOK /\ ForcedIsAuthorized /\ BlockedStaysOut

\* What is at the destination is whole, and current when a call reports it.
ExportsWhole == [][ExportedIsCurrent' /\ ForcedIsWhole]_vars

\* Every client gets an answer it understands, and a read gets one at all.
AnswersFit == AnswerFitsClient /\ ReadsFailOnlyOvertaken
=============================================================================
