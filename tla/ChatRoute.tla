----------------------------- MODULE ChatRoute -----------------------------
(***************************************************************************)
(* The life of a request: the metrics and request-id middlewares, the      *)
(* route of gateway/api/chat.py, the relay of gateway/streaming/relay.py,  *)
(* the error handlers, and the lifespan of gateway/app.py that stops       *)
(* admission, the batcher and the backend one after the other while        *)
(* requests run.                                                           *)
(*                                                                         *)
(* Admission, batcher and backend pool are seen through what they do to a  *)
(* request (modules Admission, Batcher and BackendPool): a slot of a       *)
(* bounded set, the dispatch of its batch, and an answer or a coded error. *)
(* A task may be cancelled at any await, also at an await of its own       *)
(* cancellation handler: the server and the task groups of the framework   *)
(* cancel again and again.                                                 *)
(*                                                                         *)
(* RequestIDMiddleware is a BaseHTTPMiddleware: when the response within   *)
(* it returns, however it ended, it sends a last body message of its own.  *)
(***************************************************************************)
EXTENDS Integers, FiniteSets, Sequences

CONSTANTS
  Reqs,              \* the requests
  Ask,               \* Ask[r]: whether request r streams, and its n
  GlobalMaxInflight, \* global_max_inflight
  BatchingEnabled    \* dynamic_batching_enabled

ASSUME RouteAssumption ==
  /\ IsFiniteSet(Reqs)
  /\ Ask \in [Reqs -> [stream : BOOLEAN, n : Nat \ {0}]]
  /\ GlobalMaxInflight \in Nat \ {0}
  /\ BatchingEnabled \in BOOLEAN

VARIABLES
  pc,          \* where the task of the request is
  lease,       \* its admission lease; "orphaned" when acquire raised over it
  batch,       \* the batch that an eligible request is a member of
  upstream,    \* its backend stream; "abandoned" when the event loop closes it
  status,      \* the status of the response that was started; 0 before
  outcome,     \* request.state.stream_outcome
  interrupted, \* what made the response give up its relay
  recorded,    \* the outcomes record_request got for it
  errors,      \* how often record_error counted it
  accounted,   \* how often its token coverage was recorded
  lifespan,    \* how far the lifespan is
  ready        \* app.state.ready

tasks == <<pc, lease, batch, upstream, status, outcome, interrupted>>
counts == <<recorded, errors, accounted>>
app == <<lifespan, ready>>
vars == <<tasks, counts, app>>

\* A task awaits admission, a backend call, the opening of a stream, the next
\* chunk (pulling), the client (pushing, sending), or the close of its stream
\* (closing); it is returning when its last byte is sent.
Places == {"idle", "admitting", "calling", "opening", "pulling", "pushing",
           "closing", "sending", "returning", "done"}
StreamOutcomes == {"completed", "cancelled", "upstream_error"}
Phases == {"starting", "serving", "admission", "batcher", "backend", "down"}

Init ==
  /\ pc = [r \in Reqs |-> "idle"]
  /\ lease = [r \in Reqs |-> "none"]
  /\ batch = [r \in Reqs |-> "none"]
  /\ upstream = [r \in Reqs |-> "none"]
  /\ status = [r \in Reqs |-> 0]
  /\ outcome = [r \in Reqs |-> "none"]
  /\ interrupted = [r \in Reqs |-> "none"]
  /\ recorded = [r \in Reqs |-> << >>]
  /\ errors = [r \in Reqs |-> 0]
  /\ accounted = [r \in Reqs |-> 0]
  /\ lifespan = "starting" /\ ready = FALSE

-----------------------------------------------------------------------------
(***************************************************************************)
(* Components.  A component is closed from when the lifespan stops it.     *)
(***************************************************************************)
AdmissionClosed == lifespan \in {"admission", "batcher", "backend", "down"}
BatcherClosed == lifespan \in {"batcher", "backend", "down"}
BackendClosed == lifespan \in {"backend", "down"}

\* the requests whose lease takes a slot
Holding == {r \in Reqs : lease[r] \in {"held", "orphaned"}}

\* batching_eligibility
Eligible(r) == BatchingEnabled /\ ~Ask[r].stream /\ Ask[r].n = 1

\* The status of each error class.  A request the server rejects keeps the
\* server's 400, 404 or 422; 400 stands for the three.
StatusOf ==
  [invalid_request |-> 400, backend_request_rejected |-> 400, unauthorized |-> 401,
   tenant_queue_full |-> 429, gateway_queue_full |-> 429, admission_timeout |-> 429,
   backend_capability_unsupported |-> 501, backend_protocol_error |-> 502,
   backend_http_error |-> 502, backend_configuration_error |-> 502,
   backend_unavailable |-> 503, no_healthy_backend |-> 503,
   admission_unavailable |-> 503, batching_unavailable |-> 503,
   backend_timeout |-> 504]

\* what the leaf backend's answer can become
LeafErrors == {"backend_request_rejected", "backend_protocol_error", "backend_http_error",
               "backend_configuration_error", "backend_unavailable", "backend_timeout"}

\* the errors admission, batcher or pool and leaf can end a request with
AdmissionErrors == {"admission_timeout"} \cup
                   IF AdmissionClosed THEN {"admission_unavailable"}
                                      ELSE {"tenant_queue_full", "gateway_queue_full"}
CallErrors(r) == LeafErrors \cup {"no_healthy_backend"}
                 \cup IF Eligible(r) /\ BatcherClosed THEN {"batching_unavailable"} ELSE {}

-----------------------------------------------------------------------------
(***************************************************************************)
(* What the steps of a request share.                                      *)
(***************************************************************************)
\* GatewayMetrics: record_request, record_error and record_token_accounting
RecordRequest(r, o) == recorded' = [recorded EXCEPT ![r] = Append(@, o)]
RecordError(r) == errors' = [errors EXCEPT ![r] = @ + 1]
RecordTokenAccounting(r, k) == accounted' = [accounted EXCEPT ![r] = @ + k]

\* Mutation: every path through the middleware records.
FinalizeAgain(r, o) == RecordRequest(r, o)

\* finalize of the middleware: the first outcome counts
Finalize(r, o) == IF recorded[r] = << >> THEN RecordRequest(r, o) ELSE UNCHANGED recorded

\* Mutation: the outcome of a stream is recorded as it is.
OutcomeOfStream(r) ==
  IF outcome[r] # "none" THEN outcome[r]
  ELSE IF status[r] >= 400 THEN "error" ELSE "completed"

\* the middleware's outcome of a response whose last body message was sent
OutcomeOf(r) ==
  IF outcome[r] = "cancelled" THEN "cancelled"
  ELSE IF outcome[r] = "upstream_error" \/ status[r] >= 400 THEN "error"
  ELSE "completed"

\* release of a lease, by admit, by the route or by the relay
ReleaseLease(r) ==
  lease' = [lease EXCEPT ![r] = IF @ = "held" THEN "released" ELSE @]

Goto(r, place) == pc' = [pc EXCEPT ![r] = place]

\* gateway_error_handler and request_validation_error_handler: the error is
\* counted and its JSON response is on its way
Respond(r, code) ==
  /\ RecordError(r)
  /\ status' = [status EXCEPT ![r] = StatusOf[code]]
  /\ Goto(r, "sending")

\* unexpected_error_handler runs outside the middleware, which records first
Unexpected(r) ==
  /\ RecordError(r)
  /\ status' = [status EXCEPT ![r] = 500]
  /\ Finalize(r, "error")
  /\ Goto(r, "done")

-----------------------------------------------------------------------------
(***************************************************************************)
(* create_chat_completion.                                                 *)
(***************************************************************************)
\* The credentials, the body and the limits of a request are its input: it is
\* found valid and asks for admission,
Accept(r) ==
  /\ pc[r] = "idle" /\ lifespan # "starting"
  /\ Goto(r, "admitting")
  /\ UNCHANGED <<lease, batch, upstream, status, outcome, interrupted, counts, app>>

\* or authenticate_tenant refuses it,
AuthenticationFails(r) ==
  /\ pc[r] = "idle" /\ lifespan # "starting"
  /\ Respond(r, "unauthorized")
  /\ UNCHANGED <<lease, batch, upstream, outcome, interrupted, recorded, accounted, app>>

\* or the JSON parser, the schema or _enforce_configured_limits does,
Reject(r) ==
  /\ pc[r] = "idle" /\ lifespan # "starting"
  /\ Respond(r, "invalid_request")
  /\ UNCHANGED <<lease, batch, upstream, outcome, interrupted, recorded, accounted, app>>

\* or its body cannot be decoded, or ends with the connection: the framework
\* raises an HTTPException, for which no handler is registered, and answers
\* 400 itself
Unreadable(r) ==
  /\ pc[r] = "idle" /\ lifespan # "starting"
  /\ status' = [status EXCEPT ![r] = 400]
  /\ Goto(r, "sending")
  /\ UNCHANGED <<lease, batch, upstream, outcome, interrupted, counts, app>>

\* admission grants a slot, at once or to the future of the waiting task,
Grant(r) ==
  /\ pc[r] = "admitting" /\ lease[r] = "none"
  /\ ~AdmissionClosed /\ Cardinality(Holding) < GlobalMaxInflight
  /\ lease' = [lease EXCEPT ![r] = "held"]
  /\ UNCHANGED <<pc, batch, upstream, status, outcome, interrupted, counts, app>>

\* and acquire returns it: the request goes to the batcher or the backend
Admit(r) ==
  /\ pc[r] = "admitting" /\ lease[r] = "held"
  /\ Goto(r, IF Ask[r].stream THEN "opening" ELSE "calling")
  /\ UNCHANGED <<lease, batch, upstream, status, outcome, interrupted, counts, app>>

\* Or acquire raises.  When the queue timeout fires between the grant and the
\* resumption of the task, nobody gets the lease.
AdmissionFails(r) ==
  /\ pc[r] = "admitting"
  /\ \E code \in IF lease[r] = "held" THEN {"admission_timeout"} ELSE AdmissionErrors :
       Respond(r, code)
  /\ lease' = [lease EXCEPT ![r] = IF @ = "held" THEN "orphaned" ELSE @]
  /\ UNCHANGED <<batch, upstream, outcome, interrupted, recorded, accounted, app>>

-----------------------------------------------------------------------------
(***************************************************************************)
(* The call of the batcher or the backend.                                 *)
(***************************************************************************)
\* the batcher detaches the batch of the request and sends it to the backend
DispatchBatch(r) ==
  /\ pc[r] = "calling" /\ Eligible(r)
  /\ batch[r] = "none" /\ ~BatcherClosed
  /\ batch' = [batch EXCEPT ![r] = "dispatched"]
  /\ UNCHANGED <<pc, lease, upstream, status, outcome, interrupted, counts, app>>

\* the batch is answered, fails or is cancelled by shutdown; a member that
\* was cancelled meanwhile gets nothing
BatchEnds(r) ==
  /\ batch[r] = "dispatched"
  /\ batch' = [batch EXCEPT ![r] = "ended"]
  /\ UNCHANGED <<pc, lease, upstream, status, outcome, interrupted, counts, app>>

\* the backend has dealt with a call
Answered(r) == Eligible(r) => batch[r] = "ended"

\* Mutation: the usage of a batched response is recorded per member as well.
UsageOfEvery(r) == 1

\* the responses whose usage the route gives to observe_non_streaming_usage
DirectUsage(r) == IF Eligible(r) THEN 0 ELSE 1

\* The batcher or the backend answers.  The usage of a direct response is
\* recorded here, that of a batched one by the batcher.
CallReturns(r) ==
  /\ pc[r] = "calling" /\ Answered(r)
  /\ ReleaseLease(r)
  /\ RecordTokenAccounting(r, DirectUsage(r))
  /\ status' = [status EXCEPT ![r] = 200]
  /\ Goto(r, "sending")
  /\ UNCHANGED <<batch, upstream, outcome, interrupted, recorded, errors, app>>

\* The answer holds a value that JSONResponse cannot render: it raises after
\* the lease was released and the usage recorded.
RenderFails(r) ==
  /\ pc[r] = "calling" /\ Answered(r)
  /\ ReleaseLease(r)
  /\ RecordTokenAccounting(r, DirectUsage(r))
  /\ Unexpected(r)
  /\ UNCHANGED <<batch, upstream, outcome, interrupted, app>>

\* The call, or the opening of the stream, raises: admit's finally clause or
\* the except clause of the streaming route releases the lease.  The member
\* of a batch that was not dispatched fails only when the batcher stops.
CallFails(r) ==
  /\ pc[r] \in {"calling", "opening"}
  /\ ReleaseLease(r)
  /\ \/ \E code \in IF Answered(r) THEN CallErrors(r)
                    ELSE CallErrors(r) \cap {"batching_unavailable"} :
          batch[r] # "dispatched" /\ Respond(r, code) /\ UNCHANGED recorded
     \/ Answered(r) /\ Unexpected(r)
  /\ UNCHANGED <<batch, upstream, outcome, interrupted, accounted, app>>

\* The task is cancelled before a response is started.  Admission takes back
\* a lease it had granted; a batch that was dispatched goes on.
CallCancelled(r) ==
  /\ pc[r] \in {"idle", "admitting", "calling", "opening"} /\ lifespan # "starting"
  /\ ReleaseLease(r)
  /\ Finalize(r, "cancelled")
  /\ Goto(r, "done")
  /\ UNCHANGED <<batch, upstream, status, outcome, interrupted, errors, accounted, app>>

\* the backend stream is open and the response of its relay is started
StreamOpened(r) ==
  /\ pc[r] = "opening" /\ ~BackendClosed
  /\ upstream' = [upstream EXCEPT ![r] = "open"]
  /\ status' = [status EXCEPT ![r] = 200]
  /\ Goto(r, "pushing")
  /\ UNCHANGED <<lease, batch, outcome, interrupted, counts, app>>

-----------------------------------------------------------------------------
(***************************************************************************)
(* StreamingRelay and SSEStreamingResponse.                                *)
(***************************************************************************)
\* the client takes a chunk, and the relay asks for the next one,
ChunkSent(r) ==
  /\ pc[r] = "pushing" /\ Goto(r, "pulling")
  /\ UNCHANGED <<lease, batch, upstream, status, outcome, interrupted, counts, app>>

\* which arrives
ChunkArrives(r) ==
  /\ pc[r] = "pulling" /\ ~BackendClosed /\ Goto(r, "pushing")
  /\ UNCHANGED <<lease, batch, upstream, status, outcome, interrupted, counts, app>>

\* Mutation: the relay forgets on_outcome for a stream that broke.
RelayClosedSilently(r, o) ==
  /\ upstream' = [upstream EXCEPT ![r] = "closed"]
  /\ ReleaseLease(r)
  /\ RecordTokenAccounting(r, 1)
  /\ UNCHANGED <<outcome, errors>>

\* The rest of aclose once the backend stream is closed: the lease is given
\* back, the observer finalized, and on_outcome called.
RelayClosed(r, o) ==
  /\ upstream' = [upstream EXCEPT ![r] = "closed"]
  /\ ReleaseLease(r)
  /\ RecordTokenAccounting(r, 1)
  /\ outcome' = [outcome EXCEPT ![r] = o]
  /\ IF o = "upstream_error" THEN RecordError(r) ELSE UNCHANGED errors

\* The backend stream ends or breaks while the relay awaits a chunk.  Its own
\* iterator has closed it, so aclose does not suspend.
UpstreamEnds(r, o) ==
  /\ pc[r] = "pulling" /\ o \in {"completed", "upstream_error"}
  /\ RelayClosed(r, o)
  /\ Goto(r, "sending")
  /\ UNCHANGED <<batch, status, interrupted, recorded, app>>

\* What interrupts a response: its task is cancelled, or the client is gone,
\* which the response finds out beside or while sending.
Interruptions == {"cancelled", "disconnect"}

\* After a cancellation the middleware records; after a disconnect the
\* response returns, and the last body message follows.
ResponseEnds(r, how) ==
  IF how = "cancelled" THEN Finalize(r, "cancelled") /\ Goto(r, "done")
                       ELSE Goto(r, "sending") /\ UNCHANGED recorded

\* The response is interrupted while the relay awaits a chunk.  The iterator
\* of the backend stream closes it, so aclose does not suspend,
PullCancelled(r, how) ==
  /\ pc[r] = "pulling"
  /\ RelayClosed(r, "cancelled")
  /\ ResponseEnds(r, how)
  /\ UNCHANGED <<batch, status, interrupted, app>>

\* unless the pool, being closed, is closing the stream: then it waits for the
\* stream's _close_lock, within the cancelled scope after a disconnect
PullCloses(r, how) ==
  /\ pc[r] = "pulling" /\ BackendClosed
  /\ interrupted' = [interrupted EXCEPT ![r] = IF how = "disconnect" THEN "scope" ELSE how]
  /\ Goto(r, "closing")
  /\ UNCHANGED <<lease, batch, upstream, status, outcome, counts, app>>

\* The response is interrupted while it sends a chunk.  Its task closes the
\* relay, or, where the response sends from a task of its own, finds that the
\* event loop is closing the abandoned iterator, and waits for it.
PushInterrupted(r, how) ==
  /\ pc[r] = "pushing"
  /\ interrupted' = [interrupted EXCEPT ![r] = how]
  /\ \E u \in {"open", "abandoned"} : upstream' = [upstream EXCEPT ![r] = u]
  /\ Goto(r, "closing")
  /\ UNCHANGED <<lease, batch, status, outcome, counts, app>>

\* the backend stream is closed, or its aclose raises, and aclose ends
RelayCloses(r, o) ==
  /\ \/ pc[r] = "closing" /\ upstream[r] = "open"
     \/ upstream[r] = "abandoned"
  /\ o \in {"cancelled", "upstream_error"}
  /\ RelayClosed(r, o)
  /\ UNCHANGED <<pc, batch, status, interrupted, recorded, app>>

\* the task goes on where it was interrupted
CloseReturns(r) ==
  /\ pc[r] = "closing" /\ upstream[r] = "closed"
  /\ ResponseEnds(r, interrupted[r])
  /\ UNCHANGED <<lease, batch, upstream, status, outcome, interrupted, errors, accounted, app>>

\* Mutation: the lease is released after the try statement, not in its finally.
LeaseAfterClose(r) == UNCHANGED lease

\* the finally clause of aclose
LeaseInFinally(r) == ReleaseLease(r)

\* The task is cancelled, by the server or by the scope around it, while it
\* awaits the close.  If it closes the relay itself, the lease is released,
\* and the observer and on_outcome are skipped for good.
CloseCancelled(r) ==
  /\ pc[r] = "closing"
  /\ IF upstream[r] = "open"
     THEN /\ upstream' = [upstream EXCEPT ![r] = "closed"]
          /\ LeaseInFinally(r)
          /\ interrupted' = [interrupted EXCEPT ![r] = "while closing"]
     ELSE UNCHANGED <<lease, upstream, interrupted>>
  /\ \/ ResponseEnds(r, "cancelled")
     \/ interrupted[r] = "scope" /\ ResponseEnds(r, "disconnect")
  /\ UNCHANGED <<batch, status, outcome, errors, accounted, app>>

-----------------------------------------------------------------------------
(***************************************************************************)
(* The last body message, and the middleware around everything.            *)
(***************************************************************************)
\* send_wrapper has sent the last body message, the response's or that of
\* RequestIDMiddleware
BodySent(r) ==
  /\ pc[r] = "sending"
  /\ Finalize(r, OutcomeOf(r))
  /\ Goto(r, "returning")
  /\ UNCHANGED <<lease, batch, upstream, status, outcome, interrupted, errors, accounted, app>>

\* the application returns, or is cancelled before or after its last message
Return(r) ==
  /\ pc[r] = "returning" /\ Goto(r, "done")
  /\ UNCHANGED <<lease, batch, upstream, status, outcome, interrupted, counts, app>>

SendCancelled(r) ==
  /\ pc[r] \in {"sending", "returning"}
  /\ Finalize(r, "cancelled")
  /\ Goto(r, "done")
  /\ UNCHANGED <<lease, batch, upstream, status, outcome, interrupted, errors, accounted, app>>

-----------------------------------------------------------------------------
(***************************************************************************)
(* lifespan.                                                               *)
(***************************************************************************)
\* the pool's first probes are done
Serve ==
  /\ lifespan = "starting"
  /\ lifespan' = "serving" /\ ready' = TRUE
  /\ UNCHANGED <<tasks, counts>>

\* the server stops, or start was cancelled: admission is shut down first
ShutdownAdmission ==
  /\ lifespan \in {"starting", "serving"}
  /\ lifespan' = "admission" /\ ready' = FALSE
  /\ UNCHANGED <<tasks, counts>>

\* then the batcher, whether or not that raised
ShutdownBatcher ==
  /\ lifespan = "admission"
  /\ lifespan' = "batcher"
  /\ UNCHANGED <<tasks, counts, ready>>

\* the batch of r is at the backend
Dispatched(r) == batch[r] = "dispatched"

\* Mutation: the lifespan waits for the requests before it closes the backend.
CloseBackendAfterRequests ==
  /\ lifespan = "batcher" /\ \A r \in Reqs : pc[r] \in {"idle", "done"} /\ ~Dispatched(r)
  /\ lifespan' = "backend"
  /\ UNCHANGED <<tasks, counts, ready>>

\* and when its flush tasks are over, waiting for no request, the backend
CloseBackend ==
  /\ lifespan = "batcher" /\ \A r \in Reqs : ~Dispatched(r)
  /\ lifespan' = "backend"
  /\ UNCHANGED <<tasks, counts, ready>>

\* which ends the lifespan
LifespanEnds ==
  /\ lifespan = "backend"
  /\ lifespan' = "down"
  /\ UNCHANGED <<tasks, counts, ready>>

-----------------------------------------------------------------------------
\* the steps that no fairness can ask for: they depend on the client
ClientStep(r) ==
  \/ Accept(r) \/ AuthenticationFails(r) \/ Reject(r) \/ Unreadable(r)
  \/ CallCancelled(r) \/ SendCancelled(r) \/ CloseCancelled(r)
  \/ ChunkArrives(r)
  \/ \E how \in Interruptions :
       PullCancelled(r, how) \/ PullCloses(r, how) \/ PushInterrupted(r, how)

\* the steps a request in the gateway is waiting for
RequestStep(r) ==
  \/ Grant(r) \/ Admit(r) \/ AdmissionFails(r)
  \/ DispatchBatch(r) \/ BatchEnds(r)
  \/ CallReturns(r) \/ RenderFails(r) \/ CallFails(r) \/ StreamOpened(r)
  \/ ChunkSent(r)
  \/ \E o \in StreamOutcomes : UpstreamEnds(r, o) \/ RelayCloses(r, o)
  \/ CloseReturns(r)
  \/ BodySent(r) \/ Return(r)

LifespanStep == Serve \/ ShutdownBatcher \/ CloseBackend \/ LifespanEnds

Next ==
  \/ \E r \in Reqs : ClientStep(r) \/ RequestStep(r)
  \/ LifespanStep
  \/ ShutdownAdmission

\* The event loop resumes tasks, queue, batch and backend waits have timeouts, a
\* client takes a chunk or disconnects; a stream need not end by itself while
\* its backend is open.
Fairness ==
  /\ \A r \in Reqs :
       /\ WF_vars(Admit(r) \/ AdmissionFails(r))
       /\ WF_vars(DispatchBatch(r)) /\ WF_vars(BatchEnds(r))
       /\ WF_vars(CallReturns(r) \/ CallFails(r) \/ StreamOpened(r))
       /\ WF_vars(ChunkSent(r) \/ \E how \in Interruptions : PushInterrupted(r, how))
       /\ WF_vars(BackendClosed /\ \E o \in StreamOutcomes : UpstreamEnds(r, o))
       /\ WF_vars(\E o \in StreamOutcomes : RelayCloses(r, o)) /\ WF_vars(CloseReturns(r))
       /\ WF_vars(BodySent(r)) /\ WF_vars(Return(r))
  /\ WF_vars(LifespanStep)

Spec == Init /\ [][Next]_vars
FairSpec == Spec /\ Fairness

-----------------------------------------------------------------------------
(***************************************************************************)
(* Properties.                                                             *)
(***************************************************************************)
\* Every variable has its type.
TypeOK ==
  /\ pc \in [Reqs -> Places]
  /\ lease \in [Reqs -> {"none", "held", "orphaned", "released"}]
  /\ batch \in [Reqs -> {"none", "dispatched", "ended"}]
  /\ upstream \in [Reqs -> {"none", "open", "abandoned", "closed"}]
  /\ status \in [Reqs -> {0, 200, 500} \cup {StatusOf[c] : c \in DOMAIN StatusOf}]
  /\ outcome \in [Reqs -> StreamOutcomes \cup {"none"}]
  /\ interrupted \in [Reqs -> {"none", "cancelled", "disconnect", "scope", "while closing"}]
  /\ recorded \in [Reqs -> Seq({"completed", "cancelled", "error"})]
  /\ errors \in [Reqs -> Nat] /\ accounted \in [Reqs -> Nat]
  /\ lifespan \in Phases /\ ready \in BOOLEAN

\* The gateway has the request at the batcher or the backend: its task awaits
\* one of them, or its backend stream is not closed.
AtBackend(r) == pc[r] \in {"calling", "opening"} \/ upstream[r] \in {"open", "abandoned"}

\* Nothing is at the batcher or the backend without a lease, but the work of
\* a member that was cancelled after its batch was dispatched, and a lease
\* is held for nothing else, but by a request that timed out when it had just
\* been granted (chat.py, relay.py aclose, dynamic.py _cancel_item,
\* controller.py _acquire): at most global_max_inflight requests have one.
BackendWorkIsAdmitted ==
  /\ \A r \in Reqs :
       /\ AtBackend(r) => lease[r] = "held"
       /\ lease[r] = "held" => AtBackend(r) \/ pc[r] = "admitting"
       /\ lease[r] = "orphaned" => status[r] = 429
       /\ Dispatched(r) => lease[r] = "held" \/ recorded[r] = <<"cancelled">>
       /\ pc[r] = "done" /\ upstream[r] = "abandoned" => recorded[r] = <<"cancelled">>
  /\ Cardinality(Holding) <= GlobalMaxInflight

\* The middleware records every request once, when it is over
\* (middleware.py finalize), on each of its paths.
RecordedExactlyOnce ==
  \A r \in Reqs : Len(recorded[r]) = IF pc[r] \in {"returning", "done"} THEN 1 ELSE 0

\* The counters agree about a request: one recorded as completed had status
\* 200, no error, and a stream that ended by itself or whose close was
\* cancelled; one recorded as an error was counted once in
\* gateway_errors_total, a broken stream included, unless the framework
\* refused it with a 400 before the route (chat.py observe_outcome, errors.py
\* register_exception_handlers, middleware.py send_wrapper).
RecordsAgree ==
  \A r \in Reqs :
    /\ errors[r] <= 1
    /\ recorded[r] = <<"error">> => errors[r] = 1 \/ (status[r] = 400 /\ lease[r] = "none")
    /\ recorded[r] = <<"completed">>
         => /\ status[r] = 200 /\ errors[r] = 0
            /\ Ask[r].stream => outcome[r] = "completed" \/ interrupted[r] = "while closing"

\* The token coverage of a direct answer, and of a stream that was opened, is
\* recorded once (chat.py, relay.py aclose, sse.py finalize), except for a
\* stream whose close was cancelled; that of a member of a batch never. Only
\* an answer that cannot be rendered is recorded without being sent.
CoverageRecordedOnce ==
  \A r \in Reqs :
    IF Ask[r].stream
    THEN accounted[r] = IF upstream[r] = "closed" /\ interrupted[r] # "while closing" THEN 1 ELSE 0
    ELSE /\ accounted[r] <= 1
         /\ status[r] = 200 /\ ~Eligible(r) => accounted[r] = 1
         /\ accounted[r] = 1 => ~Eligible(r) /\ status[r] \in {200, 500}

\* What sse.py:74 says of every stream: "Record TTFT/token coverage exactly
\* once at stream lifecycle end."
EveryStreamIsAccounted ==
  \A r \in Reqs : upstream[r] = "closed" => accounted[r] = 1

\* From when the server stops, every request in the gateway comes to its end,
\* with its stream closed and its batch over, and so does the lifespan
\* (app.py), although a stream may be endless and the lifespan waits for none.
ShutdownDrains ==
  lifespan = "admission"
    ~> /\ lifespan = "down"
       /\ \A r \in Reqs : pc[r] \in {"idle", "done"} /\ ~AtBackend(r) /\ ~Dispatched(r)
=============================================================================
