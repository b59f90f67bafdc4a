----------------------------- MODULE VLLMClient -----------------------------
(***************************************************************************)
(* gateway/backends/vllm.py: one call of the client of a vLLM server, from *)
(* its checks through the answer to its result, and the stream a call      *)
(* opens, whose chunks the observer of SSEObserver sees on their way to    *)
(* the client; close() runs at any time.                                   *)
(*                                                                         *)
(* The server is external: it may fail in every way httpx reports, answer  *)
(* with any status and, to a batch, with any list of choices.  The         *)
(* cancellation of a call is modelled where it is handled, in BackendPool  *)
(* and ChatRoute.                                                          *)
(***************************************************************************)
EXTENDS SSEObserver

CONSTANTS
  MaxBatch,   \* bound: the members of a batch, and the choices of its answer
  Statuses,   \* the HTTP statuses that occur
  Shared,     \* the values of the fields that the members of a batch share
  NotAnIndex  \* the index of a choice that has none, or one that is no integer

ASSUME ClientAssumption ==
  /\ MaxBatch \in Nat
  /\ Statuses \subseteq 100..599
  /\ NotAnIndex \notin Int

VARIABLES
  call,      \* the call: its kind and its requests
  phase,     \* how far it is
  result,    \* what it returned, or the error it raised
  answer,    \* the choices of the server's answer to a batch
  response,  \* the streaming response: "none", "open" or "closed"
  active,    \* it is in _active_streams
  closer,    \* who set its stream's _closed: "none", "consumer" or "client"
  client     \* the client, close(): "open", "closing", "closed" or "failed"

clientVars == <<call, phase, result, answer, response, active, closer, client>>
vars == <<observer, clientVars>>

Kinds == {"generate", "stream", "batch", "health"}
Failures == {"timeout", "connect", "request", "runtime"}
Pending == [error |-> "none", choices |-> << >>, usage |-> "none"]
Raised(e) == [Pending EXCEPT !.error = e]

Init ==
  /\ ObserverInit
  /\ call = [kind |-> "none", requests |-> << >>]
  /\ phase = "idle"
  /\ result = Pending
  /\ answer = << >>
  /\ response = "none"
  /\ active = FALSE
  /\ closer = "none"
  /\ client = "open"

-----------------------------------------------------------------------------
(***************************************************************************)
(* Answers.                                                                *)
(***************************************************************************)
\* The error for a failure of the transport.  generate and generate_batch do
\* not catch the RuntimeError of a client that was closed, stream does, and a
\* health check takes every failure as an unhealthy server.
TransportError(kind, failure) ==
  CASE kind = "health"      -> "unhealthy"
    [] failure = "timeout"  -> "BackendTimeoutError"
    [] failure = "runtime" /\ kind # "stream" -> "RuntimeError"
    [] OTHER                -> "BackendUnavailableError"

\* _raise_for_upstream_status
StatusError(status) ==
  CASE status \in 200..299        -> "none"
    [] status \in {400, 404, 422} -> "BackendRequestRejectedError"
    [] status \in {401, 403}      -> "BackendConfigurationError"
    [] OTHER                      -> "BackendHTTPError"

\* Mutation: the choices are taken in the order in which they arrive.
PlaceInOrder(byIndex, indices, k, size) ==
  IF Len(byIndex) = size /\ indices[k] # NotAnIndex /\ indices[k] \in 0..(size - 1)
  THEN [byIndex EXCEPT ![k] = k] ELSE << >>

\* one turn of the loop over the choices: by_index, or << >> once one is refused
Place(byIndex, indices, k, size) ==
  IF /\ Len(byIndex) = size
     /\ indices[k] # NotAnIndex
     /\ indices[k] \in 0..(size - 1)
     /\ byIndex[indices[k] + 1] = 0
  THEN [byIndex EXCEPT ![indices[k] + 1] = k] ELSE << >>

\* by_index after the loop over the choices.  A choice is told by its place in
\* the answer: by_index[i + 1] is the choice with index i, or 0.
ByIndex(indices, size) ==
  LET after[k \in 0..Len(indices)] ==
        IF k = 0 THEN [i \in 1..size |-> 0] ELSE Place(after[k - 1], indices, k, size)
  IN  after[Len(indices)]

\* _demultiplex_batch_response
Demultiplex(indices, usage, size) ==
  LET byIndex == ByIndex(indices, size)
  IN  IF Len(indices) # size \/ Len(byIndex) # size \/ 0 \in Range(byIndex)
      THEN Raised("BackendProtocolError")
      ELSE [error |-> "none", choices |-> byIndex, usage |-> usage]

\* the checks of generate_batch before it sends anything
Compatible(requests) ==
  /\ requests # << >>
  /\ \A i \in DOMAIN requests :
       /\ ~requests[i].stream /\ requests[i].n = 1
       /\ requests[i].shared = requests[1].shared

-----------------------------------------------------------------------------
(***************************************************************************)
(* The call.                                                               *)
(***************************************************************************)
\* the request goes out, or a client that was closed refuses to send it
Post(kind) ==
  IF client = "closed"
  THEN phase' = "ended" /\ result' = Raised(TransportError(kind, "runtime"))
  ELSE phase' = "sent" /\ UNCHANGED result

\* generate, stream and check_health
Send(kind) ==
  /\ phase = "idle" /\ kind # "batch"
  /\ call' = [call EXCEPT !.kind = kind]
  /\ Post(kind)
  /\ UNCHANGED <<observer, answer, response, active, closer, client>>

GenerateBatch(requests) ==
  /\ phase = "idle"
  /\ call' = [kind |-> "batch", requests |-> requests]
  /\ IF Compatible(requests)
     THEN Post("batch")
     ELSE phase' = "ended" /\ result' = Raised("BackendCapabilityError")
  /\ UNCHANGED <<observer, answer, response, active, closer, client>>

TransportFails(failure) ==
  /\ phase = "sent"
  /\ phase' = "ended"
  /\ result' = Raised(TransportError(call.kind, failure))
  /\ UNCHANGED <<observer, call, answer, response, active, closer, client>>

\* The answer to generate or generate_batch: a status, and a body that is a
\* JSON mapping or not (json); the choices and the usage are those of a batch.
Answered(status, json, indices, usage) ==
  /\ phase = "sent" /\ call.kind \in {"generate", "batch"}
  /\ answer' = indices
  /\ result' = IF StatusError(status) # "none" THEN Raised(StatusError(status))
               ELSE IF ~json THEN Raised("BackendProtocolError")
               ELSE IF call.kind = "generate" THEN Pending
               ELSE Demultiplex(indices, usage, Len(call.requests))
  /\ phase' = "ended"
  /\ UNCHANGED <<observer, call, response, active, closer, client>>

\* the answer to check_health
HealthAnswered(status) ==
  /\ phase = "sent" /\ call.kind = "health"
  /\ result' = IF status \in 200..299 THEN Pending ELSE Raised("unhealthy")
  /\ phase' = "ended"
  /\ UNCHANGED <<observer, call, answer, response, active, closer, client>>

\* Mutation: a response of the wrong type is refused but not closed.
RefuseOpen(error) ==
  /\ result' = Raised(error)
  /\ phase' = IF error = "BackendProtocolError" THEN "ended" ELSE "refusing"

\* a streaming response that is refused is closed before the error is raised
Refuse(error) ==
  /\ result' = Raised(error)
  /\ phase' = "refusing"

\* the head of the answer to a stream
StreamAnswered(status, eventStream) ==
  /\ phase = "sent" /\ call.kind = "stream"
  /\ response' = "open"
  /\ IF StatusError(status) # "none"
     THEN Refuse(StatusError(status)) /\ UNCHANGED active
     ELSE IF ~eventStream
     THEN Refuse("BackendProtocolError") /\ UNCHANGED active
     ELSE active' = TRUE /\ phase' = "streaming" /\ UNCHANGED result
  /\ UNCHANGED <<observer, call, answer, closer, client>>

RefusalClosed ==
  /\ phase = "refusing"
  /\ response' = "closed"
  /\ phase' = "ended"
  /\ UNCHANGED <<observer, call, result, answer, active, closer, client>>

-----------------------------------------------------------------------------
(***************************************************************************)
(* The stream.                                                             *)
(***************************************************************************)
\* a chunk of the body, relayed and shown to the observer
ChunkRelayed ==
  /\ phase = "streaming" /\ response = "open"
  /\ ObserveBytes
  /\ UNCHANGED clientVars

\* the errors of _iterate
IterationError(failure) ==
  IF failure = "timeout" THEN "BackendTimeoutError" ELSE "BackendUnavailableError"

\* The body ends, fails or is abandoned by its consumer: the finally of
\* _iterate, or the consumer, calls aclose, which does nothing a second time.
BodyEnds(error) ==
  /\ phase = "streaming"
  /\ result' = Raised(error)
  /\ phase' = "closing"
  /\ closer' = IF closer = "none" THEN "consumer" ELSE closer
  /\ UNCHANGED <<observer, call, answer, response, active, client>>

\* response.aclose() has returned or raised: on_close
ResponseClosed ==
  /\ closer # "none" /\ active
  /\ response' = "closed"
  /\ active' = FALSE
  /\ UNCHANGED <<observer, call, phase, result, answer, closer, client>>

\* The consumer's aclose has returned, at once if close() is closing the
\* stream; the relay finalizes its observer.
StreamEnds ==
  /\ phase = "closing"
  /\ closer = "consumer" => ~active
  /\ FinalizeObserver
  /\ phase' = "ended"
  /\ UNCHANGED <<call, result, answer, response, active, closer, client>>

-----------------------------------------------------------------------------
(***************************************************************************)
(* close().                                                                *)
(***************************************************************************)
\* the snapshot of the active streams, each of which it closes
Close ==
  /\ client = "open"
  /\ client' = "closing"
  /\ closer' = IF active /\ closer = "none" THEN "client" ELSE closer
  /\ UNCHANGED <<observer, call, phase, result, answer, response, active>>

\* Its aclose of the stream has returned, at once if the consumer is closing
\* the stream, and the client is closed.
ClientClosed ==
  /\ client = "closing"
  /\ closer = "client" => ~active
  /\ client' = "closed"
  /\ UNCHANGED <<observer, call, phase, result, answer, response, active, closer>>

\* Its aclose of the stream has raised: the client stays open.
CloseRaises ==
  /\ client = "closing" /\ closer = "client" /\ ~active
  /\ client' = "failed"
  /\ UNCHANGED <<observer, call, phase, result, answer, response, active, closer>>

\* what a batch can consist of: the fields that the checks of generate_batch
\* and to_batch_shared_payload tell apart
Members == [stream : BOOLEAN, n : 1..2, shared : Shared]
Indices == UNION {[1..n -> (-1..MaxBatch) \cup {NotAnIndex}] : n \in 0..MaxBatch}

Next ==
  \/ \E k \in Kinds : Send(k)
  \/ \E b \in UNION {[1..n -> Members] : n \in 0..MaxBatch} : GenerateBatch(b)
  \/ \E f \in Failures : TransportFails(f)
  \/ \E s \in Statuses : HealthAnswered(s)
  \/ \E s \in Statuses, json \in BOOLEAN :
       \/ StreamAnswered(s, json)
       \/ Answered(s, json, << >>, "missing")
       \/ \E i \in Indices, u \in {"missing", "invalid", "observed"} :
            call.kind = "batch" /\ Answered(s, json, i, u)
  \/ RefusalClosed
  \/ ChunkRelayed
  \/ BodyEnds("none")
  \/ \E f \in Failures \ {"connect"} : BodyEnds(IterationError(f))
  \/ ResponseClosed
  \/ StreamEnds
  \/ Close
  \/ ClientClosed
  \/ CloseRaises

Spec == Init /\ [][Next]_vars

-----------------------------------------------------------------------------
(***************************************************************************)
(* Properties.                                                             *)
(***************************************************************************)
\* The members of a batch get the choices with their indices, in whatever
\* order these arrive: a batch succeeds only if the indices of the choices
\* are exactly those of its members, and then each choice is answered to the
\* member it names, and to no other (vllm.py _demultiplex_batch_response).
AnswersByIndex ==
  LET size == Len(call.requests)
      exact == {i \in 0..(size - 1) : \E k \in DOMAIN answer : answer[k] = i} = 0..(size - 1)
  IN  result.choices # << >> =>
        /\ Len(answer) = size /\ exact
        /\ \A k \in DOMAIN answer : result.choices[answer[k] + 1] = k

\* No response is lost: a streaming response that is open has an owner that
\* will close it, the call that refuses it or the set of active streams that
\* close() goes through; and it is closed when the call, or the aclose, that
\* has to close it is over (vllm.py stream, aclose, close).
ResponsesOwned ==
  /\ response = "open" => active \/ phase = "refusing"
  /\ active => response = "open"
  /\ phase = "ended" /\ closer # "client" => response # "open"
  /\ client \in {"closed", "failed"} /\ closer = "client" => response = "closed"
=============================================================================
