---------------------------- MODULE SSEObserver ----------------------------
(***************************************************************************)
(* gateway/observability/sse.py: the bounded observer of the copied bytes  *)
(* of an event stream, which looks for the first generated content and for *)
(* the usage, however the bytes are cut into chunks.                       *)
(*                                                                         *)
(* A stream is a sequence of symbols: line feeds, carriage returns and     *)
(* texts.  A text stands for the bytes of a line: a comment, [DONE], a     *)
(* JSON mapping with content, with a valid usage or with one that is null, *)
(* or something that is no JSON mapping.  A chunk that ends within a text  *)
(* is not distinguished: nothing happens until a blank line.               *)
(***************************************************************************)
EXTENDS Integers, FiniteSets, Sequences, SequencesExt

CONSTANTS
  MaxEvent,   \* max_event_bytes, in symbols
  MaxStream,  \* bound: the symbols of a stream
  Texts       \* the texts that occur, a subset of AllTexts

LF == "line feed"
CR == "carriage return"
NewLines == {LF, CR}
Usages == {"usage", "null usage"}
AllTexts == {"comment", "done", "content", "usage", "null usage", "malformed"}

ASSUME ObserverAssumption ==
  /\ MaxEvent \in Nat \ {0}
  /\ MaxStream \in Nat
  /\ Texts \subseteq AllTexts

VARIABLES
  obs,       \* the observer: _buffer, _first_content_seen, _usage_result, _disabled
  finalized, \* _finalized
  ttft,      \* gateway_ttft_observations_total of this stream, by result
  coverage,  \* gateway_token_accounting_requests_total of it, by result
  relayed,   \* the number of symbols of the stream so far
  bytewise   \* what a reader has seen that takes the stream symbol by symbol,
             \* and the last usage of the stream

observer == <<obs, finalized, ttft, coverage, relayed, bytewise>>

NewObserver == [buffer |-> << >>, content |-> FALSE, usage |-> "none", disabled |-> FALSE]

ObserverInit ==
  /\ obs = NewObserver
  /\ finalized = FALSE
  /\ ttft = [observed |-> 0, missing |-> 0]
  /\ coverage = [observed |-> 0, missing |-> 0, invalid |-> 0]
  /\ relayed = 0
  /\ bytewise = [seen |-> NewObserver, final |-> "none"]

-----------------------------------------------------------------------------
(***************************************************************************)
(* Events.                                                                 *)
(***************************************************************************)
\* Mutation: a blank line is two line feeds.
BoundaryOfLineFeeds(b, i) ==
  IF i < Len(b) /\ b[i] = LF /\ b[i + 1] = LF THEN 2 ELSE 0

\* the length of the match of _EVENT_BOUNDARY at position i of b, or 0
BoundaryAt(b, i) ==
  LET matches == {k \in {2, 3, 4} : /\ i + k - 1 <= Len(b)
                                    /\ SubSeq(b, i, i + k - 1) \in
                                         {<<LF, LF>>, <<CR, LF, LF>>,
                                          <<LF, CR, LF>>, <<CR, LF, CR, LF>>}}
  IN  IF matches = {} THEN 0 ELSE CHOOSE k \in matches : TRUE

Boundaries(b) == {i \in DOMAIN b : BoundaryAt(b, i) > 0}

\* the lines of an event that carry data, by their first symbols
DataLines(e) == {i \in DOMAIN e : /\ e[i] \notin NewLines \cup {"comment"}
                                  /\ i = 1 \/ e[i - 1] \in NewLines}

\* The data of an event.  Two documents on two lines are no JSON document,
\* and neither are two on one line.
DataOf(e) ==
  IF DataLines(e) = {} THEN "comment"
  ELSE LET i == CHOOSE k \in DataLines(e) : TRUE
       IN  IF Cardinality(DataLines(e)) = 1 /\ (i = Len(e) \/ e[i + 1] \in NewLines)
           THEN e[i] ELSE "malformed"

\* _disable
Disable(o) == [o EXCEPT !.disabled = TRUE, !.buffer = << >>]

\* _observe_usage: the first usage counts
ObserveUsage(o, data) ==
  IF o.usage # "none" \/ data \notin Usages THEN o
  ELSE [o EXCEPT !.usage = IF data = "usage" THEN "observed" ELSE "invalid"]

\* _observe_event, with _observe_first_content
ObserveEvent(o, event) ==
  LET data == DataOf(event)
  IN  IF data \in {"comment", "done"} THEN o
      ELSE IF data = "malformed" THEN Disable(o)
      ELSE ObserveUsage([o EXCEPT !.content = @ \/ data = "content"], data)

\* one turn of the loop of _drain_events: the first event of the buffer
DrainOne(o) ==
  IF o.disabled \/ Boundaries(o.buffer) = {} THEN o
  ELSE LET start == CHOOSE i \in Boundaries(o.buffer) :
                      \A k \in Boundaries(o.buffer) : i <= k
           end == start + BoundaryAt(o.buffer, start)
       IN  ObserveEvent([o EXCEPT !.buffer = SubSeq(@, end, Len(@))],
                        SubSeq(o.buffer, 1, start - 1))

\* _drain_events: the events of the buffer up to its last boundary, of which
\* there are fewer than symbols
DrainEvents(o) ==
  LET after[turns \in 0..Len(o.buffer)] ==
        IF turns = 0 THEN o ELSE DrainOne(after[turns - 1])
  IN  after[Len(o.buffer)]

\* one turn of the loop of observe_bytes: a piece of the chunk that fits into
\* the bounded buffer
FeedPiece(fed) ==
  LET available == MaxEvent - Len(fed.obs.buffer)
      n == IF Len(fed.rest) < available THEN Len(fed.rest) ELSE available
  IN  IF fed.obs.disabled \/ fed.rest = << >> THEN fed
      ELSE IF available <= 0 THEN [fed EXCEPT !.obs = Disable(@)]
      ELSE [obs  |-> DrainEvents([fed.obs EXCEPT !.buffer = @ \o SubSeq(fed.rest, 1, n)]),
            rest |-> SubSeq(fed.rest, n + 1, Len(fed.rest))]

\* observe_bytes: the chunk goes through the buffer piece by piece, and there
\* are at most as many pieces as symbols
Feed(o, chunk) ==
  LET after[turns \in 0..Len(chunk)] ==
        IF turns = 0 THEN [obs |-> o, rest |-> chunk] ELSE FeedPiece(after[turns - 1])
  IN  after[Len(chunk)].obs

-----------------------------------------------------------------------------
(***************************************************************************)
(* The reference: an event ends with the symbol that completes a blank     *)
(* line, and must fit into MaxEvent symbols with it.                       *)
(***************************************************************************)
BlankLineEnds(e) ==
  LET n == Len(e) IN \/ n >= 2 /\ e[n] = LF /\ e[n - 1] = LF
                     \/ n >= 3 /\ e[n] = LF /\ e[n - 1] = CR /\ e[n - 2] = LF

ReadSymbol(reader, c) ==
  LET event == Append(reader.seen.buffer, c)
      cleared == [reader.seen EXCEPT !.buffer = << >>]
  IN  IF reader.seen.disabled THEN reader
      ELSE IF Len(event) > MaxEvent THEN [reader EXCEPT !.seen = Disable(@)]
      ELSE IF ~BlankLineEnds(event) THEN [reader EXCEPT !.seen.buffer = event]
      ELSE [seen |-> ObserveEvent(cleared, event),
            final |-> IF DataOf(event) \in Usages THEN DataOf(event) ELSE reader.final]

Read(reader, chunk) ==
  LET after[k \in 0..Len(chunk)] ==
        IF k = 0 THEN reader ELSE ReadSymbol(after[k - 1], chunk[k])
  IN  after[Len(chunk)]

-----------------------------------------------------------------------------
(***************************************************************************)
(* The calls of the relay.                                                 *)
(***************************************************************************)
Chunks == UNION {[1..n -> Texts \cup NewLines] : n \in 1..(MaxStream - relayed)}

\* GatewayMetrics: observe_ttft and record_missing_ttft, k times
ObserveTtft(k) == ttft' = [ttft EXCEPT !.observed = @ + k]
RecordMissingTtft(k) == ttft' = [ttft EXCEPT !.missing = @ + k]

\* a chunk is relayed: observe_bytes, with observe_ttft at the first content
ObserveBytes ==
  /\ \E chunk \in Chunks :
       /\ relayed' = relayed + Len(chunk)
       /\ bytewise' = Read(bytewise, chunk)
       /\ obs' = IF finalized THEN obs ELSE Feed(obs, chunk)
  /\ ObserveTtft(IF obs'.content /\ ~obs.content THEN 1 ELSE 0)
  /\ UNCHANGED <<finalized, coverage>>

\* Mutation: a stream whose parsing was disabled counts as one without usage.
CoverageIgnoresDisabled(o) == IF o.usage = "none" THEN "missing" ELSE o.usage

\* the token coverage of a stream
CoverageOf(o) == IF o.usage = "observed" THEN "observed"
                 ELSE IF o.usage = "invalid" \/ o.disabled THEN "invalid" ELSE "missing"

\* finalize, which the relay may call again
FinalizeObserver ==
  /\ finalized' = TRUE
  /\ IF finalized THEN UNCHANGED <<ttft, coverage, obs>>
     ELSE /\ RecordMissingTtft(IF obs.content THEN 0 ELSE 1)
          /\ coverage' = [coverage EXCEPT ![CoverageOf(obs)] = @ + 1]
          /\ obs' = [obs EXCEPT !.buffer = << >>]
  /\ bytewise' = [bytewise EXCEPT !.seen.buffer = << >>]
  /\ UNCHANGED relayed

-----------------------------------------------------------------------------
(***************************************************************************)
(* Properties.                                                             *)
(***************************************************************************)
\* What the observer has seen depends on the stream only, not on the chunks
\* (sse.py observe_bytes, _drain_events): it agrees with a reader of single
\* symbols, also about the events that do not fit into the buffer.
ChunkingIsInvisible == obs = bytewise.seen

\* A finalized stream is counted once as having shown content or not, and
\* once in the token coverage: as observed only with a valid usage, and as
\* invalid when parsing was given up without one (sse.py finalize).
StreamCountedOnce ==
  LET seen == bytewise.seen
  IN  /\ ttft.observed + ttft.missing = IF finalized \/ seen.content THEN 1 ELSE 0
      /\ ttft.observed = IF seen.content THEN 1 ELSE 0
      /\ coverage.observed + coverage.missing + coverage.invalid = IF finalized THEN 1 ELSE 0
      /\ coverage.observed > 0 => seen.usage = "observed"
      /\ coverage.missing > 0 => seen.usage = "none" /\ ~seen.disabled

\* What the class says of itself (sse.py:21): "Passively detect first content
\* and authoritative final usage."  When the last usage of a stream is valid
\* and the stream could be parsed, the stream is counted as observed.
FinalUsageIsAuthoritative ==
  finalized /\ ~bytewise.seen.disabled /\ bytewise.final = "usage" => coverage.observed = 1
=============================================================================
