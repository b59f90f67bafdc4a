---------------------------- MODULE BackendPool ----------------------------
(***************************************************************************)
(* gateway/routing/pool.py: health-filtered least-inflight routing over    *)
(* the configured backends, with the two gauges and the counter of         *)
(* gateway/observability/metrics.py that it feeds.                         *)
(*                                                                         *)
(* No section under BackendPool._lock awaits, so the lock is never         *)
(* contended and taking it never suspends: each action is what one task    *)
(* does between two awaits.  RoutedBackendStream._close_lock and           *)
(* BackendPool._close_lock are held across awaits, and are modelled.       *)
(*                                                                         *)
(* An operation is one call of generate, stream or generate_batch.  The    *)
(* leaf backends are external: an operation on one ends in any way, and    *)
(* up[s] says whether backend s answers /health with 2xx within the        *)
(* health timeout.                                                         *)
(***************************************************************************)
EXTENDS Integers, FiniteSets

CONSTANTS
  N,        \* len(_slots)
  Ops,      \* the operations
  Kind,     \* Kind[o]: "generate", "stream" or "batch"
  Weight,   \* Weight[o]: requests in the operation, 1 unless a batch
  Closers,  \* the callers of close
  MaxFlips, \* bound: how often a backend goes down or comes back
  NoSlot    \* an operation that selected no backend

Slots == 0..(N - 1)

ASSUME PoolAssumption ==
  /\ N \in Nat \ {0}
  /\ IsFiniteSet(Ops)
  /\ Kind \in [Ops -> {"generate", "stream", "batch"}]
  /\ Weight \in [Ops -> Nat \ {0}]
  /\ \A o \in Ops : Kind[o] # "batch" => Weight[o] = 1
  /\ MaxFlips \in Nat
  /\ NoSlot \notin Slots

VARIABLES
  up, flips,     \* external: the backends, and how often one changed
  healthy,       \* _BackendSlot.healthy; "none" before the first probe
  inflight,      \* _BackendSlot.inflight
  cursor,        \* _cursor
  gauge,         \* gateway_backend_healthy and gateway_backend_inflight
  slot,          \* the slot of the lease of an operation
  active,        \* _active_leases: operations whose lease is not released
  streams,       \* _active_streams: operations with a registered stream
  op,            \* where an operation is
  outcome,       \* the final_outcome its stream is being finished with
  observed,      \* how often backend_operation_observed counted it
  start, loop,   \* the call of start, and the probe loop task
  probe,         \* the probe of each slot in the current round
  closed,        \* _closed, and the stop event
  closer,        \* where each call of close is
  snapLeases, snapStreams, \* leases and streams, as close read them
  toClose,       \* the leaf clients whose close the running close awaits
  leafCloses     \* how often each leaf client was closed

slots == <<healthy, inflight, cursor, gauge>>
operations == <<slot, active, streams, op, outcome, observed>>
probes == <<start, loop, probe>>
closing == <<closed, closer, snapLeases, snapStreams, toClose, leafCloses>>
vars == <<up, flips, slots, operations, probes, closing>>

Outcomes == {"success", "error", "cancelled"}

\* An operation is running while it awaits its leaf; a stream is then open,
\* and finishing while a _finish holds its _close_lock: that of its consumer,
\* of close, or of the call of stream that found the pool closed.
Finishing == {"by consumer", "by close", "by opener"}
OpStates == {"idle", "running", "open", "refused", "ended"} \cup Finishing
CloseStages == {"probe", "streams", "backends", "leases"}

\* Every variable has its type.
TypeOK ==
  /\ up \in [Slots -> BOOLEAN] /\ flips \in 0..MaxFlips
  /\ healthy \in [Slots -> {"none", "yes", "no"}]
  /\ inflight \in [Slots -> Nat]
  /\ cursor \in Slots
  /\ gauge \in [Slots -> [healthy : BOOLEAN, inflight : Nat]]
  /\ slot \in [Ops -> Slots \cup {NoSlot}]
  /\ active \subseteq Ops /\ streams \subseteq Ops
  /\ op \in [Ops -> OpStates]
  /\ outcome \in [Ops -> Outcomes \cup {"none"}]
  /\ observed \in [Ops -> Nat]
  /\ start \in {"idle", "probing", "done"}
  /\ loop \in {"none", "sleeping", "probing", "ended"}
  /\ probe \in [Slots -> {"none", "asked", "yes", "no"}]
  /\ closed \in BOOLEAN
  /\ closer \in [Closers -> {"idle", "lock", "returned", "cancelled"} \cup CloseStages]
  /\ snapLeases \subseteq Ops /\ snapStreams \subseteq Ops
  /\ toClose \subseteq Slots /\ leafCloses \in [Slots -> Nat]

Init ==
  /\ up \in [Slots -> BOOLEAN] /\ flips = 0
  /\ healthy = [s \in Slots |-> "none"]
  /\ inflight = [s \in Slots |-> 0]
  /\ cursor = 0
  /\ gauge = [s \in Slots |-> [healthy |-> FALSE, inflight |-> 0]]
  /\ slot = [o \in Ops |-> NoSlot]
  /\ active = {} /\ streams = {}
  /\ op = [o \in Ops |-> "idle"]
  /\ outcome = [o \in Ops |-> "none"]
  /\ observed = [o \in Ops |-> 0]
  /\ start = "idle" /\ loop = "none"
  /\ probe = [s \in Slots |-> "none"]
  /\ closed = FALSE
  /\ closer = [c \in Closers |-> "idle"]
  /\ snapLeases = {} /\ snapStreams = {}
  /\ toClose = {} /\ leafCloses = [s \in Slots |-> 0]

-----------------------------------------------------------------------------
(***************************************************************************)
(* What the operations share.                                              *)
(***************************************************************************)
\* GatewayMetrics.backend_state_changed and backend_operation_observed
BackendStateChanged(states) == gauge' = states
BackendOperationObserved(os) ==
  observed' = [o \in Ops |-> IF o \in os THEN observed[o] + 1 ELSE observed[o]]

\* _notify_observer, after the step
Publish == BackendStateChanged([s \in Slots |-> [healthy |-> healthy'[s] = "yes" /\ ~closed',
                                                inflight |-> inflight'[s]]])

\* Mutation: only a selection and close publish.
NotifyNever(changed) == UNCHANGED gauge

\* a release of a released lease and a late _set_health publish nothing
NotifyIf(changed) == IF changed THEN Publish ELSE UNCHANGED gauge

\* Mutation: a probe reports the initial health and later losses only.
SetHealthOnce(s, value) ==
  IF closed \/ (value = "yes" /\ healthy[s] # "none")
  THEN UNCHANGED healthy
  ELSE healthy' = [healthy EXCEPT ![s] = value]

\* _set_health of slot s
SetHealth(s, value) ==
  IF closed THEN UNCHANGED healthy
            ELSE healthy' = [healthy EXCEPT ![s] = value]

\* Mutation: _released is not checked.
DueAlways(os) == os

\* the leases of these operations that _release finds unreleased
Due(os) == os \cap active

\* the requests that these operations have on slot s, one by one: each
\* operation has as many as its weight
Requests(os, s) == UNION {{o} \X (1..Weight[o]) : o \in {a \in os : slot[a] = s}}

\* _release of the leases of a set of operations
Release(os) ==
  /\ active' = active \ Due(os)
  /\ inflight' = [s \in Slots |-> inflight[s] - Cardinality(Requests(Due(os), s))]

\* _observe_operation of a set of operations
Observe(os) == BackendOperationObserved(os)

\* the candidates of _select: healthy, and least loaded among the healthy
Candidates ==
  {s \in Slots : /\ healthy[s] = "yes"
                 /\ \A t \in Slots : healthy[t] = "yes" => inflight[s] <= inflight[t]}

\* how far the rotation must advance from position c to reach slot s
Distance(c, s) == (s - c) % N

\* the candidate that the rotation reaches first from the cursor
Selected == CHOOSE s \in Candidates :
              \A t \in Candidates : Distance(cursor, s) <= Distance(cursor, t)

\* Mutation: the cursor stays on the slot it selected.
CursorStays(s) == s

\* the cursor after slot s was selected
CursorAfter(s) == (s + 1) % N

-----------------------------------------------------------------------------
(***************************************************************************)
(* Operations.                                                             *)
(***************************************************************************)
\* _select assigns the operation to a backend, and its leaf call begins
Select(o) ==
  /\ op[o] = "idle" /\ ~closed /\ Candidates # {}
  /\ slot' = [slot EXCEPT ![o] = Selected]
  /\ inflight' = [inflight EXCEPT ![Selected] = @ + Weight[o]]
  /\ cursor' = CursorAfter(Selected)
  /\ active' = active \cup {o}
  /\ op' = [op EXCEPT ![o] = "running"]
  /\ UNCHANGED <<up, flips, healthy, streams, outcome, observed, probes, closing>>
  /\ Publish

\* _select raises NoHealthyBackendError
Refuse(o) ==
  /\ op[o] = "idle" /\ (closed \/ Candidates = {})
  /\ op' = [op EXCEPT ![o] = "refused"]
  /\ UNCHANGED <<up, flips, slots, slot, active, streams, outcome, observed,
                 probes, closing>>

\* The leaf call of generate or generate_batch ends, or that of stream fails
\* or is cancelled: the operation is observed and its lease released.  An
\* error of _HEALTH_IMPACTING_ERRORS also takes the backend out.
LeafEnds(o, result) ==
  /\ op[o] = "running"
  /\ Kind[o] = "stream" => result # "success"
  /\ op' = [op EXCEPT ![o] = "ended"]
  /\ \/ UNCHANGED healthy
     \/ result = "error" /\ SetHealth(slot[o], "no")
  /\ Release({o}) /\ Observe({o})
  /\ UNCHANGED <<up, flips, cursor, slot, streams, outcome, probes, closing>>
  /\ NotifyIf(o \in active)

\* Mutation: a stream is registered although the pool is closed.
RegistersAlways == TRUE

\* _register_stream
Registers == ~closed

\* stream got its leaf stream and registers it; when close was called
\* meanwhile it finishes the stream itself
StreamOpens(o) ==
  /\ op[o] = "running" /\ Kind[o] = "stream"
  /\ IF Registers
     THEN /\ op' = [op EXCEPT ![o] = "open"]
          /\ streams' = streams \cup {o}
          /\ UNCHANGED outcome
     ELSE /\ op' = [op EXCEPT ![o] = "by opener"]
          /\ outcome' = [outcome EXCEPT ![o] = "error"]
          /\ UNCHANGED streams
  /\ UNCHANGED <<up, flips, slots, slot, active, observed, probes, closing>>

\* Mutation: _closed is not checked under the stream's _close_lock.
NotFinishedUnchecked(o) == op[o] \in {"open", "ended"} /\ Kind[o] = "stream"

\* _finish gets the _close_lock of the stream and finds it not closed
NotFinished(o) == op[o] = "open"

\* RoutedBackendStream._iterate ends, or its consumer calls aclose, and
\* _finish gets the _close_lock of the stream
ConsumerFinishes(o, result) ==
  /\ NotFinished(o)
  /\ op' = [op EXCEPT ![o] = "by consumer"]
  /\ outcome' = [outcome EXCEPT ![o] = result]
  /\ \/ UNCHANGED healthy
     \/ result = "error" /\ SetHealth(slot[o], "no")
  /\ UNCHANGED <<up, flips, inflight, cursor, slot, active, streams, observed,
                 probes, closing>>
  /\ NotifyIf(~closed)

\* the rest of _finish once the leaf stream is closed, whether its aclose
\* returned, raised or was cancelled
FinishStreams(os) ==
  /\ op' = [o \in Ops |-> IF o \in os THEN "ended" ELSE op[o]]
  /\ Release(os) /\ Observe(os)
  /\ streams' = streams \ os

LeafStreamCloses(o) ==
  /\ op[o] \in Finishing
  /\ \E final \in {outcome[o], "error", "cancelled"} :
       outcome' = [outcome EXCEPT ![o] = final]
  /\ FinishStreams({o})
  /\ UNCHANGED <<up, flips, healthy, cursor, slot, probes, closing>>
  /\ NotifyIf(o \in active)

-----------------------------------------------------------------------------
(***************************************************************************)
(* Health probes.                                                          *)
(***************************************************************************)
\* the backend itself fails or recovers (external)
Flip(s) ==
  /\ flips < MaxFlips
  /\ flips' = flips + 1
  /\ up' = [up EXCEPT ![s] = ~@]
  /\ UNCHANGED <<slots, operations, probes, closing>>

NoProbe == [s \in Slots |-> "none"]

\* probe_once asks every backend, unless the pool is closed
ProbeOnce == probe' = [s \in Slots |-> IF closed THEN "none" ELSE "asked"]

StartPool ==
  /\ start = "idle" /\ ~closed
  /\ start' = "probing" /\ ProbeOnce
  /\ UNCHANGED <<up, flips, slots, operations, loop, closing>>

\* start creates the probe loop, unless close was called meanwhile
StartEnds ==
  /\ start = "probing" /\ probe = NoProbe
  /\ start' = "done"
  /\ loop' = IF closed THEN loop ELSE "sleeping"
  /\ UNCHANGED <<up, flips, slots, operations, probe, closing>>

\* start is cancelled while it awaits the first round
StartCancelled ==
  /\ start = "probing"
  /\ start' = "done" /\ probe' = NoProbe
  /\ UNCHANGED <<up, flips, slots, operations, loop, closing>>

LoopProbes ==
  /\ loop = "sleeping" /\ ~closed
  /\ loop' = "probing" /\ ProbeOnce
  /\ UNCHANGED <<up, flips, slots, operations, start, closing>>

LoopSleeps ==
  /\ loop = "probing" /\ ~closed /\ probe = NoProbe
  /\ loop' = "sleeping"
  /\ UNCHANGED <<up, flips, slots, operations, start, probe, closing>>

\* the loop, cancelled by close, ends with the probes of its round
LoopCancelled ==
  /\ loop \in {"sleeping", "probing"} /\ closed
  /\ loop' = "ended" /\ probe' = NoProbe
  /\ UNCHANGED <<up, flips, slots, operations, start, closing>>

\* the backend answers a probe, or the health timeout expires (external)
ProbeAnswered(s) ==
  /\ probe[s] = "asked"
  /\ probe' = [probe EXCEPT ![s] = IF up[s] THEN "yes" ELSE "no"]
  /\ UNCHANGED <<up, flips, slots, operations, start, loop, closing>>

\* the answer reaches the probe task, which calls _set_health
ProbeDelivered(s) ==
  /\ probe[s] \in {"yes", "no"}
  /\ probe' = [probe EXCEPT ![s] = "none"]
  /\ SetHealth(s, probe[s])
  /\ UNCHANGED <<up, flips, inflight, cursor, operations, start, loop, closing>>
  /\ NotifyIf(~closed)

-----------------------------------------------------------------------------
(***************************************************************************)
(* close.                                                                  *)
(***************************************************************************)
\* a call of close; it waits for _close_lock
CloseCall(c) ==
  /\ closer[c] = "idle"
  /\ closer' = [closer EXCEPT ![c] = "lock"]
  /\ UNCHANGED <<up, flips, slots, operations, probes, closed, snapLeases,
                 snapStreams, toClose, leafCloses>>

\* Mutation: close waits for a probe loop that was never created.
FirstStageProbe == "probe"

\* what close awaits first
FirstStage == IF loop = "none" THEN "streams" ELSE "probe"

\* under _close_lock: the pool becomes closed and the probe loop is
\* cancelled, or, when it was closed before, the call returns
CloseEnter(c) ==
  /\ closer[c] = "lock"
  /\ \A d \in Closers : closer[d] \notin CloseStages
  /\ IF closed
     THEN /\ closer' = [closer EXCEPT ![c] = "returned"]
          /\ UNCHANGED <<closed, snapLeases, snapStreams>>
     ELSE /\ closed' = TRUE
          /\ snapLeases' = active
          /\ snapStreams' = streams
          /\ closer' = [closer EXCEPT ![c] = FirstStage]
  /\ UNCHANGED <<up, flips, slots, operations, probes, toClose, leafCloses>>

\* the probe loop ended; a cancellation of close until then ends here too,
\* in the except clause meant for the loop's
CloseProbeEnded(c) ==
  /\ closer[c] = "probe" /\ loop = "ended"
  /\ closer' = [closer EXCEPT ![c] = "streams"]
  /\ UNCHANGED <<up, flips, slots, operations, probes, closed, snapLeases,
                 snapStreams, toClose, leafCloses>>

\* aclose of one stream of the snapshot gets the stream's _close_lock
CloseStream(c, o) ==
  /\ closer[c] = "streams"
  /\ o \in snapStreams /\ NotFinished(o)
  /\ op' = [op EXCEPT ![o] = "by close"]
  /\ outcome' = [outcome EXCEPT ![o] = "cancelled"]
  /\ UNCHANGED <<up, flips, slots, slot, active, streams, observed, probes, closing>>

CloseStreamsEnded(c) ==
  /\ closer[c] = "streams"
  /\ \A o \in snapStreams : op[o] = "ended"
  /\ closer' = [closer EXCEPT ![c] = "backends"]
  /\ toClose' = Slots
  /\ UNCHANGED <<up, flips, slots, operations, probes, closed, snapLeases,
                 snapStreams, leafCloses>>

\* one leaf client closes; its exception would be swallowed
CloseBackend(c, s) ==
  /\ closer[c] = "backends" /\ s \in toClose
  /\ toClose' = toClose \ {s}
  /\ leafCloses' = [leafCloses EXCEPT ![s] = @ + 1]
  /\ UNCHANGED <<up, flips, slots, operations, probes, closed, closer,
                 snapLeases, snapStreams>>

CloseBackendsEnded(c) ==
  /\ closer[c] = "backends"
  /\ toClose = {}
  /\ closer' = [closer EXCEPT ![c] = "leases"]
  /\ UNCHANGED <<up, flips, slots, operations, probes, closed, snapLeases,
                 snapStreams, toClose, leafCloses>>

\* one child of the gather over the leases of the snapshot releases a lease
\* that nobody released before; the others find nothing to do
CloseRelease(c, o) ==
  /\ closer[c] = "leases" /\ o \in snapLeases \cap active
  /\ Release({o})
  /\ UNCHANGED <<up, flips, healthy, cursor, slot, streams, op, outcome, observed,
                 probes, closing>>
  /\ Publish

\* the gather over the leases returned: every slot is unhealthy
CloseEnds(c) ==
  /\ closer[c] = "leases" /\ snapLeases \cap active = {}
  /\ closer' = [closer EXCEPT ![c] = "returned"]
  /\ healthy' = [s \in Slots |-> "no"]
  /\ UNCHANGED <<up, flips, inflight, cursor, operations, probes, closed, snapLeases,
                 snapStreams, toClose, leafCloses>>
  /\ Publish

\* The call of close is cancelled: at the lock, or at one of its gathers,
\* whose children are cancelled with it; an empty gather does not suspend.
\* A stream that close was finishing ends, one whose aclose had not begun
\* stays open; a lease of the snapshot whose release had run stays released,
\* and the others are left to their operations.
CloseCancelled(c) ==
  /\ \/ closer[c] \in {"lock", "backends"}
     \/ closer[c] = "streams" /\ snapStreams # {}
     \/ closer[c] = "leases" /\ snapLeases # {}
  /\ closer' = [closer EXCEPT ![c] = "cancelled"]
  /\ UNCHANGED <<up, flips, healthy, cursor, slot, outcome, probes, closed,
                 snapLeases, snapStreams, toClose, leafCloses>>
  /\ LET finishing == IF closer[c] = "streams" THEN {o \in Ops : op[o] = "by close"} ELSE {}
     IN  IF finishing = {} THEN UNCHANGED <<inflight, gauge, active, streams, op, observed>>
         ELSE FinishStreams(finishing) /\ NotifyIf(finishing \cap active # {})

-----------------------------------------------------------------------------
OperationStep(o) ==
  \/ Select(o)
  \/ Refuse(o)
  \/ \E result \in Outcomes : LeafEnds(o, result)
  \/ StreamOpens(o)
  \/ \E result \in Outcomes : ConsumerFinishes(o, result)
  \/ LeafStreamCloses(o)

ProbeStep ==
  \/ StartEnds
  \/ LoopProbes
  \/ LoopSleeps
  \/ LoopCancelled
  \/ \E s \in Slots : ProbeAnswered(s) \/ ProbeDelivered(s)

CloseStep(c) ==
  \/ CloseEnter(c)
  \/ CloseProbeEnded(c)
  \/ \E o \in Ops : CloseStream(c, o)
  \/ CloseStreamsEnded(c)
  \/ \E s \in Slots : CloseBackend(c, s)
  \/ CloseBackendsEnded(c)
  \/ \E o \in Ops : CloseRelease(c, o)
  \/ CloseEnds(c)

Next ==
  \/ \E o \in Ops : OperationStep(o)
  \/ ProbeStep
  \/ StartPool
  \/ StartCancelled
  \/ \E c \in Closers : CloseCall(c) \/ CloseStep(c) \/ CloseCancelled(c)
  \/ \E s \in Slots : Flip(s)

Spec == Init /\ [][Next]_vars

\* The event loop resumes every task that can run, the health timer fires,
\* and a leaf call, stream or close ends: the HTTP client has a timeout.
Fairness ==
  /\ \A s \in Slots : WF_vars(ProbeAnswered(s)) /\ WF_vars(ProbeDelivered(s))
  /\ WF_vars(StartEnds) /\ WF_vars(LoopProbes) /\ WF_vars(LoopSleeps)
  /\ WF_vars(LoopCancelled)
  /\ \A o \in Ops :
       /\ WF_vars(StreamOpens(o) \/ \E result \in Outcomes : LeafEnds(o, result))
       /\ WF_vars(LeafStreamCloses(o))
  /\ \A c \in Closers : WF_vars(CloseStep(c))

FairSpec == Spec /\ Fairness

-----------------------------------------------------------------------------
(***************************************************************************)
(* Properties.                                                             *)
(***************************************************************************)
Unfinished == {o \in Ops : op[o] \in {"running", "open"} \cup Finishing}

\* the requests assigned to slot s
Assigned(s) == Requests(active, s)

\* The inflight count of a backend (pool.py _select, _release), which decides
\* every later selection, is the number of requests assigned to it: the
\* releases by the operation, by its stream and by close give a weight back
\* once.  Only an unfinished operation holds an assignment, and it loses it
\* before its end only to close, once every leaf client has been closed.
InflightIsAssignedWork ==
  /\ \A s \in Slots : inflight[s] = Cardinality(Assigned(s))
  /\ active \subseteq Unfinished
  /\ active # Unfinished => closed /\ \A s \in Slots : leafCloses[s] = 1

\* gateway_backend_requests_total counts every operation that selected a
\* backend once, when it ends, whoever ended it (pool.py generate, stream,
\* generate_batch and RoutedBackendStream._finish).
ObservedExactlyOnce ==
  \A o \in Ops : observed[o] = IF op[o] = "ended" THEN 1 ELSE 0

\* Once a call of close returned and none was cancelled, no stream is
\* registered, no request is assigned, the probe loop is gone, no backend is
\* shown healthy and every leaf client was closed exactly once, even when a
\* stream was being opened, or start was probing, while close ran.
CloseLeavesNothing ==
  (\E c \in Closers : closer[c] = "returned") /\ (\A c \in Closers : closer[c] # "cancelled")
  => /\ streams = {} /\ active = {}
     /\ \A o \in Ops : op[o] \notin {"open", "by consumer", "by close"}
     /\ loop \in {"none", "ended"}
     /\ \A s \in Slots : leafCloses[s] = 1 /\ inflight[s] = 0 /\ ~gauge[s].healthy

\* The gauges show the routing state after every change of it
\* (pool.py _notify_observer): the inflight counts always, the health until
\* close is called, from when on they may lag until it ends.
GaugesMirrorState ==
  \A s \in Slots :
    /\ gauge[s].inflight = inflight[s]
    /\ ~closed => (gauge[s].healthy <=> healthy[s] = "yes")
    /\ gauge[s].healthy => healthy[s] = "yes"

\* A least loaded healthy backend is not starved by the tie-break of _select:
\* a selection that passes it over brings the cursor strictly nearer to it,
\* so it is passed over at most N - 1 times in a row.
RotationReachesCandidates ==
  [][\A o \in Ops, s \in Candidates :
       slot'[o] # slot[o]
         => s = slot'[o] \/ Distance(cursor', s) < Distance(cursor, s)]_vars

\* Late probe answers and late failures of old operations may set the wrong
\* health, but not for good: while the probe loop runs, a backend that stays
\* up, or stays down, is eventually known to be, for ever (_probe_loop).
HealthConverges ==
  \A s \in Slots, v \in BOOLEAN :
    (<>[](up[s] = v /\ loop \in {"sleeping", "probing"}))
      => <>[](healthy[s] = IF v THEN "yes" ELSE "no")

\* Every call of close returns or is cancelled, whatever probes, streams and
\* other calls of close it waits for.
CloseTerminates ==
  \A c \in Closers : closer[c] = "lock" ~> closer[c] \in {"returned", "cancelled"}
=============================================================================
