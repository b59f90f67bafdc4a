----------------------------- MODULE Admission -----------------------------
(***************************************************************************)
(* gateway/admission/controller.py: the process-local admission controller *)
(* of the gateway.  A request takes a slot of its tenant and of the whole  *)
(* process at once, joins the bounded queue of its tenant, or is rejected; *)
(* a queued request is admitted by _dispatch_locked, which serves tenants  *)
(* round-robin, or leaves by timeout, by cancellation or by shutdown.      *)
(*                                                                         *)
(* The controller runs on one asyncio event loop.  No section under _lock  *)
(* awaits, so a section is never interleaved with another one: the         *)
(* variable phase says whether a section is running, every step of the     *)
(* event loop (a call, a timer, a cancellation, a task that resumes) needs *)
(* phase = "free", and a running section can only go on to its end.  The   *)
(* loop of _dispatch_locked takes one step per loop body.                  *)
(*                                                                         *)
(* A request is an identity that is used again once nothing of its earlier *)
(* call is left, so behaviours are not bounded by the number of requests.  *)
(***************************************************************************)
EXTENDS Integers, FiniteSets, Sequences, SequencesExt

CONSTANTS
  Tenants,            \* the tenants of the registry
  Requests,           \* identities of concurrent requests
  TenantOf,           \* TenantOf[r] is the tenant that request r acts for
  MaxInflight,        \* tenant.max_inflight
  MaxQueue,           \* tenant.max_queue
  GlobalMaxInflight,  \* _global_max_inflight
  GlobalMaxQueue,     \* _global_max_queue
  NoRequest           \* no acquire call is inside the section

ASSUME AdmissionAssumption ==
  /\ IsFiniteSet(Tenants)
  /\ IsFiniteSet(Requests)
  /\ TenantOf \in [Requests -> Tenants]
  /\ MaxInflight \in [Tenants -> Nat \ {0}]
  /\ MaxQueue \in [Tenants -> Nat]
  /\ GlobalMaxInflight \in Nat \ {0}
  /\ GlobalMaxQueue \in Nat
  /\ NoRequest \notin Requests

VARIABLES
  inflight,        \* _TenantState.inflight, per tenant
  queue,           \* _TenantState.queue, per tenant
  globalInflight,  \* _global_inflight
  globalQueued,    \* _global_queued
  active,          \* _active_tenants, the round-robin order
  activeIds,       \* _active_tenant_ids
  closed,          \* _closed
  phase,           \* what the section under _lock does, "free" outside
  candidates,      \* bodies the for loop of _dispatch_locked has left
  caller,          \* the acquire call that waits for its first dispatch
  task,            \* where the task of a request is
  future,          \* the state of its waiter's future
  interrupt,       \* what was thrown at its await and not yet handled
  lease            \* its AdmissionLease

counters == <<inflight, globalInflight>>
queues == <<queue, globalQueued, active, activeIds>>
section == <<phase, candidates, caller>>
tasks == <<task, future, interrupt>>
vars == <<counters, queues, section, tasks, closed, lease>>

-----------------------------------------------------------------------------
(***************************************************************************)
(* Types and initial state.                                                *)
(***************************************************************************)
Phases == {"free", "dispatch", "drain"}
TaskStates == {"idle", "waiting", "holding"}
FutureStates == {"none", "pending", "result", "exception", "cancelled"}
Interrupts == {"none", "timeout", "cancel"}
LeaseStates == {"none", "live", "released"}

\* Every variable has the type the code gives it; the counters never drop
\* below zero.
TypeOK ==
  /\ inflight \in [Tenants -> Nat]
  /\ queue \in [Tenants -> Seq(Requests)]
  /\ globalInflight \in Nat
  /\ globalQueued \in Nat
  /\ active \in Seq(Tenants)
  /\ activeIds \in SUBSET Tenants
  /\ closed \in BOOLEAN
  /\ phase \in Phases
  /\ candidates \in Nat
  /\ caller \in Requests \cup {NoRequest}
  /\ task \in [Requests -> TaskStates]
  /\ future \in [Requests -> FutureStates]
  /\ interrupt \in [Requests -> Interrupts]
  /\ lease \in [Requests -> LeaseStates]

Init ==
  /\ inflight = [t \in Tenants |-> 0]
  /\ queue = [t \in Tenants |-> << >>]
  /\ globalInflight = 0
  /\ globalQueued = 0
  /\ active = << >>
  /\ activeIds = {}
  /\ closed = FALSE
  /\ phase = "free"
  /\ candidates = 0
  /\ caller = NoRequest
  /\ task = [r \in Requests |-> "idle"]
  /\ future = [r \in Requests |-> "none"]
  /\ interrupt = [r \in Requests |-> "none"]
  /\ lease = [r \in Requests |-> "none"]

-----------------------------------------------------------------------------
(***************************************************************************)
(* Helpers of the sections under _lock.                                    *)
(***************************************************************************)
FutureDone(r) == future[r] \in {"result", "exception", "cancelled"}

\* Mutation: only the tenant's limit is looked at.
CanAdmitTenantOnly(t) == inflight[t] < MaxInflight[t]

CanAdmit(t) ==
  /\ inflight[t] < MaxInflight[t]
  /\ globalInflight < GlobalMaxInflight

\* _grant_locked: take the slots and make the lease.
Grant(r) ==
  /\ inflight' = [inflight EXCEPT ![TenantOf[r]] = @ + 1]
  /\ globalInflight' = globalInflight + 1
  /\ lease' = [lease EXCEPT ![r] = "live"]

\* Mutation: the slots are given back at every call.
ReleaseEveryTime(r) ==
  /\ inflight' = [inflight EXCEPT ![TenantOf[r]] = @ - 1]
  /\ globalInflight' = globalInflight - 1
  /\ lease' = [lease EXCEPT ![r] = "released"]

\* _release_locked: give the slots back, once.
ReleaseLocked(r) ==
  IF lease[r] = "live"
  THEN /\ inflight' = [inflight EXCEPT ![TenantOf[r]] = @ - 1]
       /\ globalInflight' = globalInflight - 1
       /\ lease' = [lease EXCEPT ![r] = "released"]
  ELSE UNCHANGED <<counters, lease>>

\* Mutation: an activated tenant goes to the head of the order.
ActivateTenantFirst(t, order, ids) ==
  /\ active' = IF t \in ids THEN order ELSE <<t>> \o order
  /\ activeIds' = ids \cup {t}

\* _activate_tenant_locked, for a given state of the two collections.
ActivateTenant(t, order, ids) ==
  /\ active' = IF t \in ids THEN order ELSE Append(order, t)
  /\ activeIds' = ids \cup {t}

\* _deactivate_tenant_locked.
DeactivateTenant(t) ==
  /\ active' = IF t \in activeIds THEN RemoveFirst(active, t) ELSE active
  /\ activeIds' = activeIds \ {t}

\* A call of _dispatch_locked on behalf of r: when the controller is open,
\* its for loop will inspect every tenant that is active now.
EnterDispatch(r) ==
  /\ phase' = IF closed THEN "free" ELSE "dispatch"
  /\ candidates' = IF closed THEN 0 ELSE Len(active')
  /\ caller' = IF closed THEN NoRequest ELSE r

LeaveSection ==
  /\ phase' = "free"
  /\ candidates' = 0
  /\ caller' = NoRequest

\* Mutation: the count drops although the waiter has left already.
RemoveWaiterAlwaysCounts(r) ==
  LET t == TenantOf[r] IN
  /\ queue' = [queue EXCEPT ![t] = RemoveFirst(@, r)]
  /\ globalQueued' = globalQueued - 1
  /\ IF queue'[t] = << >>
     THEN DeactivateTenant(t)
     ELSE UNCHANGED <<active, activeIds>>

\* Mutation: a tenant whose queue became empty stays active.
RemoveWaiterStaysActive(r) ==
  LET t == TenantOf[r] IN
  IF Contains(queue[t], r)
  THEN /\ queue' = [queue EXCEPT ![t] = RemoveFirst(@, r)]
       /\ globalQueued' = globalQueued - 1
       /\ UNCHANGED <<active, activeIds>>
  ELSE UNCHANGED queues

\* _remove_waiter_locked: take the waiter of r out of its queue if it is
\* still there.
RemoveWaiter(r) ==
  LET t == TenantOf[r] IN
  IF Contains(queue[t], r)
  THEN /\ queue' = [queue EXCEPT ![t] = RemoveFirst(@, r)]
       /\ globalQueued' = globalQueued - 1
       /\ IF queue'[t] = << >>
          THEN DeactivateTenant(t)
          ELSE UNCHANGED <<active, activeIds>>
  ELSE UNCHANGED queues

-----------------------------------------------------------------------------
(***************************************************************************)
(* _dispatch_locked, one step per body of its for loop.  A pass over the   *)
(* active tenants ends at the first grant, and the while loop then starts  *)
(* another pass; a pass without a grant ends the loop.                     *)
(***************************************************************************)
\* Mutation: the last candidate of a pass is not inspected.
DispatchingShort ==
  /\ phase = "dispatch"
  /\ globalInflight < GlobalMaxInflight
  /\ candidates > 1

Dispatching ==
  /\ phase = "dispatch"
  /\ globalInflight < GlobalMaxInflight
  /\ candidates > 0

DispatchDone == phase = "dispatch" /\ ~Dispatching

\* _discard_completed_waiters_locked: one body of its loop on the queue of
\* the tenant at the head of the round-robin order.
DiscardCompletedWaiter ==
  LET t == Head(active) IN
  /\ Dispatching
  /\ queue[t] # << >>
  /\ FutureDone(Head(queue[t]))
  /\ queue' = [queue EXCEPT ![t] = Tail(@)]
  /\ globalQueued' = globalQueued - 1
  /\ UNCHANGED <<counters, active, activeIds, section, tasks, closed, lease>>

\* The tenant has nobody waiting: it leaves the round-robin order.
VisitEmptyTenant ==
  LET t == Head(active) IN
  /\ Dispatching
  /\ queue[t] = << >>
  /\ active' = Tail(active)
  /\ activeIds' = activeIds \ {t}
  /\ candidates' = candidates - 1
  /\ UNCHANGED <<counters, queue, globalQueued, phase, caller, tasks, closed, lease>>

\* The tenant has no free slot: it goes to the tail of the order.
VisitTenantAtLimit ==
  LET t == Head(active) IN
  /\ Dispatching
  /\ queue[t] # << >>
  /\ ~FutureDone(Head(queue[t]))
  /\ inflight[t] >= MaxInflight[t]
  /\ ActivateTenant(t, Tail(active), activeIds \ {t})
  /\ candidates' = candidates - 1
  /\ UNCHANGED <<counters, queue, globalQueued, phase, caller, tasks, closed, lease>>

\* The tenant's oldest waiter is admitted and the tenant goes to the tail
\* of the order if somebody else of it waits; a new pass begins.
GrantWaiter(r) ==
  LET t == Head(active) IN
  /\ Dispatching
  /\ queue[t] # << >>
  /\ r = Head(queue[t])
  /\ ~FutureDone(r)
  /\ inflight[t] < MaxInflight[t]
  /\ queue' = [queue EXCEPT ![t] = Tail(@)]
  /\ globalQueued' = globalQueued - 1
  /\ IF Tail(queue[t]) # << >>
     THEN ActivateTenant(t, Tail(active), activeIds \ {t})
     ELSE active' = Tail(active) /\ activeIds' = activeIds \ {t}
  /\ Grant(r)
  /\ future' = [future EXCEPT ![r] = "result"]
  /\ candidates' = Len(active')
  /\ UNCHANGED <<phase, caller, task, interrupt, closed>>

\* The section ends with its last dispatch.
DispatchReturns ==
  /\ DispatchDone
  /\ caller = NoRequest
  /\ LeaveSection
  /\ UNCHANGED <<counters, queues, tasks, closed, lease>>

-----------------------------------------------------------------------------
(***************************************************************************)
(* _acquire: the section that decides, then the wait for the future.       *)
(***************************************************************************)
\* The call enters the section, or raises AdmissionUnavailableError.
Acquire(r) ==
  /\ phase = "free"
  /\ task[r] = "idle"
  /\ lease[r] # "live"
  /\ IF closed
     THEN UNCHANGED <<section, lease>>
     ELSE /\ lease' = [lease EXCEPT ![r] = "none"]
          /\ phase' = "dispatch"
          /\ candidates' = Len(active)
          /\ caller' = r
  /\ UNCHANGED <<counters, queues, tasks, closed>>

AdmitAtOnce(r) ==
  /\ DispatchDone
  /\ caller = r
  /\ queue[TenantOf[r]] = << >>
  /\ CanAdmit(TenantOf[r])
  /\ Grant(r)
  /\ task' = [task EXCEPT ![r] = "holding"]
  /\ LeaveSection
  /\ UNCHANGED <<queues, future, interrupt, closed>>

MustQueue(r) ==
  /\ DispatchDone
  /\ caller = r
  /\ ~(queue[TenantOf[r]] = << >> /\ CanAdmit(TenantOf[r]))

TenantQueueFull(t) == Len(queue[t]) >= MaxQueue[t]
GatewayQueueFull == globalQueued >= GlobalMaxQueue

\* TenantQueueFullError or GatewayQueueFullError.
RejectQueueFull(r) ==
  /\ MustQueue(r)
  /\ TenantQueueFull(TenantOf[r]) \/ GatewayQueueFull
  /\ LeaveSection
  /\ UNCHANGED <<counters, queues, tasks, closed, lease>>

\* The call joins the queue and dispatches once more before it waits.
Enqueue(r) ==
  LET t == TenantOf[r] IN
  /\ MustQueue(r)
  /\ ~TenantQueueFull(t)
  /\ ~GatewayQueueFull
  /\ queue' = [queue EXCEPT ![t] = Append(@, r)]
  /\ globalQueued' = globalQueued + 1
  /\ ActivateTenant(t, active, activeIds)
  /\ future' = [future EXCEPT ![r] = "pending"]
  /\ task' = [task EXCEPT ![r] = "waiting"]
  /\ EnterDispatch(NoRequest)
  /\ UNCHANGED <<counters, interrupt, closed, lease>>

\* asyncio: an interrupt is thrown at the await of a task.  It cancels the
\* future if that is still pending; a future that is done stays as it is
\* and the task resumes with the interrupt instead of the future's value.
Interrupt(r, kind) ==
  /\ interrupt' = [interrupt EXCEPT ![r] = kind]
  /\ future' = [future EXCEPT ![r] = IF @ = "pending" THEN "cancelled" ELSE @]
  /\ UNCHANGED <<counters, queues, section, task, closed, lease>>

\* asyncio.wait_for: its timer fires before the task has resumed.
TimeoutFires(r) ==
  /\ phase = "free"
  /\ task[r] = "waiting"
  /\ interrupt[r] = "none"
  /\ Interrupt(r, "timeout")

\* Task.cancel() from outside; it prevails over a timeout that fired.
CancelTask(r) ==
  /\ phase = "free"
  /\ task[r] = "waiting"
  /\ interrupt[r] # "cancel"
  /\ Interrupt(r, "cancel")

\* The call of r ends without a lease.
EndCall(r) ==
  /\ task' = [task EXCEPT ![r] = "idle"]
  /\ future' = [future EXCEPT ![r] = "none"]
  /\ interrupt' = [interrupt EXCEPT ![r] = "none"]

\* wait_for returns the lease.
ResumeAdmitted(r) ==
  /\ phase = "free"
  /\ task[r] = "waiting"
  /\ interrupt[r] = "none"
  /\ future[r] = "result"
  /\ task' = [task EXCEPT ![r] = "holding"]
  /\ future' = [future EXCEPT ![r] = "none"]
  /\ UNCHANGED <<counters, queues, section, interrupt, closed, lease>>

\* wait_for raises the AdmissionUnavailableError that shutdown left.
ResumeUnavailable(r) ==
  /\ phase = "free"
  /\ task[r] = "waiting"
  /\ interrupt[r] = "none"
  /\ future[r] = "exception"
  /\ EndCall(r)
  /\ UNCHANGED <<counters, queues, section, closed, lease>>

\* The handler of TimeoutError.
ResumeTimeout(r) ==
  /\ phase = "free"
  /\ task[r] = "waiting"
  /\ interrupt[r] = "timeout"
  /\ RemoveWaiter(r)
  /\ EnterDispatch(NoRequest)
  /\ EndCall(r)
  /\ UNCHANGED <<counters, closed, lease>>

\* Mutation: the handler forgets a lease that was granted meanwhile.
ResumeCancelledLeaks(r) ==
  /\ phase = "free"
  /\ task[r] = "waiting"
  /\ interrupt[r] = "cancel"
  /\ RemoveWaiter(r)
  /\ EnterDispatch(NoRequest)
  /\ EndCall(r)
  /\ UNCHANGED <<counters, lease, closed>>

\* The handler of CancelledError: a lease that was granted and never
\* delivered is released.
ResumeCancelled(r) ==
  /\ phase = "free"
  /\ task[r] = "waiting"
  /\ interrupt[r] = "cancel"
  /\ RemoveWaiter(r)
  /\ IF ~Contains(queue[TenantOf[r]], r) /\ future[r] = "result"
     THEN ReleaseLocked(r)
     ELSE UNCHANGED <<counters, lease>>
  /\ EnterDispatch(NoRequest)
  /\ EndCall(r)
  /\ UNCHANGED closed

-----------------------------------------------------------------------------
(***************************************************************************)
(* release and shutdown.                                                   *)
(***************************************************************************)
\* Mutation: the slot is free and nobody is told.
ReleaseWithoutDispatch(r) ==
  /\ phase = "free"
  /\ task[r] = "holding" \/ (task[r] = "idle" /\ lease[r] = "released")
  /\ ReleaseLocked(r)
  /\ task' = [task EXCEPT ![r] = "idle"]
  /\ UNCHANGED <<queues, section, future, interrupt, closed>>

\* AdmissionLease.release: by the operation that holds the slot, and again
\* by whoever still refers to a lease that was released.
Release(r) ==
  /\ phase = "free"
  /\ task[r] = "holding" \/ (task[r] = "idle" /\ lease[r] = "released")
  /\ ReleaseLocked(r)
  /\ task' = [task EXCEPT ![r] = "idle"]
  /\ UNCHANGED queues
  /\ EnterDispatch(NoRequest)
  /\ UNCHANGED <<future, interrupt, closed>>

\* shutdown closes the controller; a second call returns at once.
Shutdown ==
  /\ phase = "free"
  /\ closed' = TRUE
  /\ phase' = IF closed THEN phase ELSE "drain"
  /\ UNCHANGED <<counters, queues, candidates, caller, tasks, lease>>

\* Mutation: the waiter leaves its queue and its future stays unresolved.
FailWaiterSilently(t) ==
  /\ phase = "drain"
  /\ queue[t] # << >>
  /\ queue' = [queue EXCEPT ![t] = Tail(@)]
  /\ globalQueued' = globalQueued - 1
  /\ UNCHANGED <<counters, active, activeIds, section, tasks, closed, lease>>

\* One body of its loops: a waiter leaves its queue and, unless its future
\* is done, gets AdmissionUnavailableError.
FailWaiter(t) ==
  /\ phase = "drain"
  /\ queue[t] # << >>
  /\ queue' = [queue EXCEPT ![t] = Tail(@)]
  /\ globalQueued' = globalQueued - 1
  /\ future' = [future EXCEPT ![Head(queue[t])] =
                  IF @ = "pending" THEN "exception" ELSE @]
  /\ UNCHANGED <<counters, active, activeIds, section, task, interrupt, closed, lease>>

\* The queues are empty: the round-robin order is cleared.
ShutdownReturns ==
  /\ phase = "drain"
  /\ \A t \in Tenants : queue[t] = << >>
  /\ active' = << >>
  /\ activeIds' = {}
  /\ LeaveSection
  /\ UNCHANGED <<counters, queue, globalQueued, tasks, closed, lease>>

-----------------------------------------------------------------------------
DispatchStep ==
  \/ DiscardCompletedWaiter
  \/ VisitEmptyTenant
  \/ VisitTenantAtLimit
  \/ \E r \in Requests : GrantWaiter(r)
  \/ DispatchReturns

DecideStep(r) ==
  \/ AdmitAtOnce(r)
  \/ RejectQueueFull(r)
  \/ Enqueue(r)

DrainStep ==
  \/ \E t \in Tenants : FailWaiter(t)
  \/ ShutdownReturns

SectionStep ==
  \/ DispatchStep
  \/ \E r \in Requests : DecideStep(r)
  \/ DrainStep

Resume(r) ==
  \/ ResumeAdmitted(r)
  \/ ResumeUnavailable(r)
  \/ ResumeTimeout(r)
  \/ ResumeCancelled(r)

Next ==
  \/ SectionStep
  \/ \E r \in Requests :
       Acquire(r) \/ TimeoutFires(r) \/ CancelTask(r) \/ Resume(r) \/ Release(r)
  \/ Shutdown

Spec == Init /\ [][Next]_vars
-----------------------------------------------------------------------------
(***************************************************************************)
(* Fairness.  The event loop runs a section to its end and every callback  *)
(* that is ready after finitely many others, so a task that can resume     *)
(* does; an operation that holds a slot ends (every backend call has a     *)
(* deadline).  Nothing is assumed of timers, cancellations or new calls.   *)
(***************************************************************************)
Fairness ==
  /\ WF_vars(SectionStep)
  /\ \A r \in Requests : SF_vars(Resume(r))
  /\ \A r \in Requests : SF_vars(task[r] = "holding" /\ Release(r))

FairSpec == Spec /\ Fairness

-----------------------------------------------------------------------------
(***************************************************************************)
(* Safety.                                                                 *)
(***************************************************************************)
LiveLeases == {r \in Requests : lease[r] = "live"}
LiveLeasesOf(t) == {r \in LiveLeases : TenantOf[r] = t}
Queued == {r \in Requests : Contains(queue[TenantOf[r]], r)}
Waiting(r) == future[r] = "pending"

\* The counters of _grant_locked and _release_locked are the numbers of
\* leases that exist, whatever mix of grants, timeouts, cancellations and
\* repeated releases led here, and no limit is exceeded.
SlotAccounting ==
  /\ globalInflight = Cardinality(LiveLeases)
  /\ globalInflight <= GlobalMaxInflight
  /\ \A t \in Tenants :
       /\ inflight[t] = Cardinality(LiveLeasesOf(t))
       /\ inflight[t] <= MaxInflight[t]

\* The queues hold each waiter once, in the queue of its own tenant;
\* _global_queued is their number although waiters leave at five places of
\* the code; the queue limits hold; every unresolved future is in a queue.
QueueAccounting ==
  /\ globalQueued = Cardinality(Queued)
  /\ globalQueued <= GlobalMaxQueue
  /\ \A t \in Tenants :
       /\ Len(queue[t]) <= MaxQueue[t]
       /\ \A i, j \in DOMAIN queue[t] : queue[t][i] = queue[t][j] => i = j
       /\ \A i \in DOMAIN queue[t] :
            TenantOf[queue[t][i]] = t /\ task[queue[t][i]] = "waiting"
  /\ \A r \in Requests : Waiting(r) => r \in Queued

\* The round-robin order holds each active tenant once, and between
\* sections it holds exactly the tenants that have a queue: a tenant that
\* fell out of it would never be dispatched again.
RotationConsistent ==
  /\ activeIds = ToSet(active)
  /\ \A i, j \in DOMAIN active : active[i] = active[j] => i = j
  /\ phase = "free" => activeIds = {t \in Tenants : queue[t] # << >>}

\* Between sections no waiter is left in a queue while both a slot of its
\* tenant and a global slot are free.
WorkConserving ==
  phase = "free" => \A r \in Requests : Waiting(r) => ~CanAdmit(TenantOf[r])

\* After shutdown no waiter is left in a queue and no future unresolved.
NobodyLeftBehind ==
  closed /\ phase = "free" =>
    /\ globalQueued = 0
    /\ \A r \in Requests : ~Waiting(r)

\* A live lease belongs to an operation that holds it or to a task that is
\* about to receive it.
Orphaned(r) ==
  /\ lease[r] = "live"
  /\ ~(task[r] = "holding" \/ (task[r] = "waiting" /\ future[r] = "result"))

\* Every slot is held for one operation (AdmissionController.admit), so a
\* call that ends without a lease leaves none behind.
NoOrphanedLease == \A r \in Requests : ~Orphaned(r)

-----------------------------------------------------------------------------
(***************************************************************************)
(* What a step may never do.                                               *)
(***************************************************************************)
\* A cancelled call gives back a lease that was granted and not delivered:
\* a lease loses its owner only when a timeout overtakes the grant.
CancellationReleasesGrant ==
  [][\A r \in Requests :
       ~Orphaned(r) /\ Orphaned(r)' =>
         interrupt[r] = "timeout" /\ future[r] = "result"]_vars

Eligible(t) ==
  /\ inflight[t] < MaxInflight[t]
  /\ \E r \in Requests : TenantOf[r] = t /\ Waiting(r)

ServedBy(t) == \E r \in Requests : TenantOf[r] = t /\ Waiting(r) /\ future'[r] = "result"

Ahead(order, t, u) == \E i, j \in DOMAIN order : i < j /\ order[i] = t /\ order[j] = u

\* Tenants are served in turn: a tenant that is served does not stay ahead
\* of one that was eligible then, and nobody gets ahead of an eligible
\* tenant, by joining or by any other step, until that tenant is served or
\* stops being eligible.  So no tenant is served twice while another one is
\* eligible throughout.
RoundRobin ==
  [][\A t, u \in Tenants :
       t # u /\ Eligible(t) =>
         /\ ServedBy(u) => ~Ahead(active', u, t)
         /\ ~Ahead(active, u, t) /\ Eligible(t)' /\ ~ServedBy(t) =>
              ~Ahead(active', u, t)]_vars

-----------------------------------------------------------------------------
(***************************************************************************)
(* Liveness.                                                               *)
(***************************************************************************)
\* As long as no lease is orphaned, no waiter waits for ever, even if its
\* timer never fires and the other tenants never stop calling.
NoStarvation ==
  [](NoOrphanedLease) =>
    \A r \in Requests : Waiting(r) ~> ~Waiting(r)

\* After shutdown every call ends and every owned slot comes back.
ShutdownDrains ==
  closed ~> \A r \in Requests : task[r] = "idle" /\ (lease[r] = "live" => Orphaned(r))

-----------------------------------------------------------------------------
(***************************************************************************)
(* The controller implements the service: a slot is a live lease and a     *)
(* waiter is an unresolved future, wherever its queue entry is.            *)
(***************************************************************************)
Service == INSTANCE SlotService WITH
  holders <- LiveLeases,
  waiters <- {r \in Requests : Waiting(r)}

\* Every behaviour of the controller, with its queues of waiters that may
\* be dead already and its interleaved interrupts, is one of the service.
ImplementsSlotService == Service!Spec
=============================================================================
