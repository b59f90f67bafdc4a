-------------------------- MODULE AdmissionProofs --------------------------
(***************************************************************************)
(* Proofs about the admission controller, for every number of tenants and  *)
(* requests and every choice of the limits.                                *)
(*                                                                         *)
(* The inductive invariant IInv has these parts:                           *)
(*   Shape     the types, with counters in Int, and the loop bound         *)
(*   Tasks     what task, future, interrupt and lease say of each other    *)
(*   Lines     the queues and the futures of the waiters in them           *)
(*   Rotation  the round-robin order and the tenants that have a queue     *)
(*   Progress  what a pass over the active tenants has established         *)
(*   Slots     the inflight counters are numbers of live leases            *)
(*   Places    the queue counter is the number of queued waiters           *)
(***************************************************************************)
EXTENDS Admission, DistinctSequences, TLAPS, FiniteSetTheorems, SequenceTheorems

Shape ==
  /\ inflight \in [Tenants -> Int]
  /\ queue \in [Tenants -> Seq(Requests)]
  /\ globalInflight \in Int
  /\ globalQueued \in Int
  /\ active \in Seq(Tenants)
  /\ activeIds \in SUBSET Tenants
  /\ closed \in BOOLEAN
  /\ phase \in Phases
  /\ candidates \in Nat
  /\ caller \in Requests \cup {NoRequest}
  /\ task \in [Requests -> TaskStates]
  /\ future \in [Requests -> FutureStates]
  /\ interrupt \in [Requests -> Interrupts]
  /\ lease \in [Requests -> LeaseStates]
  /\ phase = "dispatch" => candidates <= Len(active)

Tasks ==
  /\ \A r \in Requests :
       /\ task[r] = "waiting" <=> future[r] # "none"
       /\ task[r] # "waiting" => interrupt[r] = "none"
       /\ task[r] = "holding" => lease[r] = "live"
       /\ future[r] = "pending" => interrupt[r] = "none"
       /\ future[r] = "result" => lease[r] = "live"
       /\ future[r] \in {"pending", "cancelled", "exception"} => lease[r] = "none"
  /\ caller # NoRequest =>
       phase = "dispatch" /\ task[caller] = "idle" /\ lease[caller] = "none"

Lines ==
  /\ \A t \in Tenants :
       /\ Distinct(queue[t])
       /\ \A r \in Requests :
            Contains(queue[t], r) =>
              TenantOf[r] = t /\ future[r] \in {"pending", "cancelled"}
  /\ \A r \in Requests : future[r] = "pending" => Contains(queue[TenantOf[r]], r)

Rotation ==
  /\ \A t \in Tenants : t \in activeIds <=> Contains(active, t)
  /\ Distinct(active)
  /\ phase = "dispatch" => ~closed
  /\ phase = "drain" => closed
  /\ closed /\ phase = "free" => \A t \in Tenants : queue[t] = << >>
  /\ \A t \in Tenants : queue[t] # << >> => t \in activeIds
  /\ \A t \in activeIds :
       queue[t] = << >> => (Dispatching /\ t = Head(active)) \/ phase = "drain"

\* A pass of the for loop leaves behind only tenants at their limit, and
\* between sections nobody waits who could be admitted.
Progress ==
  /\ phase = "dispatch" =>
       \A i \in candidates + 1 .. Len(active) :
         inflight[active[i]] >= MaxInflight[active[i]]
  /\ phase = "free" =>
       \A r \in Requests : future[r] = "pending" => ~CanAdmit(TenantOf[r])

Slots ==
  /\ globalInflight = Cardinality(LiveLeases)
  /\ globalInflight <= GlobalMaxInflight
  /\ \A t \in Tenants :
       /\ inflight[t] = Cardinality(LiveLeasesOf(t))
       /\ inflight[t] <= MaxInflight[t]

Places ==
  /\ globalQueued = Cardinality(Queued)
  /\ globalQueued <= GlobalMaxQueue
  /\ \A t \in Tenants : Len(queue[t]) <= MaxQueue[t]

IInv == Shape /\ Tasks /\ Lines /\ Rotation /\ Progress /\ Slots /\ Places

-----------------------------------------------------------------------------
(***************************************************************************)
(* Cardinalities.                                                          *)
(***************************************************************************)
\* A new lease counts once for the process and once for its tenant.
LEMMA GrantCounts ==
  ASSUME NEW r \in Requests, lease \in [Requests -> LeaseStates], lease[r] # "live",
         lease' = [lease EXCEPT ![r] = "live"]
  PROVE  /\ Cardinality(LiveLeases') = Cardinality(LiveLeases) + 1
         /\ \A t \in Tenants :
              Cardinality(LiveLeasesOf(t)') =
                Cardinality(LiveLeasesOf(t)) + IF t = TenantOf[r] THEN 1 ELSE 0
<1> USE AdmissionAssumption
<1>1. /\ LiveLeases' = LiveLeases \cup {r}
      /\ r \notin LiveLeases
      /\ IsFiniteSet(LiveLeases)
  <2>1. IsFiniteSet(LiveLeases)
    BY FS_Subset DEF LiveLeases
  <2>. QED BY <2>1 DEF LiveLeases
<1>2. ASSUME NEW t \in Tenants
      PROVE  Cardinality(LiveLeasesOf(t)') =
               Cardinality(LiveLeasesOf(t)) + IF t = TenantOf[r] THEN 1 ELSE 0
  <2>1. IsFiniteSet(LiveLeasesOf(t))
    BY <1>1, FS_Subset DEF LiveLeasesOf
  <2>2. Cardinality(LiveLeasesOf(t)) \in Nat
    BY <2>1, FS_CardinalityType
  <2>3. CASE t = TenantOf[r]
    <3>1. LiveLeasesOf(t)' = LiveLeasesOf(t) \cup {r} /\ r \notin LiveLeasesOf(t)
      BY <1>1, <2>3 DEF LiveLeasesOf
    <3>. QED BY <2>1, <2>3, <3>1, FS_AddElement
  <2>4. CASE t # TenantOf[r]
    <3>1. LiveLeasesOf(t)' = LiveLeasesOf(t)
      BY <1>1, <2>4 DEF LiveLeasesOf
    <3>. QED BY <2>2, <2>4, <3>1
  <2>. QED BY <2>3, <2>4
<1>. QED BY <1>1, <1>2, FS_AddElement

\* A released lease counts no more; the counters were positive.
LEMMA ReleaseCounts ==
  ASSUME NEW r \in Requests, lease \in [Requests -> LeaseStates], lease[r] = "live",
         lease' = [lease EXCEPT ![r] = "released"]
  PROVE  /\ Cardinality(LiveLeases) \in Nat \ {0}
         /\ Cardinality(LiveLeases') = Cardinality(LiveLeases) - 1
         /\ Cardinality(LiveLeasesOf(TenantOf[r])) \in Nat \ {0}
         /\ \A t \in Tenants :
              Cardinality(LiveLeasesOf(t)') =
                Cardinality(LiveLeasesOf(t)) - IF t = TenantOf[r] THEN 1 ELSE 0
<1> USE AdmissionAssumption
<1>1. /\ LiveLeases' = LiveLeases \ {r}
      /\ r \in LiveLeases
      /\ IsFiniteSet(LiveLeases)
  <2>1. IsFiniteSet(LiveLeases)
    BY FS_Subset DEF LiveLeases
  <2>. QED BY <2>1 DEF LiveLeases
<1>2. Cardinality(LiveLeases) \in Nat \ {0}
  BY <1>1, FS_EmptySet, FS_CardinalityType
<1>3. ASSUME NEW t \in Tenants
      PROVE  /\ IsFiniteSet(LiveLeasesOf(t))
             /\ Cardinality(LiveLeasesOf(t)) \in Nat
             /\ Cardinality(LiveLeasesOf(t)') =
                  Cardinality(LiveLeasesOf(t)) - IF t = TenantOf[r] THEN 1 ELSE 0
  <2>1. IsFiniteSet(LiveLeasesOf(t))
    BY <1>1, FS_Subset DEF LiveLeasesOf
  <2>2. Cardinality(LiveLeasesOf(t)) \in Nat
    BY <2>1, FS_CardinalityType
  <2>3. CASE t = TenantOf[r]
    <3>1. LiveLeasesOf(t)' = LiveLeasesOf(t) \ {r} /\ r \in LiveLeasesOf(t)
      BY <1>1, <2>3 DEF LiveLeasesOf
    <3>2. Cardinality(LiveLeasesOf(t) \ {r}) = Cardinality(LiveLeasesOf(t)) - 1
      BY <2>1, <3>1, FS_RemoveElement
    <3>. QED BY <2>1, <2>2, <2>3, <3>1, <3>2
  <2>4. CASE t # TenantOf[r]
    <3>1. LiveLeasesOf(t)' = LiveLeasesOf(t)
      BY <1>1, <2>4 DEF LiveLeasesOf
    <3>. QED BY <2>1, <2>2, <2>4, <3>1
  <2>. QED BY <2>3, <2>4
<1>4. Cardinality(LiveLeasesOf(TenantOf[r])) \in Nat \ {0}
  <2>1. TenantOf[r] \in Tenants /\ r \in LiveLeasesOf(TenantOf[r])
    BY <1>1 DEF LiveLeasesOf
  <2>2. IsFiniteSet(LiveLeasesOf(TenantOf[r]))
    BY <1>3, <2>1
  <2>. QED BY <2>1, <2>2, FS_EmptySet, FS_CardinalityType
<1>. QED BY <1>1, <1>2, <1>3, <1>4, FS_RemoveElement

\* A waiter that leaves its queue makes the number of queued waiters drop
\* by one.
LEMMA LeaveCounts ==
  ASSUME NEW r \in Requests, Lines, queue \in [Tenants -> Seq(Requests)],
         Contains(queue[TenantOf[r]], r),
         NEW s, queue' = [queue EXCEPT ![TenantOf[r]] = s],
         \A e : Contains(s, e) <=> Contains(queue[TenantOf[r]], e) /\ e # r
  PROVE  /\ Cardinality(Queued) \in Nat \ {0}
         /\ Cardinality(Queued') = Cardinality(Queued) - 1
<1> USE AdmissionAssumption
<1>1. IsFiniteSet(Queued) /\ r \in Queued
  <2>1. IsFiniteSet(Queued)
    BY FS_Subset DEF Queued
  <2>. QED BY <2>1 DEF Queued
<1>2. ASSUME NEW x \in Requests
      PROVE  Contains(queue'[TenantOf[x]], x) <=> Contains(queue[TenantOf[x]], x) /\ x # r
  <2>1. TenantOf[x] \in Tenants /\ TenantOf[r] \in Tenants
    OBVIOUS
  <2>2. CASE TenantOf[x] = TenantOf[r]
    BY <2>1, <2>2
  <2>3. CASE TenantOf[x] # TenantOf[r]
    BY <2>1, <2>3
  <2>. QED BY <2>2, <2>3
<1>3. Queued' = Queued \ {r}
  BY <1>2 DEF Queued
<1>. QED BY <1>1, <1>3, FS_RemoveElement, FS_EmptySet, FS_CardinalityType

\* One more queued waiter: the count of queued waiters grows by one.
LEMMA JoinCounts ==
  ASSUME NEW r \in Requests, Lines, queue \in [Tenants -> Seq(Requests)],
         ~Contains(queue[TenantOf[r]], r),
         NEW s, queue' = [queue EXCEPT ![TenantOf[r]] = s],
         \A e : Contains(s, e) <=> Contains(queue[TenantOf[r]], e) \/ e = r
  PROVE  Cardinality(Queued') = Cardinality(Queued) + 1
<1> USE AdmissionAssumption
<1>1. IsFiniteSet(Queued) /\ r \notin Queued
  <2>1. IsFiniteSet(Queued)
    BY FS_Subset DEF Queued
  <2>. QED BY <2>1 DEF Queued
<1>2. ASSUME NEW x \in Requests
      PROVE  Contains(queue'[TenantOf[x]], x) <=> Contains(queue[TenantOf[x]], x) \/ x = r
  <2>1. TenantOf[x] \in Tenants /\ TenantOf[r] \in Tenants
    OBVIOUS
  <2>2. CASE TenantOf[x] = TenantOf[r]
    BY <2>1, <2>2
  <2>3. CASE TenantOf[x] # TenantOf[r]
    BY <2>1, <2>3
  <2>. QED BY <2>2, <2>3
<1>3. Queued' = Queued \cup {r}
  BY <1>2 DEF Queued
<1>. QED BY <1>1, <1>3, FS_AddElement, FS_CardinalityType
-----------------------------------------------------------------------------
(***************************************************************************)
(* Every step preserves IInv: the steps of a dispatch.                     *)
(***************************************************************************)
\* Slots depends on the counters and the leases only.
LEMMA SlotsFrame ==
  ASSUME Slots, UNCHANGED <<inflight, globalInflight, lease>>
  PROVE  Slots'
BY DEF Slots, LiveLeases, LiveLeasesOf

\* Places depends on the queues and their count only.
LEMMA PlacesFrame ==
  ASSUME Places, UNCHANGED <<queue, globalQueued>>
  PROVE  Places'
BY DEF Places, Queued

\* The loop body looks at the tenant at the head of the order.
LEMMA HeadTenant ==
  ASSUME IInv, Dispatching
  PROVE  /\ active # << >>
         /\ Head(active) \in Tenants
         /\ Head(active) \in activeIds
         /\ queue[Head(active)] \in Seq(Requests)
         /\ Distinct(queue[Head(active)])
<1>1. active # << >>
  BY DEF IInv, Shape, Dispatching
<1>2. Head(active) \in Tenants /\ Contains(active, Head(active))
  BY <1>1, PopFacts DEF IInv, Shape, Rotation
<1>. QED BY <1>1, <1>2 DEF IInv, Shape, Lines, Rotation

\* What is at the head of the queue of a tenant.
LEMMA HeadWaiter ==
  ASSUME IInv, NEW t \in Tenants, queue[t] # << >>
  PROVE  /\ Head(queue[t]) \in Requests
         /\ TenantOf[Head(queue[t])] = t
         /\ Contains(queue[t], Head(queue[t]))
         /\ future[Head(queue[t])] \in {"pending", "cancelled"}
         /\ Tail(queue[t]) \in Seq(Requests)
         /\ Len(Tail(queue[t])) = Len(queue[t]) - 1
         /\ Distinct(Tail(queue[t]))
         /\ \A e : Contains(Tail(queue[t]), e) <=>
                     Contains(queue[t], e) /\ e # Head(queue[t])
<1>1. queue[t] \in Seq(Requests) /\ Distinct(queue[t])
  BY DEF IInv, Shape, Lines
<1>2. /\ Head(queue[t]) \in Requests
      /\ Contains(queue[t], Head(queue[t]))
      /\ Tail(queue[t]) \in Seq(Requests)
      /\ Len(Tail(queue[t])) = Len(queue[t]) - 1
      /\ Distinct(Tail(queue[t]))
      /\ \A e : Contains(Tail(queue[t]), e) <=>
                  Contains(queue[t], e) /\ e # Head(queue[t])
  BY <1>1, PopFacts
<1>3. TenantOf[Head(queue[t])] = t /\ future[Head(queue[t])] \in {"pending", "cancelled"}
  BY <1>2 DEF IInv, Lines
<1>. QED BY <1>2, <1>3

\* Taking the head of a queue keeps the count of queued waiters right.
LEMMA PopPlaces ==
  ASSUME IInv, NEW t \in Tenants, queue[t] # << >>,
         queue' = [queue EXCEPT ![t] = Tail(@)],
         globalQueued' = globalQueued - 1
  PROVE  Places'
<1> USE AdmissionAssumption
<1>1. queue' = [queue EXCEPT ![TenantOf[Head(queue[t])]] = Tail(queue[t])]
  BY HeadWaiter
<1>2. /\ Cardinality(Queued) \in Nat \ {0}
      /\ Cardinality(Queued') = Cardinality(Queued) - 1
  BY <1>1, HeadWaiter, LeaveCounts DEF IInv, Shape
<1>3. ASSUME NEW x \in Tenants
      PROVE  Len(queue'[x]) <= MaxQueue[x]
  <2>1. Len(queue[t]) \in Nat /\ Len(queue[t]) <= MaxQueue[t]
    BY DEF IInv, Shape, Places
  <2>2. CASE x = t
    <3>1. queue'[x] = Tail(queue[t])
      BY <2>2 DEF IInv, Shape
    <3>2. Len(Tail(queue[t])) = Len(queue[t]) - 1 /\ MaxQueue[t] \in Nat
      BY HeadWaiter
    <3>. QED BY <2>1, <2>2, <3>1, <3>2
  <2>3. CASE x # t
    BY <2>3 DEF IInv, Shape, Places
  <2>. QED BY <2>2, <2>3
<1>. QED BY <1>2, <1>3 DEF IInv, Places

\* _discard_completed_waiters_locked drops a waiter that is done.
LEMMA DiscardPreserves ==
  ASSUME IInv, DiscardCompletedWaiter
  PROVE  IInv'
<1> USE AdmissionAssumption
<1> DEFINE t == Head(active)
           w == Head(queue[t])
<1>1. /\ Dispatching /\ queue[t] # << >> /\ FutureDone(w)
      /\ queue' = [queue EXCEPT ![t] = Tail(queue[t])]
      /\ globalQueued' = globalQueued - 1
      /\ UNCHANGED <<inflight, globalInflight, active, activeIds, phase, candidates,
                     caller, task, future, interrupt, closed, lease>>
  BY DEF DiscardCompletedWaiter, counters, section, tasks
<1>2. t \in Tenants /\ t \in activeIds
  BY <1>1, HeadTenant
<1>3. /\ w \in Requests /\ TenantOf[w] = t /\ future[w] = "cancelled"
      /\ Tail(queue[t]) \in Seq(Requests)
      /\ Distinct(Tail(queue[t]))
      /\ \A e : Contains(Tail(queue[t]), e) <=> Contains(queue[t], e) /\ e # w
  BY <1>1, <1>2, HeadWaiter DEF FutureDone
<1> HIDE DEF t, w
<1>a. \A x \in Tenants : queue'[x] = IF x = t THEN Tail(queue[t]) ELSE queue[x]
  BY <1>1 DEF IInv, Shape
<1>4. Shape'
  <2>1. queue' \in [Tenants -> Seq(Requests)]
    BY <1>1, <1>3 DEF IInv, Shape
  <2>2. globalQueued' \in Int
    BY <1>1 DEF IInv, Shape
  <2>. QED BY <1>1, <2>1, <2>2 DEF IInv, Shape
<1>5. Tasks'
  BY <1>1 DEF IInv, Tasks
<1>6. Lines'
  <2>1. ASSUME NEW x \in Tenants
        PROVE  /\ Distinct(queue'[x])
               /\ \A q \in Requests :
                    Contains(queue'[x], q) =>
                      TenantOf[q] = x /\ future'[q] \in {"pending", "cancelled"}
    <3>1. CASE x = t
      BY <1>1, <1>3, <1>a, <3>1 DEF IInv, Lines
    <3>2. CASE x # t
      BY <1>1, <1>a, <3>2 DEF IInv, Lines
    <3>. QED BY <3>1, <3>2
  <2>2. ASSUME NEW q \in Requests, future'[q] = "pending"
        PROVE  Contains(queue'[TenantOf[q]], q)
    <3>1. q # w /\ TenantOf[q] \in Tenants /\ Contains(queue[TenantOf[q]], q)
      BY <1>1, <1>3, <2>2 DEF IInv, Lines
    <3>. QED BY <1>3, <1>a, <3>1
  <2>. QED BY <2>1, <2>2 DEF Lines
<1>7. Rotation'
  BY <1>1, <1>2, <1>3 DEF IInv, Shape, Rotation, Dispatching, t
<1>8. Progress'
  BY <1>1 DEF IInv, Progress, CanAdmit, Dispatching
<1>9. Slots' /\ Places'
  BY <1>1, <1>2, SlotsFrame, PopPlaces DEF IInv
<1>. QED BY <1>4, <1>5, <1>6, <1>7, <1>8, <1>9 DEF IInv

\* _dispatch_locked drops a tenant that has nobody waiting.
LEMMA VisitEmptyPreserves ==
  ASSUME IInv, VisitEmptyTenant
  PROVE  IInv'
<1> USE AdmissionAssumption
<1> DEFINE t == Head(active)
<1>1. /\ Dispatching /\ queue[t] = << >>
      /\ active' = Tail(active) /\ activeIds' = activeIds \ {t}
      /\ candidates' = candidates - 1
      /\ UNCHANGED <<inflight, globalInflight, queue, globalQueued, phase,
                     caller, task, future, interrupt, closed, lease>>
  BY DEF VisitEmptyTenant, counters, tasks
<1>2. t \in Tenants /\ t \in activeIds /\ active # << >>
  BY <1>1, HeadTenant
<1>3. /\ Tail(active) \in Seq(Tenants)
      /\ Len(Tail(active)) = Len(active) - 1
      /\ Distinct(Tail(active))
      /\ \A e : Contains(Tail(active), e) <=> Contains(active, e) /\ e # t
  BY <1>2, PopFacts DEF IInv, Shape, Rotation
<1>4. \A i \in 1..Len(active) - 1 : Tail(active)[i] = active[i + 1]
  BY <1>2, TailFacts DEF IInv, Shape
<1> HIDE DEF t
<1>5. Shape'
  <2>1. candidates' \in Nat /\ candidates' <= Len(active')
    BY <1>1, <1>3 DEF IInv, Shape, Dispatching
  <2>2. active' \in Seq(Tenants) /\ activeIds' \in SUBSET Tenants
    BY <1>1, <1>3 DEF IInv, Shape
  <2>. QED BY <1>1, <2>1, <2>2 DEF IInv, Shape
<1>6. Tasks' /\ Lines'
  BY <1>1 DEF IInv, Tasks, Lines
<1>7. Rotation'
  BY <1>1, <1>2, <1>3 DEF IInv, Shape, Rotation, Dispatching, t
<1>8. Progress'
  <2>1. phase = "dispatch" /\ candidates \in Nat /\ candidates > 0
    BY <1>1 DEF IInv, Shape, Dispatching
  <2>2. ASSUME NEW i \in candidates' + 1 .. Len(active')
        PROVE  inflight[active'[i]] >= MaxInflight[active'[i]]
    <3>1. i + 1 \in candidates + 1 .. Len(active) /\ i \in 1..Len(active) - 1
      BY <1>1, <1>3, <2>1 DEF IInv, Shape
    <3>2. active'[i] = active[i + 1]
      BY <1>1, <1>4, <3>1
    <3>. QED BY <2>1, <3>1, <3>2 DEF IInv, Progress
  <2>. QED BY <1>1, <2>1, <2>2 DEF Progress
<1>9. Slots' /\ Places'
  BY <1>1, SlotsFrame, PlacesFrame DEF IInv
<1>. QED BY <1>5, <1>6, <1>7, <1>8, <1>9 DEF IInv
\* A tenant that was taken from the head of the order and put back.
LEMMA RotateFacts ==
  ASSUME IInv, Dispatching
  PROVE  LET order == Append(Tail(active), Head(active)) IN
         /\ order \in Seq(Tenants)
         /\ Len(order) = Len(active)
         /\ Distinct(order)
         /\ \A e : Contains(order, e) <=> Contains(active, e)
         /\ \A i \in 1..Len(active) - 1 : order[i] = active[i + 1]
         /\ order[Len(active)] = Head(active)
<1>1. /\ active \in Seq(Tenants) /\ active # << >> /\ Distinct(active)
      /\ Head(active) \in Tenants
  BY HeadTenant DEF IInv, Shape, Rotation
<1>2. /\ Tail(active) \in Seq(Tenants)
      /\ Len(Tail(active)) = Len(active) - 1
      /\ Distinct(Tail(active))
      /\ Contains(active, Head(active))
      /\ \A e : Contains(Tail(active), e) <=> Contains(active, e) /\ e # Head(active)
  BY <1>1, PopFacts
<1>3. \A i \in 1..Len(active) - 1 : Tail(active)[i] = active[i + 1]
  BY <1>1, TailFacts
<1> DEFINE u == Tail(active)
           x == Head(active)
<1>4. u \in Seq(Tenants) /\ x \in Tenants /\ Distinct(u) /\ ~Contains(u, x)
  BY <1>1, <1>2
<1> HIDE DEF u, x
<1>5. /\ Append(u, x) \in Seq(Tenants)
      /\ Len(Append(u, x)) = Len(u) + 1
      /\ Distinct(Append(u, x))
      /\ \A e : Contains(Append(u, x), e) <=> Contains(u, e) \/ e = x
  BY <1>4, PushFacts
<1>6. /\ \A i \in 1..Len(u) : Append(u, x)[i] = u[i]
      /\ Append(u, x)[Len(u) + 1] = x
  BY <1>4, AppendFacts
<1>7. Len(u) + 1 = Len(active) /\ Len(active) \in Nat
  BY <1>1, <1>2 DEF u
<1>8. \A e : Contains(Append(u, x), e) <=> Contains(active, e)
  BY <1>2, <1>5 DEF u, x
<1>9. \A i \in 1..Len(active) - 1 : Append(u, x)[i] = active[i + 1]
  BY <1>3, <1>6, <1>7 DEF u
<1>. QED BY <1>5, <1>6, <1>7, <1>8, <1>9 DEF u, x

\* Taking a slot when there is room, and giving it back.
LEMMA GrantSlots ==
  ASSUME IInv, NEW r \in Requests, lease[r] # "live", CanAdmit(TenantOf[r]), Grant(r)
  PROVE  /\ Slots' /\ lease' \in [Requests -> LeaseStates]
         /\ inflight' \in [Tenants -> Int] /\ globalInflight' \in Int
<1> USE AdmissionAssumption
<1> DEFINE t == TenantOf[r]
<1>1. /\ inflight' = [inflight EXCEPT ![t] = inflight[t] + 1]
      /\ globalInflight' = globalInflight + 1
      /\ lease' = [lease EXCEPT ![r] = "live"]
  BY DEF Grant
<1>2. /\ inflight \in [Tenants -> Int] /\ globalInflight \in Int /\ t \in Tenants
      /\ lease \in [Requests -> LeaseStates]
      /\ GlobalMaxInflight \in Nat /\ MaxInflight \in [Tenants -> Nat]
  BY DEF IInv, Shape
<1>3. inflight[t] < MaxInflight[t] /\ globalInflight < GlobalMaxInflight
  BY DEF CanAdmit
<1>4. /\ Cardinality(LiveLeases') = Cardinality(LiveLeases) + 1
      /\ \A x \in Tenants :
            Cardinality(LiveLeasesOf(x)') =
              Cardinality(LiveLeasesOf(x)) + IF x = t THEN 1 ELSE 0
  BY <1>1, <1>2, GrantCounts
<1> HIDE DEF t
<1>5. globalInflight' = Cardinality(LiveLeases') /\ globalInflight' <= GlobalMaxInflight
  BY <1>1, <1>2, <1>3, <1>4 DEF IInv, Slots
<1>6. ASSUME NEW x \in Tenants
      PROVE  inflight'[x] = Cardinality(LiveLeasesOf(x)') /\ inflight'[x] <= MaxInflight[x]
  <2>1. inflight'[x] = IF x = t THEN inflight[x] + 1 ELSE inflight[x]
    BY <1>1, <1>2
  <2>2. /\ inflight[x] \in Int /\ inflight[x] = Cardinality(LiveLeasesOf(x))
        /\ inflight[x] <= MaxInflight[x]
    BY <1>2 DEF IInv, Slots
  <2>. QED BY <1>2, <1>3, <1>4, <2>1, <2>2
<1>7. lease' \in [Requests -> LeaseStates]
  BY <1>1, <1>2 DEF LeaseStates
<1>8. inflight' \in [Tenants -> Int] /\ globalInflight' \in Int
  BY <1>1, <1>2
<1>. QED BY <1>5, <1>6, <1>7, <1>8 DEF Slots

\* _release_locked keeps the counters equal to the live leases.
LEMMA ReleaseSlots ==
  ASSUME IInv, NEW r \in Requests, ReleaseLocked(r)
  PROVE  /\ Slots' /\ lease' \in [Requests -> LeaseStates]
         /\ inflight' \in [Tenants -> Int] /\ globalInflight' \in Int
         /\ lease' = [lease EXCEPT ![r] = IF @ = "live" THEN "released" ELSE @]
<1> USE AdmissionAssumption
<1> DEFINE t == TenantOf[r]
<1>2. /\ inflight \in [Tenants -> Int] /\ globalInflight \in Int /\ t \in Tenants
      /\ lease \in [Requests -> LeaseStates]
      /\ GlobalMaxInflight \in Nat /\ MaxInflight \in [Tenants -> Nat]
  BY DEF IInv, Shape
<1>a. CASE lease[r] # "live"
  <2>1. UNCHANGED <<inflight, globalInflight, lease>>
    BY <1>a DEF ReleaseLocked, counters
  <2>. QED BY <1>a, <1>2, <2>1, SlotsFrame DEF IInv
<1>b. CASE lease[r] = "live"
  <2>1. /\ inflight' = [inflight EXCEPT ![t] = inflight[t] - 1]
        /\ globalInflight' = globalInflight - 1
        /\ lease' = [lease EXCEPT ![r] = "released"]
    BY <1>b DEF ReleaseLocked
  <2>4. /\ Cardinality(LiveLeases') = Cardinality(LiveLeases) - 1
        /\ \A x \in Tenants :
              Cardinality(LiveLeasesOf(x)') =
                Cardinality(LiveLeasesOf(x)) - IF x = t THEN 1 ELSE 0
    BY <1>b, <1>2, <2>1, ReleaseCounts
  <2> HIDE DEF t
  <2>5. globalInflight' = Cardinality(LiveLeases') /\ globalInflight' <= GlobalMaxInflight
    BY <1>2, <2>1, <2>4 DEF IInv, Slots
  <2>6. ASSUME NEW x \in Tenants
        PROVE  inflight'[x] = Cardinality(LiveLeasesOf(x)') /\ inflight'[x] <= MaxInflight[x]
    <3>1. inflight'[x] = IF x = t THEN inflight[x] - 1 ELSE inflight[x]
      BY <1>2, <2>1
    <3>2. /\ inflight[x] \in Int /\ inflight[x] = Cardinality(LiveLeasesOf(x))
          /\ inflight[x] <= MaxInflight[x]
      BY <1>2 DEF IInv, Slots
    <3>. QED BY <1>2, <2>4, <3>1, <3>2
  <2>7. lease' \in [Requests -> LeaseStates]
    BY <1>2, <2>1 DEF LeaseStates
  <2>8. inflight' \in [Tenants -> Int] /\ globalInflight' \in Int
    BY <1>2, <2>1
  <2>. QED BY <1>b, <2>1, <2>5, <2>6, <2>7, <2>8 DEF Slots
<1>. QED BY <1>a, <1>b

\* _dispatch_locked sends a tenant without a free slot to the tail.
LEMMA VisitAtLimitPreserves ==
  ASSUME IInv, VisitTenantAtLimit
  PROVE  IInv'
<1> USE AdmissionAssumption
<1> DEFINE t == Head(active)
           order == Append(Tail(active), Head(active))
<1>1. t \in Tenants /\ t \in activeIds /\ active # << >> /\ Dispatching
  BY HeadTenant DEF VisitTenantAtLimit
<1>2. /\ queue[t] # << >> /\ inflight[t] >= MaxInflight[t]
      /\ active' = order /\ activeIds' = activeIds
      /\ candidates' = candidates - 1
      /\ UNCHANGED <<inflight, globalInflight, queue, globalQueued, phase,
                     caller, task, future, interrupt, closed, lease>>
  BY <1>1 DEF VisitTenantAtLimit, ActivateTenant, counters, tasks
<1>3. /\ order \in Seq(Tenants)
      /\ Len(order) = Len(active)
      /\ Distinct(order)
      /\ \A e : Contains(order, e) <=> Contains(active, e)
      /\ \A i \in 1..Len(active) - 1 : order[i] = active[i + 1]
      /\ order[Len(active)] = t
  BY <1>1, RotateFacts
<1>4. candidates \in Nat /\ candidates > 0 /\ candidates <= Len(active) /\ phase = "dispatch"
  BY <1>1 DEF IInv, Shape, Dispatching
<1> HIDE DEF t, order
<1>5. Shape'
  <2>1. candidates' \in Nat /\ candidates' <= Len(active')
    BY <1>2, <1>3, <1>4 DEF IInv, Shape
  <2>. QED BY <1>2, <1>3, <2>1 DEF IInv, Shape
<1>6. Tasks' /\ Lines'
  BY <1>2 DEF IInv, Tasks, Lines
<1>7. Rotation'
  <2>1. \A x \in activeIds : queue[x] # << >>
    BY <1>1, <1>2, <1>4 DEF IInv, Rotation, t
  <2>. QED BY <1>2, <1>3, <1>4, <2>1 DEF IInv, Shape, Rotation
<1>8. Progress'
  <2>1. ASSUME NEW i \in candidates' + 1 .. Len(active')
        PROVE  inflight[active'[i]] >= MaxInflight[active'[i]]
    <3>1. CASE i = Len(active)
      BY <1>2, <1>3, <3>1
    <3>2. CASE i # Len(active)
      <4>1. i + 1 \in candidates + 1 .. Len(active) /\ i \in 1..Len(active) - 1
        BY <1>2, <1>3, <1>4, <3>2 DEF IInv, Shape
      <4>2. active'[i] = active[i + 1]
        BY <1>2, <1>3, <4>1
      <4>. QED BY <1>4, <4>1, <4>2 DEF IInv, Progress
    <3>. QED BY <3>1, <3>2
  <2>. QED BY <1>2, <1>4, <2>1 DEF Progress
<1>9. Slots' /\ Places'
  BY <1>2, SlotsFrame, PlacesFrame DEF IInv
<1>. QED BY <1>5, <1>6, <1>7, <1>8, <1>9 DEF IInv

\* _dispatch_locked grants a slot to the oldest waiter of the tenant.
LEMMA GrantWaiterPreserves ==
  ASSUME IInv, NEW r \in Requests, GrantWaiter(r)
  PROVE  IInv'
<1> USE AdmissionAssumption
<1> DEFINE t == Head(active)
           order == Append(Tail(active), Head(active))
<1>1. t \in Tenants /\ t \in activeIds /\ active # << >> /\ Dispatching
  BY HeadTenant DEF GrantWaiter
<1>2. /\ queue[t] # << >> /\ r = Head(queue[t]) /\ ~FutureDone(r)
      /\ inflight[t] < MaxInflight[t]
      /\ queue' = [queue EXCEPT ![t] = Tail(queue[t])]
      /\ globalQueued' = globalQueued - 1
      /\ IF Tail(queue[t]) # << >>
         THEN active' = order /\ activeIds' = activeIds
         ELSE active' = Tail(active) /\ activeIds' = activeIds \ {t}
      /\ inflight' = [inflight EXCEPT ![TenantOf[r]] = inflight[TenantOf[r]] + 1]
      /\ globalInflight' = globalInflight + 1
      /\ lease' = [lease EXCEPT ![r] = "live"]
      /\ future' = [future EXCEPT ![r] = "result"]
      /\ candidates' = Len(active')
      /\ UNCHANGED <<phase, caller, task, interrupt, closed>>
  BY <1>1 DEF GrantWaiter, Grant, ActivateTenant
<1>3. /\ TenantOf[r] = t /\ future[r] = "pending"
      /\ Tail(queue[t]) \in Seq(Requests)
      /\ Distinct(Tail(queue[t]))
      /\ \A e : Contains(Tail(queue[t]), e) <=> Contains(queue[t], e) /\ e # r
  BY <1>1, <1>2, HeadWaiter DEF FutureDone
<1>4. phase = "dispatch" /\ globalInflight < GlobalMaxInflight /\ ~closed
  BY <1>1 DEF IInv, Rotation, Dispatching
<1>a. \A x \in Tenants : queue'[x] = IF x = t THEN Tail(queue[t]) ELSE queue[x]
  BY <1>2 DEF IInv, Shape
<1>5. /\ active' \in Seq(Tenants) /\ Distinct(active')
      /\ \A x \in Tenants : x \in activeIds' <=> Contains(active', x)
      /\ activeIds' \in SUBSET Tenants
      /\ \A x \in Tenants : x \in activeIds' <=> x \in activeIds /\ queue'[x] # << >>
  <2>1. \A x \in activeIds : x # t => queue[x] # << >>
    BY <1>1, <1>4 DEF IInv, Rotation
  <2>2. activeIds \in SUBSET Tenants /\ \A x \in Tenants : x \in activeIds <=> Contains(active, x)
    BY DEF IInv, Shape, Rotation
  <2>3. CASE Tail(queue[t]) # << >>
    <3>1. /\ order \in Seq(Tenants) /\ Distinct(order)
          /\ \A e : Contains(order, e) <=> Contains(active, e)
      BY <1>1, RotateFacts
    <3>2. active' = order /\ activeIds' = activeIds
      BY <1>2, <2>3
    <3> HIDE DEF order, t
    <3>. QED BY <1>1, <1>a, <2>1, <2>2, <2>3, <3>1, <3>2
  <2>4. CASE Tail(queue[t]) = << >>
    <3>1. /\ Tail(active) \in Seq(Tenants) /\ Distinct(Tail(active))
          /\ \A e : Contains(Tail(active), e) <=> Contains(active, e) /\ e # t
      BY <1>1, PopFacts DEF IInv, Shape, Rotation
    <3>2. active' = Tail(active) /\ activeIds' = activeIds \ {t}
      BY <1>2, <2>4
    <3> HIDE DEF order, t
    <3>. QED BY <1>1, <1>a, <2>1, <2>2, <2>4, <3>1, <3>2
  <2>. QED BY <2>3, <2>4
<1>6. lease[r] = "none" /\ task[r] = "waiting"
  BY <1>3 DEF IInv, Tasks
<1>b. /\ Slots' /\ lease' \in [Requests -> LeaseStates]
      /\ inflight' \in [Tenants -> Int] /\ globalInflight' \in Int
  BY <1>2, <1>3, <1>4, <1>6, GrantSlots DEF CanAdmit, GrantWaiter
<1> HIDE DEF t, order
<1>7. Shape'
  <2>1. candidates' \in Nat /\ candidates' <= Len(active')
    BY <1>2, <1>5
  <2>2. queue' \in [Tenants -> Seq(Requests)] /\ globalQueued' \in Int
    BY <1>2, <1>3 DEF IInv, Shape
  <2>3. future' \in [Requests -> FutureStates]
    BY <1>2 DEF IInv, Shape, FutureStates
  <2>. QED BY <1>2, <1>5, <1>b, <2>1, <2>2, <2>3 DEF IInv, Shape
<1>8. Tasks'
  <2>1. caller # NoRequest => caller \in Requests /\ caller # r
    BY <1>6 DEF IInv, Shape, Tasks
  <2>. QED BY <1>2, <1>3, <1>6, <2>1 DEF IInv, Shape, Tasks
<1>9. Lines'
  <2>1. \A x \in Requests : future'[x] = IF x = r THEN "result" ELSE future[x]
    BY <1>2 DEF IInv, Shape
  <2>2. \A x \in Requests : TenantOf[x] \in Tenants
    OBVIOUS
  <2>3. ASSUME NEW x \in Tenants
        PROVE  /\ Distinct(queue'[x])
               /\ \A q \in Requests :
                    Contains(queue'[x], q) =>
                      TenantOf[q] = x /\ future'[q] \in {"pending", "cancelled"}
    <3>1. CASE x = t
      BY <1>1, <1>3, <1>a, <2>1, <3>1 DEF IInv, Lines
    <3>2. CASE x # t
      <4>1. queue'[x] = queue[x]
        BY <1>3, <1>a, <3>2
      <4>2. /\ Distinct(queue[x])
            /\ \A q \in Requests : Contains(queue[x], q) =>
                 TenantOf[q] = x /\ future[q] \in {"pending", "cancelled"}
        BY DEF IInv, Lines
      <4>3. \A q \in Requests : Contains(queue[x], q) => future'[q] = future[q]
        BY <1>3, <2>1, <3>2, <4>2
      <4>. QED BY <4>1, <4>2, <4>3
    <3>. QED BY <3>1, <3>2
  <2>4. ASSUME NEW q \in Requests, future'[q] = "pending"
        PROVE  Contains(queue'[TenantOf[q]], q)
    <3>1. q # r /\ Contains(queue[TenantOf[q]], q)
      BY <2>1, <2>4 DEF IInv, Lines
    <3>. QED BY <1>1, <1>3, <1>a, <2>2, <3>1
  <2>. QED BY <2>3, <2>4 DEF Lines
<1>10. Rotation'
  BY <1>1, <1>2, <1>3, <1>4, <1>5 DEF IInv, Shape, Rotation
<1>11. Progress'
  <2>1. Len(active') + 1 .. Len(active') = {}
    BY <1>5
  <2>. QED BY <1>2, <1>4, <2>1 DEF Progress
<1>12. Slots'
  BY <1>b
<1>13. Places'
  BY <1>1, <1>2, PopPlaces
<1>. QED BY <1>7, <1>8, <1>9, <1>10, <1>11, <1>12, <1>13 DEF IInv

\* When a dispatch has nothing left to do, a tenant that has a queue has no
\* room for another request.
LEMMA QuietDispatch ==
  ASSUME IInv, phase = "dispatch", ~Dispatching
  PROVE  /\ \A t \in Tenants : queue[t] # << >> => ~CanAdmit(t)
         /\ \A r \in Requests : future[r] = "pending" => ~CanAdmit(TenantOf[r])
<1> USE AdmissionAssumption
<1>1. ASSUME NEW t \in Tenants, queue[t] # << >>, CanAdmit(t)
      PROVE  FALSE
  <2>1. candidates = 0
    BY <1>1 DEF IInv, Shape, Dispatching, CanAdmit
  <2>2. PICK i \in 1..Len(active) : active[i] = t
    <3>1. Contains(active, t)
      BY <1>1 DEF IInv, Rotation
    <3>. QED BY <3>1 DEF Contains
  <2>3. inflight[t] >= MaxInflight[t]
    <3>1. i \in candidates + 1 .. Len(active)
      BY <2>1
    <3>. QED BY <2>2, <3>1 DEF IInv, Progress
  <2>. QED BY <1>1, <2>3 DEF IInv, Shape, CanAdmit
<1>2. ASSUME NEW r \in Requests, future[r] = "pending"
      PROVE  ~CanAdmit(TenantOf[r])
  <2>1. TenantOf[r] \in Tenants /\ queue[TenantOf[r]] # << >>
    BY <1>2, EmptyFacts DEF IInv, Lines
  <2>. QED BY <1>1, <2>1
<1>. QED BY <1>1, <1>2

\* A section ends after its last dispatch: no eligible waiter is left.
LEMMA DispatchReturnsPreserves ==
  ASSUME IInv, DispatchReturns
  PROVE  IInv'
<1> USE AdmissionAssumption
<1>1. /\ phase = "dispatch" /\ ~Dispatching /\ caller = NoRequest
      /\ phase' = "free" /\ candidates' = 0 /\ caller' = NoRequest
      /\ UNCHANGED <<inflight, globalInflight, queue, globalQueued, active, activeIds,
                     task, future, interrupt, closed, lease>>
  BY DEF DispatchReturns, DispatchDone, LeaveSection, counters, queues, tasks
<1>2. Shape'
  BY <1>1 DEF IInv, Shape, Phases
<1>3. Tasks' /\ Lines'
  BY <1>1 DEF IInv, Tasks, Lines
<1>4. Rotation'
  BY <1>1 DEF IInv, Rotation, Dispatching
<1>5. Progress'
  BY <1>1, QuietDispatch DEF Progress, CanAdmit
<1>6. Slots' /\ Places'
  BY <1>1, SlotsFrame, PlacesFrame DEF IInv
<1>. QED BY <1>2, <1>3, <1>4, <1>5, <1>6 DEF IInv
-----------------------------------------------------------------------------
(***************************************************************************)
(* The steps of _acquire.                                                  *)
(***************************************************************************)
LEMMA AcquirePreserves ==
  ASSUME IInv, NEW r \in Requests, Acquire(r)
  PROVE  IInv'
<1> USE AdmissionAssumption
<1>1. /\ phase = "free" /\ task[r] = "idle" /\ lease[r] # "live"
      /\ UNCHANGED <<inflight, globalInflight, queue, globalQueued, active, activeIds,
                     task, future, interrupt, closed>>
  BY DEF Acquire, counters, queues, tasks
<1>2. CASE closed
  <2>1. UNCHANGED <<phase, candidates, caller, lease>>
    BY <1>2 DEF Acquire, section
  <2>2. Shape' /\ Tasks' /\ Lines'
    BY <1>1, <2>1 DEF IInv, Shape, Tasks, Lines
  <2>3. Rotation' /\ Progress'
    BY <1>1, <2>1 DEF IInv, Rotation, Progress, Dispatching, CanAdmit
  <2>4. Slots' /\ Places'
    BY <1>1, <2>1, SlotsFrame, PlacesFrame DEF IInv
  <2>. QED BY <2>2, <2>3, <2>4 DEF IInv
<1>3. CASE ~closed
  <2>1. /\ lease' = [lease EXCEPT ![r] = "none"]
        /\ phase' = "dispatch" /\ candidates' = Len(active) /\ caller' = r
    BY <1>3 DEF Acquire
  <2>2. Shape'
    BY <1>1, <2>1 DEF IInv, Shape, LeaseStates, Phases
  <2>3. Tasks'
    BY <1>1, <2>1 DEF IInv, Shape, Tasks
  <2>4. Lines'
    BY <1>1 DEF IInv, Lines
  <2>5. Rotation'
    BY <1>1, <1>3, <2>1 DEF IInv, Rotation, Dispatching
  <2>6. Progress'
    <3>1. Len(active) + 1 .. Len(active) = {}
      BY DEF IInv, Shape
    <3>. QED BY <1>1, <2>1, <3>1 DEF Progress
  <2>7. Slots'
    <3>1. LiveLeases' = LiveLeases
      BY <1>1, <2>1 DEF IInv, Shape, LiveLeases
    <3>2. \A t \in Tenants : LiveLeasesOf(t)' = LiveLeasesOf(t)
      BY <3>1 DEF LiveLeasesOf
    <3>. QED BY <1>1, <3>1, <3>2 DEF IInv, Slots
  <2>8. Places'
    BY <1>1, PlacesFrame DEF IInv
  <2>. QED BY <2>2, <2>3, <2>4, <2>5, <2>6, <2>7, <2>8 DEF IInv
<1>. QED BY <1>2, <1>3

\* _acquire grants a slot at once.
LEMMA AdmitAtOncePreserves ==
  ASSUME IInv, NEW r \in Requests, AdmitAtOnce(r)
  PROVE  IInv'
<1> USE AdmissionAssumption
<1>1. /\ phase = "dispatch" /\ ~Dispatching /\ caller = r
      /\ queue[TenantOf[r]] = << >> /\ CanAdmit(TenantOf[r]) /\ Grant(r)
      /\ task' = [task EXCEPT ![r] = "holding"]
      /\ phase' = "free" /\ candidates' = 0 /\ caller' = NoRequest
      /\ UNCHANGED <<queue, globalQueued, active, activeIds, future, interrupt, closed>>
  BY DEF AdmitAtOnce, DispatchDone, LeaveSection, queues
<1>2. r # NoRequest /\ task[r] = "idle" /\ lease[r] = "none" /\ future[r] = "none"
  BY <1>1 DEF IInv, Shape, Tasks
<1>3. /\ Slots' /\ lease' \in [Requests -> LeaseStates]
      /\ inflight' \in [Tenants -> Int] /\ globalInflight' \in Int
  BY <1>1, <1>2, GrantSlots
<1>4. lease' = [lease EXCEPT ![r] = "live"]
  BY <1>1 DEF Grant
<1>5. Shape'
  BY <1>1, <1>3 DEF IInv, Shape, TaskStates, Phases
<1>6. Tasks'
  BY <1>1, <1>2, <1>4 DEF IInv, Shape, Tasks
<1>7. Lines'
  BY <1>1 DEF IInv, Lines
<1>8. Rotation'
  BY <1>1 DEF IInv, Rotation, Dispatching
<1>9. Progress'
  <2>1. ASSUME NEW x \in Requests, future[x] = "pending"
        PROVE  ~CanAdmit(TenantOf[x])'
    <3>1. TenantOf[x] \in Tenants /\ ~CanAdmit(TenantOf[x])
      BY <1>1, <2>1, QuietDispatch
    <3>2. inflight'[TenantOf[x]] >= inflight[TenantOf[x]] /\ globalInflight' >= globalInflight
      BY <1>1, <3>1 DEF Grant, IInv, Shape
    <3>3. /\ inflight[TenantOf[x]] \in Int /\ globalInflight \in Int
          /\ inflight'[TenantOf[x]] \in Int /\ globalInflight' \in Int
          /\ MaxInflight[TenantOf[x]] \in Int /\ GlobalMaxInflight \in Int
      BY <1>3, <3>1 DEF IInv, Shape
    <3>. QED BY <3>1, <3>2, <3>3 DEF CanAdmit
  <2>. QED BY <1>1, <2>1 DEF Progress
<1>10. Places'
  BY <1>1, PlacesFrame DEF IInv
<1>. QED BY <1>3, <1>5, <1>6, <1>7, <1>8, <1>9, <1>10 DEF IInv

\* _acquire raises because a queue is full.
LEMMA RejectPreserves ==
  ASSUME IInv, NEW r \in Requests, RejectQueueFull(r)
  PROVE  IInv'
<1> USE AdmissionAssumption
<1>1. /\ phase = "dispatch" /\ ~Dispatching
      /\ phase' = "free" /\ candidates' = 0 /\ caller' = NoRequest
      /\ UNCHANGED <<inflight, globalInflight, queue, globalQueued, active, activeIds,
                     task, future, interrupt, closed, lease>>
  BY DEF RejectQueueFull, MustQueue, DispatchDone, LeaveSection, counters, queues, tasks
<1>2. Shape'
  BY <1>1 DEF IInv, Shape, Phases
<1>3. Tasks' /\ Lines'
  BY <1>1 DEF IInv, Tasks, Lines
<1>4. Rotation'
  BY <1>1 DEF IInv, Rotation, Dispatching
<1>5. Progress'
  BY <1>1, QuietDispatch DEF Progress, CanAdmit
<1>6. Slots' /\ Places'
  BY <1>1, SlotsFrame, PlacesFrame DEF IInv
<1>. QED BY <1>2, <1>3, <1>4, <1>5, <1>6 DEF IInv

\* _acquire puts a waiter into the queue and dispatches.
LEMMA EnqueuePreserves ==
  ASSUME IInv, NEW r \in Requests, Enqueue(r)
  PROVE  IInv'
<1> USE AdmissionAssumption
<1> DEFINE t == TenantOf[r]
           line == Append(queue[t], r)
<1>1. /\ phase = "dispatch" /\ ~Dispatching /\ caller = r /\ ~closed
      /\ ~TenantQueueFull(t) /\ ~GatewayQueueFull
  BY DEF Enqueue, MustQueue, DispatchDone, IInv, Rotation
<1>2. /\ queue' = [queue EXCEPT ![t] = line]
      /\ globalQueued' = globalQueued + 1
      /\ active' = IF t \in activeIds THEN active ELSE Append(active, t)
      /\ activeIds' = activeIds \cup {t}
      /\ future' = [future EXCEPT ![r] = "pending"]
      /\ task' = [task EXCEPT ![r] = "waiting"]
      /\ phase' = "dispatch" /\ candidates' = Len(active') /\ caller' = NoRequest
      /\ UNCHANGED <<inflight, globalInflight, interrupt, closed, lease>>
  BY <1>1 DEF Enqueue, EnterDispatch, ActivateTenant, counters
<1>3. /\ r # NoRequest /\ task[r] = "idle" /\ lease[r] = "none" /\ future[r] = "none"
      /\ t \in Tenants /\ ~Contains(queue[t], r) /\ interrupt[r] = "none"
  BY <1>1 DEF IInv, Shape, Tasks, Lines
<1>4. /\ line \in Seq(Requests) /\ line # << >> /\ Len(line) = Len(queue[t]) + 1
      /\ Distinct(line)
      /\ \A e : Contains(line, e) <=> Contains(queue[t], e) \/ e = r
  <2> DEFINE old == queue[t]
  <2>1. old \in Seq(Requests) /\ Distinct(old) /\ ~Contains(old, r)
    BY <1>3 DEF IInv, Shape, Lines
  <2> HIDE DEF old
  <2>2. /\ Append(old, r) \in Seq(Requests) /\ Append(old, r) # << >>
        /\ Len(Append(old, r)) = Len(old) + 1
        /\ Distinct(Append(old, r))
        /\ \A e : Contains(Append(old, r), e) <=> Contains(old, e) \/ e = r
    BY <2>1, PushFacts
  <2>. QED BY <2>2 DEF old
<1> HIDE DEF line
<1>5. /\ active' \in Seq(Tenants) /\ Distinct(active')
      /\ \A x \in Tenants : x \in activeIds' <=> Contains(active', x)
  <2>1. /\ active \in Seq(Tenants) /\ Distinct(active)
        /\ \A x \in Tenants : x \in activeIds <=> Contains(active, x)
    BY DEF IInv, Shape, Rotation
  <2>2. CASE t \in activeIds
    BY <1>2, <2>1, <2>2
  <2>3. CASE t \notin activeIds
    <3>1. ~Contains(active, t) /\ active' = Append(active, t) /\ activeIds' = activeIds \cup {t}
      BY <1>2, <1>3, <2>1, <2>3
    <3>2. /\ Append(active, t) \in Seq(Tenants) /\ Distinct(Append(active, t))
          /\ \A e : Contains(Append(active, t), e) <=> Contains(active, e) \/ e = t
      BY <1>3, <2>1, <3>1, PushFacts
    <3>. QED BY <2>1, <3>1, <3>2
  <2>. QED BY <2>2, <2>3
<1>6. \A x \in Tenants : queue'[x] = IF x = t THEN line ELSE queue[x]
  BY <1>2 DEF IInv, Shape
<1> HIDE DEF t
<1>7. Shape'
  <2>1. candidates' \in Nat /\ candidates' <= Len(active')
    BY <1>2, <1>5
  <2>2. queue' \in [Tenants -> Seq(Requests)] /\ globalQueued' \in Int
    BY <1>2, <1>3, <1>4 DEF IInv, Shape
  <2>3. future' \in [Requests -> FutureStates] /\ task' \in [Requests -> TaskStates]
    BY <1>2 DEF IInv, Shape, FutureStates, TaskStates
  <2>4. activeIds' \in SUBSET Tenants
    BY <1>2, <1>3 DEF IInv, Shape
  <2>. QED BY <1>2, <1>5, <2>1, <2>2, <2>3, <2>4 DEF IInv, Shape, Phases
<1>8. Tasks'
  BY <1>2, <1>3 DEF IInv, Shape, Tasks
<1>9. Lines'
  <2>1. \A x \in Requests : future'[x] = IF x = r THEN "pending" ELSE future[x]
    BY <1>2 DEF IInv, Shape
  <2>2. \A x \in Requests : TenantOf[x] \in Tenants
    OBVIOUS
  <2>3. ASSUME NEW x \in Tenants
        PROVE  /\ Distinct(queue'[x])
               /\ \A q \in Requests :
                    Contains(queue'[x], q) =>
                      TenantOf[q] = x /\ future'[q] \in {"pending", "cancelled"}
    <3>1. CASE x = t
      BY <1>3, <1>4, <1>6, <2>1, <3>1 DEF IInv, Lines, t
    <3>2. CASE x # t
      BY <1>3, <1>6, <2>1, <3>2 DEF IInv, Lines
    <3>. QED BY <3>1, <3>2
  <2>4. ASSUME NEW q \in Requests, future'[q] = "pending"
        PROVE  Contains(queue'[TenantOf[q]], q)
    <3>1. CASE q = r
      BY <1>3, <1>4, <1>6, <3>1 DEF t
    <3>2. CASE q # r
      <4>1. Contains(queue[TenantOf[q]], q)
        BY <2>1, <2>4, <3>2 DEF IInv, Lines
      <4>. QED BY <1>4, <1>6, <2>2, <4>1
    <3>. QED BY <3>1, <3>2
  <2>. QED BY <2>3, <2>4 DEF Lines
<1>10. Rotation'
  <2>1. \A x \in activeIds : queue[x] # << >>
    BY <1>1 DEF IInv, Rotation
  <2>2. \A x \in Tenants : x \in activeIds' <=> queue'[x] # << >>
    BY <1>2, <1>3, <1>4, <1>6, <2>1 DEF IInv, Rotation
  <2>3. activeIds' \in SUBSET Tenants
    BY <1>2, <1>3 DEF IInv, Shape
  <2>. QED BY <1>1, <1>2, <1>5, <2>2, <2>3 DEF Rotation
<1>11. Progress'
  <2>1. Len(active') + 1 .. Len(active') = {}
    BY <1>5
  <2>. QED BY <1>2, <2>1 DEF Progress
<1>12. Slots'
  BY <1>2, SlotsFrame DEF IInv
<1>13. Places'
  <2>1. Cardinality(Queued') = Cardinality(Queued) + 1
    BY <1>2, <1>3, <1>4, JoinCounts DEF IInv, Shape, t
  <2>2. globalQueued \in Int /\ globalQueued < GlobalMaxQueue /\ GlobalMaxQueue \in Nat
    BY <1>1 DEF GatewayQueueFull, IInv, Shape
  <2>3. Len(queue[t]) \in Nat /\ Len(queue[t]) < MaxQueue[t] /\ MaxQueue[t] \in Nat
    BY <1>1, <1>3 DEF TenantQueueFull, IInv, Shape
  <2>4. ASSUME NEW x \in Tenants
        PROVE  Len(queue'[x]) <= MaxQueue[x]
    <3>1. CASE x = t
      BY <1>4, <1>6, <2>3, <3>1
    <3>2. CASE x # t
      BY <1>6, <3>2 DEF IInv, Places
    <3>. QED BY <3>1, <3>2
  <2>. QED BY <1>2, <2>1, <2>2, <2>4 DEF IInv, Places
<1>. QED BY <1>7, <1>8, <1>9, <1>10, <1>11, <1>12, <1>13 DEF IInv
\* An interrupt changes nothing but the future and the interrupt of r.
LEMMA InterruptPreserves ==
  ASSUME IInv, NEW r \in Requests, NEW kind \in {"timeout", "cancel"},
         phase = "free", task[r] = "waiting", Interrupt(r, kind)
  PROVE  IInv'
<1> USE AdmissionAssumption
<1>1. /\ interrupt' = [interrupt EXCEPT ![r] = kind]
      /\ future' = [future EXCEPT ![r] = IF future[r] = "pending" THEN "cancelled" ELSE future[r]]
      /\ UNCHANGED <<inflight, globalInflight, queue, globalQueued, active, activeIds,
                     phase, candidates, caller, task, closed, lease>>
  BY DEF Interrupt, counters, queues, section
<1>2. \A x \in Requests :
        /\ interrupt'[x] = IF x = r THEN kind ELSE interrupt[x]
        /\ future'[x] = IF x = r /\ future[x] = "pending" THEN "cancelled" ELSE future[x]
  BY <1>1 DEF IInv, Shape
<1>3. Shape'
  BY <1>1 DEF IInv, Shape, Interrupts, FutureStates
<1>4. Tasks'
  BY <1>1, <1>2 DEF IInv, Shape, Tasks
<1>5. Lines'
  BY <1>1, <1>2 DEF IInv, Lines
<1>6. Rotation'
  BY <1>1 DEF IInv, Rotation, Dispatching
<1>7. Progress'
  BY <1>1, <1>2 DEF IInv, Progress, CanAdmit
<1>8. Slots' /\ Places'
  BY <1>1, SlotsFrame, PlacesFrame DEF IInv
<1>. QED BY <1>3, <1>4, <1>5, <1>6, <1>7, <1>8 DEF IInv

\* The waiting call receives its lease.
LEMMA ResumeAdmittedPreserves ==
  ASSUME IInv, NEW r \in Requests, ResumeAdmitted(r)
  PROVE  IInv'
<1> USE AdmissionAssumption
<1>1. /\ phase = "free" /\ task[r] = "waiting" /\ interrupt[r] = "none" /\ future[r] = "result"
      /\ task' = [task EXCEPT ![r] = "holding"]
      /\ future' = [future EXCEPT ![r] = "none"]
      /\ UNCHANGED <<inflight, globalInflight, queue, globalQueued, active, activeIds,
                     phase, candidates, caller, interrupt, closed, lease>>
  BY DEF ResumeAdmitted, counters, queues, section
<1>2. \A x \in Requests : /\ task'[x] = IF x = r THEN "holding" ELSE task[x]
                          /\ future'[x] = IF x = r THEN "none" ELSE future[x]
  BY <1>1 DEF IInv, Shape
<1>3. Shape'
  BY <1>1 DEF IInv, Shape, TaskStates, FutureStates
<1>4. Tasks'
  BY <1>1, <1>2 DEF IInv, Shape, Tasks
<1>5. Lines'
  BY <1>1, <1>2 DEF IInv, Lines
<1>6. Rotation' /\ Progress'
  BY <1>1, <1>2 DEF IInv, Rotation, Progress, Dispatching, CanAdmit
<1>7. Slots' /\ Places'
  BY <1>1, SlotsFrame, PlacesFrame DEF IInv
<1>. QED BY <1>3, <1>4, <1>5, <1>6, <1>7 DEF IInv

\* The waiting call receives AdmissionUnavailableError.
LEMMA ResumeUnavailablePreserves ==
  ASSUME IInv, NEW r \in Requests, ResumeUnavailable(r)
  PROVE  IInv'
<1> USE AdmissionAssumption
<1>1. /\ phase = "free" /\ task[r] = "waiting" /\ future[r] = "exception"
      /\ task' = [task EXCEPT ![r] = "idle"]
      /\ future' = [future EXCEPT ![r] = "none"]
      /\ interrupt' = [interrupt EXCEPT ![r] = "none"]
      /\ UNCHANGED <<inflight, globalInflight, queue, globalQueued, active, activeIds,
                     phase, candidates, caller, closed, lease>>
  BY DEF ResumeUnavailable, EndCall, counters, queues, section
<1>2. \A x \in Requests : /\ task'[x] = IF x = r THEN "idle" ELSE task[x]
                          /\ future'[x] = IF x = r THEN "none" ELSE future[x]
                          /\ interrupt'[x] = IF x = r THEN "none" ELSE interrupt[x]
  BY <1>1 DEF IInv, Shape
<1>3. Shape'
  BY <1>1 DEF IInv, Shape, TaskStates, FutureStates, Interrupts
<1>4. Tasks'
  BY <1>1, <1>2 DEF IInv, Shape, Tasks
<1>5. Lines'
  BY <1>1, <1>2 DEF IInv, Lines
<1>6. Rotation' /\ Progress'
  BY <1>1, <1>2 DEF IInv, Rotation, Progress, Dispatching, CanAdmit
<1>7. Slots' /\ Places'
  BY <1>1, SlotsFrame, PlacesFrame DEF IInv
<1>. QED BY <1>3, <1>4, <1>5, <1>6, <1>7 DEF IInv

\* _remove_waiter_locked between sections: the waiter is in no queue
\* afterwards and the order still holds the tenants that have a queue.
LEMMA RemoveWaiterFacts ==
  ASSUME IInv, NEW r \in Requests, phase = "free", RemoveWaiter(r)
  PROVE  /\ queue' \in [Tenants -> Seq(Requests)] /\ globalQueued' \in Int
         /\ active' \in Seq(Tenants) /\ activeIds' \in SUBSET Tenants
         /\ \A t \in Tenants : Distinct(queue'[t])
         /\ \A t \in Tenants, x \in Requests :
              Contains(queue'[t], x) <=> Contains(queue[t], x) /\ x # r
         /\ Distinct(active')
         /\ \A t \in Tenants : t \in activeIds' <=> Contains(active', t)
         /\ \A t \in Tenants : t \in activeIds' <=> queue'[t] # << >>
         /\ closed => queue' = queue
         /\ Places'
<1> USE AdmissionAssumption
<1> DEFINE t == TenantOf[r]
<1>1. /\ t \in Tenants /\ queue \in [Tenants -> Seq(Requests)] /\ globalQueued \in Int
      /\ active \in Seq(Tenants) /\ activeIds \in SUBSET Tenants /\ Distinct(active)
      /\ \A x \in Tenants : x \in activeIds <=> Contains(active, x)
      /\ \A x \in Tenants : x \in activeIds <=> queue[x] # << >>
      /\ \A x \in Tenants : Distinct(queue[x])
      /\ \A x \in Tenants, q \in Requests : Contains(queue[x], q) => TenantOf[q] = x
  BY DEF IInv, Shape, Rotation, Lines, Dispatching
<1>2. CASE ~Contains(queue[t], r)
  <2>1. UNCHANGED <<queue, globalQueued, active, activeIds>>
    BY <1>2 DEF RemoveWaiter, queues
  <2>2. \A x \in Tenants, q \in Requests : Contains(queue[x], q) => q # r
    BY <1>1, <1>2
  <2>. QED BY <1>1, <2>1, <2>2, PlacesFrame DEF IInv
<1>3. CASE Contains(queue[t], r)
  <2> DEFINE rest == RemoveFirst(queue[t], r)
  <2>1. /\ rest \in Seq(Requests) /\ Len(rest) = Len(queue[t]) - 1
        /\ Distinct(rest)
        /\ \A e : Contains(rest, e) <=> Contains(queue[t], e) /\ e # r
    BY <1>1, <1>3, RemoveFacts
  <2> HIDE DEF rest
  <2>2. /\ queue' = [queue EXCEPT ![t] = rest] /\ globalQueued' = globalQueued - 1
        /\ IF queue'[t] = << >>
           THEN DeactivateTenant(t)
           ELSE UNCHANGED <<active, activeIds>>
    BY <1>3 DEF RemoveWaiter, rest
  <2>3. \A x \in Tenants : queue'[x] = IF x = t THEN rest ELSE queue[x]
    BY <1>1, <2>2
  <2>4. queue[t] # << >> /\ ~closed
    BY <1>1, <1>3, EmptyFacts DEF IInv, Rotation
  <2>5. /\ active' \in Seq(Tenants) /\ activeIds' \in SUBSET Tenants
        /\ Distinct(active')
        /\ \A x \in Tenants : x \in activeIds' <=> Contains(active', x)
        /\ \A x \in Tenants : x \in activeIds' <=> queue'[x] # << >>
    <3>1. CASE queue'[t] = << >>
      <4>1. t \in activeIds /\ Contains(active, t)
        BY <1>1, <2>4
      <4>2. active' = RemoveFirst(active, t) /\ activeIds' = activeIds \ {t}
        BY <2>2, <3>1, <4>1 DEF DeactivateTenant
      <4>3. /\ RemoveFirst(active, t) \in Seq(Tenants) /\ Distinct(RemoveFirst(active, t))
            /\ \A e : Contains(RemoveFirst(active, t), e) <=> Contains(active, e) /\ e # t
        BY <1>1, <4>1, RemoveFacts
      <4> HIDE DEF t
      <4>4. \A x \in Tenants : x \in activeIds' <=> queue'[x] # << >>
        BY <1>1, <2>3, <3>1, <4>2
      <4>. QED BY <1>1, <4>2, <4>3, <4>4
    <3>2. CASE queue'[t] # << >>
      <4>1. active' = active /\ activeIds' = activeIds
        BY <2>2, <3>2
      <4>. QED BY <1>1, <2>3, <2>4, <3>2, <4>1
    <3>. QED BY <3>1, <3>2
  <2>6. queue' \in [Tenants -> Seq(Requests)] /\ globalQueued' \in Int
    BY <1>1, <2>1, <2>2
  <2>7. /\ \A x \in Tenants : Distinct(queue'[x])
        /\ \A x \in Tenants, q \in Requests :
             Contains(queue'[x], q) <=> Contains(queue[x], q) /\ q # r
    BY <1>1, <2>1, <2>3
  <2>8. Places'
    <3>1. /\ Cardinality(Queued) \in Nat \ {0}
          /\ Cardinality(Queued') = Cardinality(Queued) - 1
      BY <1>1, <1>3, <2>1, <2>2, LeaveCounts DEF IInv
    <3>2. ASSUME NEW x \in Tenants
          PROVE  Len(queue'[x]) <= MaxQueue[x]
      <4>1. Len(queue[x]) \in Nat /\ Len(queue[x]) <= MaxQueue[x] /\ MaxQueue[x] \in Nat
        BY <1>1 DEF IInv, Places
      <4>2. Len(queue'[x]) = IF x = t THEN Len(queue[x]) - 1 ELSE Len(queue[x])
        BY <2>1, <2>3
      <4>. QED BY <4>1, <4>2
    <3>. QED BY <2>2, <3>1, <3>2 DEF IInv, Places
  <2>. QED BY <2>4, <2>5, <2>6, <2>7, <2>8
<1>. QED BY <1>2, <1>3
\* A section that starts its last dispatch: nothing is inspected yet, and
\* when the controller is closed nobody waits.
LEMMA EnterDispatchFacts ==
  ASSUME IInv, phase = "free", EnterDispatch(NoRequest), closed' = closed,
         active' \in Seq(Tenants), activeIds' \in SUBSET Tenants, Distinct(active'),
         \A t \in Tenants : t \in activeIds' <=> Contains(active', t),
         \A t \in Tenants : t \in activeIds' <=> queue'[t] # << >>,
         closed => queue' = queue,
         \A x \in Requests : future'[x] = "pending" => future[x] = "pending"
  PROVE  /\ phase' \in Phases /\ candidates' \in Nat /\ caller' = NoRequest
         /\ phase' = "dispatch" => candidates' <= Len(active')
         /\ Rotation' /\ Progress'
<1> USE AdmissionAssumption
<1>1. CASE closed
  <2>1. phase' = "free" /\ candidates' = 0 /\ caller' = NoRequest
    BY <1>1 DEF EnterDispatch
  <2>2. \A t \in Tenants : queue[t] = << >>
    BY <1>1 DEF IInv, Rotation
  <2>3. ASSUME NEW x \in Requests, future'[x] = "pending"
        PROVE  FALSE
    <3>1. TenantOf[x] \in Tenants /\ Contains(queue[TenantOf[x]], x)
      BY <2>3 DEF IInv, Lines
    <3>2. queue[TenantOf[x]] = << >>
      BY <2>2, <3>1
    <3>. QED BY <3>1, <3>2, EmptyFacts
  <2>4. Rotation'
    BY <1>1, <2>1, <2>2 DEF Rotation, Dispatching
  <2>5. Progress'
    BY <2>1, <2>3 DEF Progress
  <2>. QED BY <2>1, <2>4, <2>5 DEF Phases
<1>2. CASE ~closed
  <2>1. phase' = "dispatch" /\ candidates' = Len(active') /\ caller' = NoRequest
    BY <1>2 DEF EnterDispatch
  <2>2. Len(active') \in Nat /\ Len(active') + 1 .. Len(active') = {}
    OBVIOUS
  <2>3. Rotation'
    BY <1>2, <2>1 DEF Rotation, Dispatching
  <2>4. Progress'
    BY <2>1, <2>2 DEF Progress
  <2>. QED BY <2>1, <2>2, <2>3, <2>4 DEF Phases
<1>3. closed \in BOOLEAN
  BY DEF IInv, Shape
<1>. QED BY <1>1, <1>2, <1>3

\* The two handlers of an interrupted wait, with or without a release.
LEMMA HandlerPreserves ==
  ASSUME IInv, NEW r \in Requests, phase = "free", task[r] = "waiting",
         RemoveWaiter(r), EnterDispatch(NoRequest), EndCall(r), closed' = closed,
         Slots', inflight' \in [Tenants -> Int], globalInflight' \in Int,
         lease' \in [Requests -> LeaseStates],
         \A x \in Requests : x # r => lease'[x] = lease[x]
  PROVE  IInv'
<1> USE AdmissionAssumption
<1>1. /\ queue' \in [Tenants -> Seq(Requests)] /\ globalQueued' \in Int
      /\ active' \in Seq(Tenants) /\ activeIds' \in SUBSET Tenants
      /\ \A t \in Tenants : Distinct(queue'[t])
      /\ \A t \in Tenants, x \in Requests :
           Contains(queue'[t], x) <=> Contains(queue[t], x) /\ x # r
      /\ Distinct(active')
      /\ \A t \in Tenants : t \in activeIds' <=> Contains(active', t)
      /\ \A t \in Tenants : t \in activeIds' <=> queue'[t] # << >>
      /\ closed => queue' = queue
      /\ Places'
  BY RemoveWaiterFacts
<1>2. /\ task' = [task EXCEPT ![r] = "idle"]
      /\ future' = [future EXCEPT ![r] = "none"]
      /\ interrupt' = [interrupt EXCEPT ![r] = "none"]
  BY DEF EndCall
<1>3. \A x \in Requests : /\ task'[x] = IF x = r THEN "idle" ELSE task[x]
                          /\ future'[x] = IF x = r THEN "none" ELSE future[x]
                          /\ interrupt'[x] = IF x = r THEN "none" ELSE interrupt[x]
  BY <1>2 DEF IInv, Shape
<1>4. /\ phase' \in Phases /\ candidates' \in Nat /\ caller' = NoRequest
      /\ phase' = "dispatch" => candidates' <= Len(active')
      /\ Rotation' /\ Progress'
  BY <1>1, <1>3, EnterDispatchFacts
<1>5. Shape'
  <2>1. /\ task' \in [Requests -> TaskStates]
        /\ future' \in [Requests -> FutureStates]
        /\ interrupt' \in [Requests -> Interrupts]
    BY <1>2 DEF IInv, Shape, TaskStates, FutureStates, Interrupts
  <2>. QED BY <1>1, <1>4, <2>1 DEF IInv, Shape
<1>6. Tasks'
  <2>1. ASSUME NEW x \in Requests, x # r
        PROVE  /\ task'[x] = task[x] /\ future'[x] = future[x]
               /\ interrupt'[x] = interrupt[x] /\ lease'[x] = lease[x]
    BY <1>3, <2>1
  <2>2. task'[r] = "idle" /\ future'[r] = "none" /\ interrupt'[r] = "none"
    BY <1>3
  <2>3. caller' = NoRequest
    BY <1>4
  <2>. QED BY <2>1, <2>2, <2>3 DEF IInv, Tasks
<1>7. Lines'
  <2>1. \A x \in Requests : TenantOf[x] \in Tenants
    OBVIOUS
  <2>. QED BY <1>1, <1>3, <2>1 DEF IInv, Lines
<1>. QED BY <1>1, <1>4, <1>5, <1>6, <1>7 DEF IInv

\* The waiting call handles TimeoutError.
LEMMA ResumeTimeoutPreserves ==
  ASSUME IInv, NEW r \in Requests, ResumeTimeout(r)
  PROVE  IInv'
<1>1. /\ phase = "free" /\ task[r] = "waiting" /\ RemoveWaiter(r)
      /\ EnterDispatch(NoRequest) /\ EndCall(r) /\ closed' = closed
      /\ UNCHANGED <<inflight, globalInflight, lease>>
  BY DEF ResumeTimeout, counters
<1>2. Slots'
  BY <1>1, SlotsFrame DEF IInv
<1>. QED BY <1>1, <1>2, HandlerPreserves DEF IInv, Shape

\* The waiting call handles CancelledError.
LEMMA ResumeCancelledPreserves ==
  ASSUME IInv, NEW r \in Requests, ResumeCancelled(r)
  PROVE  IInv'
<1>1. /\ phase = "free" /\ task[r] = "waiting" /\ RemoveWaiter(r)
      /\ EnterDispatch(NoRequest) /\ EndCall(r) /\ closed' = closed
  BY DEF ResumeCancelled
<1>2. CASE ReleaseLocked(r)
  BY <1>1, <1>2, ReleaseSlots, HandlerPreserves DEF IInv, Shape
<1>3. CASE UNCHANGED <<inflight, globalInflight, lease>>
  <2>1. Slots'
    BY <1>3, SlotsFrame DEF IInv
  <2>. QED BY <1>1, <1>3, <2>1, HandlerPreserves DEF IInv, Shape
<1>. QED BY <1>2, <1>3 DEF ResumeCancelled, counters

-----------------------------------------------------------------------------
(***************************************************************************)
(* release and shutdown.                                                   *)
(***************************************************************************)
LEMMA ReleasePreserves ==
  ASSUME IInv, NEW r \in Requests, Release(r)
  PROVE  IInv'
<1> USE AdmissionAssumption
<1>1. /\ phase = "free" /\ ReleaseLocked(r) /\ EnterDispatch(NoRequest)
      /\ task[r] = "holding" \/ task[r] = "idle"
      /\ task' = [task EXCEPT ![r] = "idle"]
      /\ UNCHANGED <<queue, globalQueued, active, activeIds, future, interrupt, closed>>
  BY DEF Release, queues
<1>2. /\ Slots' /\ lease' \in [Requests -> LeaseStates]
      /\ inflight' \in [Tenants -> Int] /\ globalInflight' \in Int
      /\ lease' = [lease EXCEPT ![r] = IF lease[r] = "live" THEN "released" ELSE lease[r]]
  BY <1>1, ReleaseSlots
<1>3. /\ active \in Seq(Tenants) /\ activeIds \in SUBSET Tenants /\ Distinct(active)
      /\ \A t \in Tenants : t \in activeIds <=> Contains(active, t)
      /\ \A t \in Tenants : t \in activeIds <=> queue[t] # << >>
  BY <1>1 DEF IInv, Shape, Rotation, Dispatching
<1>4. /\ phase' \in Phases /\ candidates' \in Nat /\ caller' = NoRequest
      /\ phase' = "dispatch" => candidates' <= Len(active')
      /\ Rotation' /\ Progress'
  BY <1>1, <1>3, EnterDispatchFacts
<1>5. Shape'
  BY <1>1, <1>2, <1>4 DEF IInv, Shape, TaskStates
<1>6. Tasks'
  <2>1. \A x \in Requests : /\ task'[x] = IF x = r THEN "idle" ELSE task[x]
                            /\ x # r => lease'[x] = lease[x]
    BY <1>1, <1>2 DEF IInv, Shape
  <2>2. future[r] = "none" /\ interrupt[r] = "none"
    BY <1>1 DEF IInv, Tasks
  <2>. QED BY <1>1, <1>4, <2>1, <2>2 DEF IInv, Tasks
<1>7. Lines'
  BY <1>1 DEF IInv, Lines
<1>8. Places'
  BY <1>1, PlacesFrame DEF IInv
<1>. QED BY <1>2, <1>4, <1>5, <1>6, <1>7, <1>8 DEF IInv

\* shutdown closes the controller.
LEMMA ShutdownPreserves ==
  ASSUME IInv, Shutdown
  PROVE  IInv'
<1> USE AdmissionAssumption
<1>1. /\ phase = "free" /\ closed' = TRUE
      /\ phase' = IF closed THEN phase ELSE "drain"
      /\ UNCHANGED <<inflight, globalInflight, queue, globalQueued, active, activeIds,
                     candidates, caller, task, future, interrupt, lease>>
  BY DEF Shutdown, counters, queues, tasks
<1>2. Shape' /\ Lines'
  BY <1>1 DEF IInv, Shape, Lines, Phases
<1>3. Tasks'
  BY <1>1 DEF IInv, Tasks
<1>4. Rotation' /\ Progress'
  BY <1>1 DEF IInv, Rotation, Progress, Dispatching, CanAdmit
<1>5. Slots' /\ Places'
  BY <1>1, SlotsFrame, PlacesFrame DEF IInv
<1>. QED BY <1>2, <1>3, <1>4, <1>5 DEF IInv

\* shutdown takes one waiter out of its queue and fails it.
LEMMA FailWaiterPreserves ==
  ASSUME IInv, NEW t \in Tenants, FailWaiter(t)
  PROVE  IInv'
<1> USE AdmissionAssumption
<1> DEFINE w == Head(queue[t])
<1>1. /\ phase = "drain" /\ queue[t] # << >>
      /\ queue' = [queue EXCEPT ![t] = Tail(queue[t])]
      /\ globalQueued' = globalQueued - 1
      /\ future' = [future EXCEPT ![w] = IF future[w] = "pending" THEN "exception" ELSE future[w]]
      /\ UNCHANGED <<inflight, globalInflight, active, activeIds, phase, candidates,
                     caller, task, interrupt, closed, lease>>
  BY DEF FailWaiter, counters, section
<1>2. /\ w \in Requests /\ TenantOf[w] = t /\ future[w] \in {"pending", "cancelled"}
      /\ Tail(queue[t]) \in Seq(Requests)
      /\ Distinct(Tail(queue[t]))
      /\ \A e : Contains(Tail(queue[t]), e) <=> Contains(queue[t], e) /\ e # w
  BY <1>1, HeadWaiter
<1> HIDE DEF w
<1>3. \A x \in Tenants : queue'[x] = IF x = t THEN Tail(queue[t]) ELSE queue[x]
  BY <1>1 DEF IInv, Shape
<1>4. \A x \in Requests :
        future'[x] = IF x = w /\ future[x] = "pending" THEN "exception" ELSE future[x]
  BY <1>1 DEF IInv, Shape
<1>5. Shape'
  <2>1. queue' \in [Tenants -> Seq(Requests)] /\ globalQueued' \in Int
    BY <1>1, <1>2 DEF IInv, Shape
  <2>2. future' \in [Requests -> FutureStates]
    BY <1>1, <1>2 DEF IInv, Shape, FutureStates
  <2>. QED BY <1>1, <2>1, <2>2 DEF IInv, Shape
<1>6. Tasks'
  BY <1>1, <1>4 DEF IInv, Tasks
<1>7. Lines'
  <2>1. ASSUME NEW x \in Tenants
        PROVE  /\ Distinct(queue'[x])
               /\ \A q \in Requests :
                    Contains(queue'[x], q) =>
                      TenantOf[q] = x /\ future'[q] \in {"pending", "cancelled"}
    <3>1. \A q \in Requests :
            Contains(queue[x], q) => TenantOf[q] = x /\ future[q] \in {"pending", "cancelled"}
      BY DEF IInv, Lines
    <3>2. \A q \in Requests : Contains(queue'[x], q) => Contains(queue[x], q) /\ q # w
      <4>1. CASE x = t
        BY <1>2, <1>3, <4>1
      <4>2. CASE x # t
        BY <1>2, <1>3, <3>1, <4>2
      <4>. QED BY <4>1, <4>2
    <3>3. Distinct(queue'[x])
      BY <1>2, <1>3 DEF IInv, Lines
    <3>4. \A q \in Requests : q # w => future'[q] = future[q]
      BY <1>4
    <3>. QED BY <3>1, <3>2, <3>3, <3>4
  <2>2. ASSUME NEW q \in Requests, future'[q] = "pending"
        PROVE  Contains(queue'[TenantOf[q]], q)
    <3>1. q # w /\ TenantOf[q] \in Tenants /\ Contains(queue[TenantOf[q]], q)
      BY <1>4, <2>2 DEF IInv, Lines
    <3>. QED BY <1>2, <1>3, <3>1
  <2>. QED BY <2>1, <2>2 DEF Lines
<1>8. Rotation'
  BY <1>1, <1>3 DEF IInv, Rotation, Dispatching
<1>9. Progress'
  BY <1>1 DEF Progress
<1>10. Slots' /\ Places'
  BY <1>1, SlotsFrame, PopPlaces DEF IInv
<1>. QED BY <1>5, <1>6, <1>7, <1>8, <1>9, <1>10 DEF IInv

\* shutdown clears the round-robin order.
LEMMA ShutdownReturnsPreserves ==
  ASSUME IInv, ShutdownReturns
  PROVE  IInv'
<1> USE AdmissionAssumption
<1>1. /\ phase = "drain" /\ \A t \in Tenants : queue[t] = << >>
      /\ active' = << >> /\ activeIds' = {}
      /\ phase' = "free" /\ candidates' = 0 /\ caller' = NoRequest
      /\ UNCHANGED <<inflight, globalInflight, queue, globalQueued,
                     task, future, interrupt, closed, lease>>
  BY DEF ShutdownReturns, LeaveSection, counters, tasks
<1>2. Shape'
  BY <1>1 DEF IInv, Shape, Phases
<1>3. Tasks' /\ Lines'
  BY <1>1 DEF IInv, Tasks, Lines
<1>4. Rotation'
  BY <1>1, EmptyFacts DEF IInv, Rotation
<1>5. Progress'
  <2>1. \A x \in Requests : future[x] # "pending"
    BY <1>1, EmptyFacts DEF IInv, Lines
  <2>. QED BY <1>1, <2>1 DEF Progress
<1>6. Slots' /\ Places'
  BY <1>1, SlotsFrame, PlacesFrame DEF IInv
<1>. QED BY <1>2, <1>3, <1>4, <1>5, <1>6 DEF IInv
-----------------------------------------------------------------------------
(***************************************************************************)
(* The inductive invariant.                                                *)
(***************************************************************************)
LEMMA InitIInv == Init => IInv
<1> SUFFICES ASSUME Init PROVE IInv
  OBVIOUS
<1> USE AdmissionAssumption DEF Init
<1>1. Shape
  <2>1. /\ inflight \in [Tenants -> Int] /\ globalInflight \in Int /\ globalQueued \in Int
        /\ candidates \in Nat
    OBVIOUS
  <2>2. << >> \in Seq(Requests) /\ << >> \in Seq(Tenants)
    OBVIOUS
  <2>3. queue \in [Tenants -> Seq(Requests)] /\ active \in Seq(Tenants)
    BY <2>2
  <2>4. /\ task \in [Requests -> TaskStates] /\ future \in [Requests -> FutureStates]
        /\ interrupt \in [Requests -> Interrupts] /\ lease \in [Requests -> LeaseStates]
    BY DEF TaskStates, FutureStates, Interrupts, LeaseStates
  <2>. QED BY <2>1, <2>3, <2>4 DEF Shape, Phases
<1>2. Tasks
  BY DEF Tasks
<1>3. Lines /\ Rotation
  BY EmptyFacts DEF Lines, Rotation
<1>4. Progress
  BY DEF Progress
<1>5. LiveLeases = {} /\ Queued = {} /\ \A t \in Tenants : LiveLeasesOf(t) = {}
  BY EmptyFacts DEF LiveLeases, Queued, LiveLeasesOf
<1>6. Slots
  <2>1. Cardinality({}) = 0
    BY FS_EmptySet
  <2>2. ASSUME NEW t \in Tenants
        PROVE  inflight[t] = Cardinality(LiveLeasesOf(t)) /\ inflight[t] <= MaxInflight[t]
    <3>1. LiveLeasesOf(t) = {}
      BY <1>5
    <3>2. inflight[t] = 0 /\ MaxInflight[t] \in Nat
      OBVIOUS
    <3>. QED BY <2>1, <3>1, <3>2
  <2>3. globalInflight = Cardinality(LiveLeases) /\ globalInflight <= GlobalMaxInflight
    BY <1>5, <2>1
  <2>. QED BY <2>2, <2>3 DEF Slots
<1>7. Places
  <2>1. \A t \in Tenants : Len(queue[t]) = 0 /\ MaxQueue[t] \in Nat
    OBVIOUS
  <2>. QED BY <1>5, <2>1, FS_EmptySet DEF Places
<1>. QED BY <1>1, <1>2, <1>3, <1>4, <1>6, <1>7 DEF IInv

\* A step that changes nothing.
LEMMA StutterIInv == IInv /\ UNCHANGED vars => IInv'
<1> SUFFICES ASSUME IInv, UNCHANGED vars PROVE IInv'
  OBVIOUS
<1>1. UNCHANGED <<inflight, globalInflight, queue, globalQueued, active, activeIds, phase,
                  candidates, caller, task, future, interrupt, closed, lease>>
  BY DEF vars, counters, queues, section, tasks
<1>2. Shape' /\ Tasks' /\ Lines'
  BY <1>1 DEF IInv, Shape, Tasks, Lines
<1>3. Rotation' /\ Progress'
  BY <1>1 DEF IInv, Rotation, Progress, Dispatching, CanAdmit
<1>4. Slots' /\ Places'
  BY <1>1, SlotsFrame, PlacesFrame DEF IInv
<1>. QED BY <1>2, <1>3, <1>4 DEF IInv

\* The inductive step: one case per action.
LEMMA NextIInv == IInv /\ [Next]_vars => IInv'
<1> SUFFICES ASSUME IInv, [Next]_vars PROVE IInv'
  OBVIOUS
<1>1. CASE DispatchStep
  BY <1>1, DiscardPreserves, VisitEmptyPreserves, VisitAtLimitPreserves,
     GrantWaiterPreserves, DispatchReturnsPreserves DEF DispatchStep
<1>2. ASSUME NEW r \in Requests, DecideStep(r) PROVE IInv'
  BY <1>2, AdmitAtOncePreserves, RejectPreserves, EnqueuePreserves DEF DecideStep
<1>3. CASE DrainStep
  BY <1>3, FailWaiterPreserves, ShutdownReturnsPreserves DEF DrainStep
<1>4. ASSUME NEW r \in Requests, Acquire(r) PROVE IInv'
  BY <1>4, AcquirePreserves
<1>5. ASSUME NEW r \in Requests, TimeoutFires(r) \/ CancelTask(r) PROVE IInv'
  BY <1>5, InterruptPreserves DEF TimeoutFires, CancelTask
<1>6. ASSUME NEW r \in Requests, Resume(r) PROVE IInv'
  BY <1>6, ResumeAdmittedPreserves, ResumeUnavailablePreserves, ResumeTimeoutPreserves,
     ResumeCancelledPreserves DEF Resume
<1>7. ASSUME NEW r \in Requests, Release(r) PROVE IInv'
  BY <1>7, ReleasePreserves
<1>8. CASE Shutdown
  BY <1>8, ShutdownPreserves
<1>9. CASE UNCHANGED vars
  BY <1>9, StutterIInv
<1>. QED BY <1>1, <1>2, <1>3, <1>4, <1>5, <1>6, <1>7, <1>8, <1>9 DEF Next, SectionStep

\* Every reachable state of the controller satisfies the inductive
\* invariant.
THEOREM Invariance == Spec => []IInv
BY InitIInv, NextIInv, PTL DEF Spec

-----------------------------------------------------------------------------
(***************************************************************************)
(* What the invariant shows.                                               *)
(***************************************************************************)
LEMMA CountersNatural ==
  ASSUME IInv
  PROVE  /\ globalInflight \in Nat /\ globalQueued \in Nat
         /\ inflight \in [Tenants -> Nat]
<1> USE AdmissionAssumption
<1>1. IsFiniteSet(LiveLeases) /\ IsFiniteSet(Queued)
  <2>1. LiveLeases \in SUBSET Requests /\ Queued \in SUBSET Requests
    BY DEF LiveLeases, Queued
  <2>. QED BY <2>1, FS_Subset
<1>2. \A t \in Tenants : Cardinality(LiveLeasesOf(t)) \in Nat
  BY <1>1, FS_Subset, FS_CardinalityType DEF LiveLeasesOf
<1>3. Cardinality(LiveLeases) \in Nat /\ Cardinality(Queued) \in Nat
  BY <1>1, FS_CardinalityType
<1>4. inflight \in [Tenants -> Nat]
  BY <1>2 DEF IInv, Shape, Slots
<1>. QED BY <1>3, <1>4 DEF IInv, Slots, Places

\* The types hold, so no counter ever becomes negative: the RuntimeErrors of
\* _release_locked and shutdown about inconsistent accounting are
\* unreachable.
THEOREM TypeCorrectness == Spec => []TypeOK
<1>1. IInv => TypeOK
  BY CountersNatural DEF IInv, Shape, TypeOK
<1>. QED BY <1>1, Invariance, PTL

\* The inflight counters are the numbers of live leases, within the limits.
THEOREM SlotsAreCounted == Spec => []SlotAccounting
<1>1. IInv => SlotAccounting
  BY DEF IInv, Slots, SlotAccounting
<1>. QED BY <1>1, Invariance, PTL

\* The queue counter is the number of queued waiters, within the limits,
\* and every unresolved future is queued once.
THEOREM QueuesAreCounted == Spec => []QueueAccounting
<1>1. ASSUME IInv PROVE QueueAccounting
  <2> USE AdmissionAssumption
  <2>1. \A r \in Requests : Waiting(r) => r \in Queued
    BY <1>1 DEF IInv, Lines, Waiting, Queued
  <2>2. ASSUME NEW t \in Tenants
        PROVE  /\ \A i, j \in DOMAIN queue[t] : queue[t][i] = queue[t][j] => i = j
               /\ \A i \in DOMAIN queue[t] :
                    TenantOf[queue[t][i]] = t /\ task[queue[t][i]] = "waiting"
    <3>1. queue[t] \in Seq(Requests) /\ DOMAIN queue[t] = 1..Len(queue[t])
      BY <1>1 DEF IInv, Shape
    <3>2. \A i \in DOMAIN queue[t] : queue[t][i] \in Requests /\ Contains(queue[t], queue[t][i])
      BY <3>1 DEF Contains
    <3>3. \A i \in DOMAIN queue[t] :
            TenantOf[queue[t][i]] = t /\ future[queue[t][i]] \in {"pending", "cancelled"}
      BY <1>1, <3>2 DEF IInv, Lines
    <3>4. \A i \in DOMAIN queue[t] : task[queue[t][i]] = "waiting"
      BY <1>1, <3>2, <3>3 DEF IInv, Tasks
    <3>5. \A i, j \in DOMAIN queue[t] : queue[t][i] = queue[t][j] => i = j
      BY <1>1, <3>1 DEF IInv, Lines, Distinct
    <3>. QED BY <3>3, <3>4, <3>5
  <2>. QED BY <1>1, <2>1, <2>2 DEF IInv, Places, QueueAccounting
<1>. QED BY <1>1, Invariance, PTL

\* The round-robin order has no duplicates and, between sections, exactly
\* the tenants that have a queue.
THEOREM RotationStaysConsistent == Spec => []RotationConsistent
<1>1. ASSUME IInv PROVE RotationConsistent
  <2>1. active \in Seq(Tenants) /\ DOMAIN active = 1..Len(active) /\ activeIds \in SUBSET Tenants
    BY <1>1 DEF IInv, Shape
  <2>2. activeIds = ToSet(active)
    BY <1>1, <2>1 DEF IInv, Rotation, Contains, ToSet
  <2>3. phase = "free" => activeIds = {t \in Tenants : queue[t] # << >>}
    BY <1>1, <2>1 DEF IInv, Rotation, Dispatching
  <2>. QED BY <1>1, <2>1, <2>2, <2>3 DEF IInv, Rotation, Distinct, RotationConsistent
<1>. QED BY <1>1, Invariance, PTL

\* Between sections nobody waits who could be admitted.
THEOREM NoIdleSlot == Spec => []WorkConserving
<1>1. IInv => WorkConserving
  BY DEF IInv, Progress, WorkConserving, Waiting
<1>. QED BY <1>1, Invariance, PTL

\* After shutdown no waiter is queued and no future is unresolved.
THEOREM ShutdownIsComplete == Spec => []NobodyLeftBehind
<1>1. ASSUME IInv, closed, phase = "free"
      PROVE  globalQueued = 0 /\ \A r \in Requests : ~Waiting(r)
  <2> USE AdmissionAssumption
  <2>1. Queued = {}
    BY <1>1, EmptyFacts DEF IInv, Rotation, Queued
  <2>2. \A r \in Requests : ~Waiting(r)
    BY <2>1, <1>1 DEF IInv, Lines, Waiting, Queued
  <2>. QED BY <1>1, <2>1, <2>2, FS_EmptySet DEF IInv, Places
<1>2. IInv => NobodyLeftBehind
  BY <1>1 DEF NobodyLeftBehind
<1>. QED BY <1>2, Invariance, PTL
-----------------------------------------------------------------------------
(***************************************************************************)
(* Action properties.                                                      *)
(***************************************************************************)
\* A lease loses its owner in no other step than the TimeoutError handler
\* of a request whose lease was granted before its timer fired; in
\* particular the CancelledError handler never loses one.
THEOREM CancellationIsSafe == Spec => CancellationReleasesGrant
<1> DEFINE Kept(r) == ~Orphaned(r) /\ Orphaned(r)' =>
                        interrupt[r] = "timeout" /\ future[r] = "result"
<1>1. ASSUME IInv, [Next]_vars, NEW r \in Requests
      PROVE  Kept(r)
  <2>1. SUFFICES ASSUME ~Orphaned(r), Orphaned(r)',
                        ~(interrupt[r] = "timeout" /\ future[r] = "result")
                 PROVE  FALSE
    OBVIOUS
  <2> USE <1>1, <2>1
  <2>2. /\ task \in [Requests -> TaskStates] /\ future \in [Requests -> FutureStates]
        /\ lease \in [Requests -> LeaseStates]
    BY DEF IInv, Shape
  <2>3. /\ task[r] = "waiting" <=> future[r] # "none"
        /\ future[r] \in {"pending", "cancelled", "exception"} => lease[r] = "none"
    BY DEF IInv, Tasks
  <2>4. lease'[r] = "live" /\ task'[r] # "holding" /\ ~(task'[r] = "waiting" /\ future'[r] = "result")
    BY DEF Orphaned
  <2>5. lease[r] = "live" => task[r] = "holding" \/ (task[r] = "waiting" /\ future[r] = "result")
    BY DEF Orphaned
  <2>a. CASE UNCHANGED <<task, future, lease>>
    BY <2>a, <2>4, <2>5
  <2>b. CASE DispatchStep
    <3>1. CASE DiscardCompletedWaiter \/ VisitEmptyTenant \/ VisitTenantAtLimit \/ DispatchReturns
      BY <3>1, <2>a DEF DiscardCompletedWaiter, VisitEmptyTenant, VisitTenantAtLimit,
                        DispatchReturns, tasks
    <3>2. ASSUME NEW x \in Requests, GrantWaiter(x) PROVE FALSE
      <4>1. /\ future' = [future EXCEPT ![x] = "result"]
            /\ lease' = [lease EXCEPT ![x] = "live"]
            /\ task' = task
        BY <3>2 DEF GrantWaiter, Grant
      <4>2. task[x] = "waiting"
        <5>1. future[x] = "pending"
          BY <3>2, HeadTenant, HeadWaiter DEF GrantWaiter, FutureDone
        <5>. QED BY <5>1 DEF IInv, Tasks
      <4>. QED BY <4>1, <4>2, <2>2, <2>4, <2>5
    <3>. QED BY <2>b, <3>1, <3>2 DEF DispatchStep
  <2>c. ASSUME NEW x \in Requests, DecideStep(x) PROVE FALSE
    <3>1. x # NoRequest /\ caller = x => lease[x] = "none"
      BY <2>c DEF IInv, Tasks
    <3>. QED
      BY <2>c, <2>2, <2>3, <2>4, <2>5, <3>1, AdmissionAssumption
         DEF DecideStep, AdmitAtOnce, RejectQueueFull, Enqueue, MustQueue, Grant, tasks
  <2>d. CASE DrainStep
    BY <2>d, <2>a, <2>2, <2>3, <2>4, <2>5
       DEF DrainStep, FailWaiter, ShutdownReturns, tasks
  <2>e. ASSUME NEW x \in Requests, Acquire(x) PROVE FALSE
    BY <2>e, <2>2, <2>4, <2>5 DEF Acquire, tasks
  <2>f. ASSUME NEW x \in Requests, TimeoutFires(x) \/ CancelTask(x) PROVE FALSE
    <3>1. task' = task /\ lease' = lease
      BY <2>f DEF TimeoutFires, CancelTask, Interrupt
    <3>2. future[r] = "result" => future'[r] = "result"
      BY <2>f, <2>2 DEF TimeoutFires, CancelTask, Interrupt
    <3>. QED BY <3>1, <3>2, <2>4, <2>5
  <2>g. ASSUME NEW x \in Requests, Resume(x) PROVE FALSE
    <3>1. CASE ResumeAdmitted(x)
      BY <3>1, <2>2, <2>4, <2>5 DEF ResumeAdmitted
    <3>2. CASE ResumeUnavailable(x)
      BY <3>2, <2>2, <2>3, <2>4, <2>5 DEF ResumeUnavailable, EndCall
    <3>3. CASE ResumeTimeout(x)
      BY <3>3, <2>2, <2>3, <2>4, <2>5 DEF ResumeTimeout, EndCall
    <3>4. CASE ResumeCancelled(x)
      <4>1. future[x] = "result" => ~Contains(queue[TenantOf[x]], x)
        BY AdmissionAssumption DEF IInv, Lines
      <4>2. future[x] = "result" => lease'[x] = "released"
        BY <3>4, <4>1, <2>2 DEF ResumeCancelled, ReleaseLocked, IInv, Tasks
      <4>3. \A q \in Requests : q # x => lease'[q] = lease[q]
        BY <3>4, <2>2 DEF ResumeCancelled, ReleaseLocked
      <4>4. \A q \in Requests : q # x => task'[q] = task[q] /\ future'[q] = future[q]
        BY <3>4, <2>2 DEF ResumeCancelled, EndCall
      <4>5. CASE r = x
        <5>1. task[x] = "waiting" /\ lease[x] = "live" => future[x] = "result"
          BY <4>5, <2>5
        <5>2. lease'[x] = "live" => lease[x] = "live"
          BY <3>4, <2>2 DEF ResumeCancelled, ReleaseLocked
        <5>. QED BY <3>4, <4>2, <4>5, <5>1, <5>2, <2>4 DEF ResumeCancelled
      <4>6. CASE r # x
        BY <4>3, <4>4, <4>6, <2>4, <2>5
      <4>. QED BY <4>5, <4>6
    <3>. QED BY <2>g, <3>1, <3>2, <3>3, <3>4 DEF Resume
  <2>h. ASSUME NEW x \in Requests, Release(x) PROVE FALSE
    BY <2>h, <2>2, <2>4, <2>5 DEF Release, ReleaseLocked
  <2>i. CASE Shutdown
    BY <2>i, <2>a DEF Shutdown, tasks
  <2>j. CASE UNCHANGED vars
    BY <2>j, <2>a DEF vars, tasks
  <2>. QED
    BY <2>b, <2>c, <2>d, <2>e, <2>f, <2>g, <2>h, <2>i, <2>j DEF Next, SectionStep
<1>2. IInv /\ [Next]_vars => [\A r \in Requests : Kept(r)]_vars
  BY <1>1
<1>. QED BY <1>2, Invariance, PTL DEF Spec, CancellationReleasesGrant
-----------------------------------------------------------------------------
(***************************************************************************)
(* The turn of a tenant.                                                   *)
(***************************************************************************)
\* A sequence that leaves elements out puts nobody ahead of anybody.
LEMMA LeavingOut ==
  ASSUME NEW S, NEW s \in Seq(S), NEW v \in Seq(S), NEW k \in 1..Len(s),
         Len(v) = Len(s) - 1,
         \A i \in 1..Len(s) - 1 : v[i] = IF i < k THEN s[i] ELSE s[i + 1],
         NEW u, NEW t, Ahead(v, u, t)
  PROVE  Ahead(s, u, t)
<1>1. DOMAIN v = 1..Len(s) - 1 /\ DOMAIN s = 1..Len(s) /\ Len(s) \in Nat
  OBVIOUS
<1>2. PICK i \in 1..Len(s) - 1, j \in 1..Len(s) - 1 : i < j /\ v[i] = u /\ v[j] = t
  BY <1>1 DEF Ahead
<1>3. PICK a \in 1..Len(s) : a = (IF i < k THEN i ELSE i + 1) /\ s[a] = u
  BY <1>1, <1>2
<1>4. PICK b \in 1..Len(s) : b = (IF j < k THEN j ELSE j + 1) /\ s[b] = t
  BY <1>1, <1>2
<1>5. a < b
  BY <1>1, <1>2, <1>3, <1>4
<1>. QED BY <1>1, <1>3, <1>4, <1>5 DEF Ahead

\* deque.popleft and remove leave elements out.
LEMMA TailAhead ==
  ASSUME NEW S, NEW s \in Seq(S), s # << >>, NEW u, NEW t, Ahead(Tail(s), u, t)
  PROVE  Ahead(s, u, t)
<1>1. /\ Tail(s) \in Seq(S) /\ Len(s) \in Nat \ {0} /\ Len(Tail(s)) = Len(s) - 1
      /\ \A i \in 1..Len(s) - 1 : Tail(s)[i] = s[i + 1]
  BY TailFacts
<1>2. 1 \in 1..Len(s) /\ \A i \in 1..Len(s) - 1 : Tail(s)[i] = IF i < 1 THEN s[i] ELSE s[i + 1]
  BY <1>1
<1>. QED BY <1>1, <1>2, LeavingOut

\* The same of remove.
LEMMA RemoveAhead ==
  ASSUME NEW S, NEW s \in Seq(S), Distinct(s), NEW x, Contains(s, x), NEW u, NEW t,
         Ahead(RemoveFirst(s, x), u, t)
  PROVE  Ahead(s, u, t)
<1>1. PICK k \in 1..Len(s) : s[k] = x
  BY DEF Contains
<1>2. /\ RemoveFirst(s, x) \in Seq(S) /\ Len(RemoveFirst(s, x)) = Len(s) - 1
      /\ \A i \in 1..Len(s) - 1 : RemoveFirst(s, x)[i] = IF i < k THEN s[i] ELSE s[i + 1]
  BY <1>1, RemoveFirstFacts
<1>. QED BY <1>2, LeavingOut

\* A tenant that joins at the end gets ahead of nobody.
LEMMA AppendAhead ==
  ASSUME NEW S, NEW s \in Seq(S), NEW x \in S, NEW u, NEW t, Ahead(Append(s, x), u, t)
  PROVE  t = x \/ (Ahead(s, u, t) /\ Contains(s, u))
<1>1. /\ Append(s, x) \in Seq(S) /\ Len(Append(s, x)) = Len(s) + 1 /\ Len(s) \in Nat
      /\ \A i \in 1..Len(s) : Append(s, x)[i] = s[i]
      /\ Append(s, x)[Len(s) + 1] = x
  BY AppendFacts
<1>2. DOMAIN Append(s, x) = 1..Len(s) + 1 /\ DOMAIN s = 1..Len(s)
  BY <1>1
<1>3. PICK i \in 1..Len(s) + 1, j \in 1..Len(s) + 1 :
        i < j /\ Append(s, x)[i] = u /\ Append(s, x)[j] = t
  BY <1>2 DEF Ahead
<1>4. CASE j = Len(s) + 1
  BY <1>1, <1>3, <1>4
<1>5. CASE j # Len(s) + 1
  <2>1. i \in 1..Len(s) /\ j \in 1..Len(s)
    BY <1>1, <1>3, <1>5
  <2>2. s[i] = u /\ s[j] = t
    BY <1>1, <1>3, <2>1
  <2>. QED BY <1>2, <1>3, <2>1, <2>2 DEF Ahead, Contains
<1>. QED BY <1>4, <1>5

\* What a step may do to the order in which the tenants are served.
Turn(t, u) ==
  t # u /\ Eligible(t) =>
    /\ ServedBy(u) => ~Ahead(active', u, t)
    /\ ~Ahead(active, u, t) /\ Eligible(t)' /\ ~ServedBy(t) => ~Ahead(active', u, t)

\* A step that serves nobody and puts nobody ahead.
LEMMA NobodyServed ==
  ASSUME NEW t \in Tenants, NEW u \in Tenants,
         \A r \in Requests : Waiting(r) => future'[r] # "result",
         Eligible(t) /\ Ahead(active', u, t) => Ahead(active, u, t)
  PROVE  Turn(t, u)
BY DEF Turn, ServedBy

\* The turns of _dispatch_locked: the tenant at the head was served or is at
\* its limit when it goes to the end.
LEMMA DispatchTurns ==
  ASSUME IInv, DispatchStep, NEW t \in Tenants, NEW u \in Tenants
  PROVE  Turn(t, u)
<1>1. active \in Seq(Tenants) /\ Distinct(active) /\ future \in [Requests -> FutureStates]
  BY DEF IInv, Shape, Rotation
<1>2. CASE DiscardCompletedWaiter \/ DispatchReturns
  BY <1>2, NobodyServed DEF DiscardCompletedWaiter, DispatchReturns, tasks, queues, Waiting
<1>3. CASE VisitEmptyTenant
  <2>1. active # << >> /\ active' = Tail(active) /\ future' = future
    BY <1>3, HeadTenant DEF VisitEmptyTenant, tasks
  <2>. QED BY <1>1, <2>1, TailAhead, NobodyServed DEF Waiting
<1>4. ASSUME Dispatching
      PROVE  /\ active # << >> /\ Head(active) \in Tenants
             /\ Tail(active) \in Seq(Tenants)
             /\ ~Contains(Tail(active), Head(active))
  <2>1. active # << >> /\ Head(active) \in Tenants
    BY <1>4, HeadTenant
  <2>. QED BY <1>1, <2>1, PopFacts
<1>5. CASE VisitTenantAtLimit
  <2>1. /\ Dispatching /\ inflight[Head(active)] >= MaxInflight[Head(active)]
        /\ active' = Append(Tail(active), Head(active)) /\ future' = future
    BY <1>5 DEF VisitTenantAtLimit, ActivateTenant, tasks
  <2>2. Eligible(t) => t # Head(active)
    <3>1. inflight[t] \in Int /\ MaxInflight[t] \in Int
      BY AdmissionAssumption DEF IInv, Shape
    <3>. QED BY <2>1, <3>1 DEF Eligible
  <2>3. ASSUME Eligible(t), Ahead(active', u, t)
        PROVE  Ahead(active, u, t)
    <3>1. Ahead(Tail(active), u, t)
      BY <1>4, <2>1, <2>2, <2>3, AppendAhead
    <3>. QED BY <1>1, <1>4, <2>1, <3>1, TailAhead
  <2>. QED BY <2>1, <2>3, NobodyServed DEF Waiting
<1>6. ASSUME NEW r \in Requests, GrantWaiter(r)
      PROVE  Turn(t, u)
  <2> DEFINE h == Head(active)
  <2>1. /\ Dispatching /\ queue[h] # << >> /\ r = Head(queue[h]) /\ ~FutureDone(r)
        /\ future' = [future EXCEPT ![r] = "result"]
        /\ active' = Append(Tail(active), h) \/ active' = Tail(active)
    BY <1>6 DEF GrantWaiter, ActivateTenant
  <2>2. TenantOf[r] = h /\ future[r] = "pending"
    BY <1>4, <2>1, HeadWaiter DEF FutureDone
  <2>3. future'[r] = "result" /\ \A q \in Requests : q # r => future'[q] = future[q]
    BY <1>1, <2>1
  <2>4. \A x : ServedBy(x) <=> x = h
    BY <2>2, <2>3 DEF ServedBy, Waiting
  <2>5. ASSUME t # h, Ahead(active', u, t)
        PROVE  Ahead(active, u, t) /\ u # h
    <3>1. Ahead(Tail(active), u, t)
      <4>1. CASE active' = Tail(active)
        BY <2>5, <4>1
      <4>2. CASE active' = Append(Tail(active), h)
        BY <1>4, <2>1, <2>5, <4>2, AppendAhead
      <4>. QED BY <2>1, <4>1, <4>2
    <3>2. Contains(Tail(active), u)
      <4>1. DOMAIN Tail(active) = 1..Len(Tail(active))
        BY <1>4, <2>1
      <4>. QED BY <3>1, <4>1 DEF Ahead, Contains
    <3>. QED BY <1>1, <1>4, <2>1, <3>1, <3>2, TailAhead
  <2> HIDE DEF h
  <2>. QED BY <2>4, <2>5 DEF Turn
<1>. QED BY <1>2, <1>3, <1>5, <1>6 DEF DispatchStep

\* A call that joins the queue of an eligible tenant finds it active.
LEMMA EnqueueTurns ==
  ASSUME IInv, NEW r \in Requests, Enqueue(r), NEW t \in Tenants, NEW u \in Tenants
  PROVE  Turn(t, u)
<1>1. /\ active \in Seq(Tenants) /\ future \in [Requests -> FutureStates]
      /\ TenantOf[r] \in Tenants
  BY AdmissionAssumption DEF IInv, Shape
<1>2. /\ active' = IF TenantOf[r] \in activeIds THEN active ELSE Append(active, TenantOf[r])
      /\ future' = [future EXCEPT ![r] = "pending"]
  BY DEF Enqueue, ActivateTenant
<1>3. \A q \in Requests : Waiting(q) => future'[q] # "result"
  BY <1>1, <1>2 DEF Waiting
<1>4. Eligible(t) => t \in activeIds
  <2>1. SUFFICES ASSUME NEW q \in Requests, TenantOf[q] = t, future[q] = "pending"
                 PROVE  t \in activeIds
    BY DEF Eligible, Waiting
  <2>2. Contains(queue[t], q)
    BY <2>1 DEF IInv, Lines
  <2>3. queue[t] # << >>
    BY <2>2, EmptyFacts
  <2>. QED BY <2>3 DEF IInv, Rotation
<1>5. ASSUME Eligible(t), Ahead(active', u, t)
      PROVE  Ahead(active, u, t)
  <2>1. CASE TenantOf[r] \in activeIds
    BY <1>2, <1>5, <2>1
  <2>2. CASE TenantOf[r] \notin activeIds
    BY <1>1, <1>2, <1>4, <1>5, <2>2, AppendAhead
  <2>. QED BY <2>1, <2>2
<1>. QED BY <1>3, <1>5, NobodyServed

\* A waiter that leaves may take its tenant out of the order.
LEMMA ResumeTurns ==
  ASSUME IInv, NEW r \in Requests, Resume(r), NEW t \in Tenants, NEW u \in Tenants
  PROVE  Turn(t, u)
<1>1. active \in Seq(Tenants) /\ Distinct(active) /\ future \in [Requests -> FutureStates]
  BY DEF IInv, Shape, Rotation
<1>2. future' = [future EXCEPT ![r] = "none"]
  BY DEF Resume, ResumeAdmitted, ResumeUnavailable, ResumeTimeout, ResumeCancelled, EndCall
<1>3. \A q \in Requests : Waiting(q) => future'[q] # "result"
  BY <1>1, <1>2 DEF Waiting
<1>4. \/ active' = active
      \/ \E x \in activeIds : x \in Tenants /\ active' = RemoveFirst(active, x)
  <2>1. CASE ResumeAdmitted(r) \/ ResumeUnavailable(r)
    BY <2>1 DEF ResumeAdmitted, ResumeUnavailable, queues
  <2>2. CASE RemoveWaiter(r)
    BY <2>2, AdmissionAssumption DEF RemoveWaiter, DeactivateTenant, queues
  <2>. QED BY <2>1, <2>2 DEF Resume, ResumeTimeout, ResumeCancelled
<1>5. ASSUME Ahead(active', u, t)
      PROVE  Ahead(active, u, t)
  <2>1. ASSUME NEW x \in activeIds, x \in Tenants, active' = RemoveFirst(active, x)
        PROVE  Ahead(active, u, t)
    <3>1. Contains(active, x)
      BY <2>1 DEF IInv, Rotation
    <3>. QED BY <1>1, <1>5, <2>1, <3>1, RemoveAhead
  <2>. QED BY <1>4, <1>5, <2>1
<1>. QED BY <1>3, <1>5, NobodyServed

\* Tenants are served in turn (_dispatch_locked): with any number of tenants
\* and whatever joins, times out, is cancelled or released in between, a
\* tenant that was served is not ahead of one that was eligible, and nobody
\* gets ahead of an eligible tenant that was not served.
THEOREM TenantsTakeTurns == Spec => RoundRobin
<1>1. ASSUME IInv, [Next]_vars, NEW t \in Tenants, NEW u \in Tenants
      PROVE  Turn(t, u)
  <2> USE <1>1
  <2>1. future \in [Requests -> FutureStates]
    BY DEF IInv, Shape
  <2>2. ASSUME active' = active, \A r \in Requests : Waiting(r) => future'[r] # "result"
        PROVE  Turn(t, u)
    BY <2>2, NobodyServed
  <2>3. CASE DispatchStep
    BY <2>3, DispatchTurns
  <2>4. ASSUME NEW r \in Requests, DecideStep(r)
        PROVE  Turn(t, u)
    <3>1. CASE AdmitAtOnce(r) \/ RejectQueueFull(r)
      BY <2>2, <3>1 DEF AdmitAtOnce, RejectQueueFull, queues, tasks, Waiting
    <3>. QED BY <2>4, <3>1, EnqueueTurns DEF DecideStep
  <2>5. CASE DrainStep
    <3>1. CASE ShutdownReturns
      <4>1. active' = << >> /\ future' = future
        BY <3>1 DEF ShutdownReturns, tasks
      <4>2. ~Ahead(active', u, t)
        BY <4>1 DEF Ahead
      <4>. QED BY <4>1, <4>2, NobodyServed DEF Waiting
    <3>2. ASSUME NEW x \in Tenants, FailWaiter(x)
          PROVE  Turn(t, u)
      <4>1. active' = active
        BY <3>2 DEF FailWaiter
      <4>2. \A r \in Requests : Waiting(r) => future'[r] # "result"
        BY <2>1, <3>2 DEF FailWaiter, Waiting
      <4>. QED BY <2>2, <4>1, <4>2
    <3>. QED BY <2>5, <3>1, <3>2 DEF DrainStep
  <2>6. ASSUME NEW r \in Requests, Acquire(r) \/ Release(r)
        PROVE  Turn(t, u)
    BY <2>2, <2>6 DEF Acquire, Release, queues, tasks, Waiting
  <2>7. ASSUME NEW r \in Requests, TimeoutFires(r) \/ CancelTask(r)
        PROVE  Turn(t, u)
    <3>1. active' = active
      BY <2>7 DEF TimeoutFires, CancelTask, Interrupt, queues
    <3>2. \A q \in Requests : Waiting(q) => future'[q] # "result"
      BY <2>1, <2>7 DEF TimeoutFires, CancelTask, Interrupt, Waiting
    <3>. QED BY <2>2, <3>1, <3>2
  <2>8. ASSUME NEW r \in Requests, Resume(r)
        PROVE  Turn(t, u)
    BY <2>8, ResumeTurns
  <2>9. CASE Shutdown \/ UNCHANGED vars
    BY <2>2, <2>9 DEF Shutdown, vars, queues, tasks, Waiting
  <2>. QED
    BY <2>3, <2>4, <2>5, <2>6, <2>7, <2>8, <2>9 DEF Next, SectionStep
<1>2. IInv /\ [Next]_vars => [\A t, u \in Tenants : Turn(t, u)]_vars
  BY <1>1
<1>3. (\A t, u \in Tenants : Turn(t, u))
        <=> \A t, u \in Tenants :
              t # u /\ Eligible(t) =>
                /\ ServedBy(u) => ~Ahead(active', u, t)
                /\ ~Ahead(active, u, t) /\ Eligible(t)' /\ ~ServedBy(t) =>
                     ~Ahead(active', u, t)
  BY DEF Turn
<1>. QED BY <1>2, <1>3, Invariance, PTL DEF Spec, RoundRobin
-----------------------------------------------------------------------------
(***************************************************************************)
(* The controller implements SlotService.                                  *)
(***************************************************************************)
Waiters == {r \in Requests : Waiting(r)}

\* The instance counts as FiniteSets does.
LEMMA SameCardinality == \A S : Service!Cardinality(S) = Cardinality(S)
BY DEF Service!Cardinality, Cardinality

\* The service has room exactly when the controller's counters say so.
LEMMA RoomIsCanAdmit ==
  ASSUME IInv, NEW t \in Tenants
  PROVE  Service!Room(t) <=> CanAdmit(t)
<1>1. Service!Of(LiveLeases, t) = LiveLeasesOf(t)
  BY DEF Service!Of, LiveLeasesOf
<1>2. /\ Cardinality(LiveLeasesOf(t)) = inflight[t]
      /\ Cardinality(LiveLeases) = globalInflight
  BY DEF IInv, Slots
<1>3. Service!Room(t) <=> /\ Cardinality(LiveLeasesOf(t)) < MaxInflight[t]
                          /\ Cardinality(LiveLeases) < GlobalMaxInflight
  BY <1>1, SameCardinality DEF Service!Room
<1>. QED BY <1>2, <1>3 DEF CanAdmit

\* The waiters of a tenant are at most as many as the entries of its queue.
LEMMA WaitersAreQueued ==
  ASSUME IInv, NEW t \in Tenants
  PROVE  /\ Cardinality(Service!Of(Waiters, t)) \in Nat
         /\ Cardinality(Service!Of(Waiters, t)) <= Len(queue[t])
         /\ Cardinality(Waiters) \in Nat
         /\ Cardinality(Waiters) <= globalQueued
<1> USE AdmissionAssumption
<1> DEFINE n == Len(queue[t])
           Entries == {queue[t][i] : i \in 1..n}
<1>1. queue[t] \in Seq(Requests) /\ n \in Nat
  BY DEF IInv, Shape
<1>2. ExistsSurjection(1..n, Entries)
  <2>1. queue[t] \in [1..n -> Entries]
    BY <1>1
  <2>2. queue[t] \in Surjection(1..n, Entries)
    BY <2>1 DEF Surjection
  <2>. QED BY <2>2 DEF ExistsSurjection
<1>3. IsFiniteSet(Entries) /\ Cardinality(Entries) <= n
  <2>1. Entries \in SUBSET Requests
    BY <1>1
  <2>. QED BY <1>1, <1>2, <2>1, FS_SurjCardinalityBound, FS_Subset
<1>4. Service!Of(Waiters, t) \in SUBSET Entries
  <2>1. SUFFICES ASSUME NEW x \in Requests, TenantOf[x] = t, future[x] = "pending"
                 PROVE  x \in Entries
    BY DEF Waiters, Waiting, Service!Of
  <2>2. Contains(queue[t], x)
    BY <2>1 DEF IInv, Lines
  <2>. QED BY <2>2 DEF Contains
<1>5. /\ Cardinality(Service!Of(Waiters, t)) \in Nat
      /\ Cardinality(Service!Of(Waiters, t)) <= Cardinality(Entries)
      /\ Cardinality(Entries) \in Nat
  <2> HIDE DEF Entries
  <2>. QED BY <1>3, <1>4, FS_Subset, FS_CardinalityType
<1>6. Waiters \in SUBSET Queued /\ IsFiniteSet(Queued)
  <2>1. Waiters \in SUBSET Queued
    BY DEF IInv, Lines, Waiters, Waiting, Queued
  <2>2. Queued \in SUBSET Requests
    BY DEF Queued
  <2>. QED BY <2>1, <2>2, FS_Subset
<1>7. Cardinality(Waiters) \in Nat /\ Cardinality(Waiters) <= Cardinality(Queued)
  BY <1>6, FS_Subset, FS_CardinalityType
<1> HIDE DEF Entries
<1>8. Cardinality(Service!Of(Waiters, t)) <= n
  BY <1>1, <1>3, <1>5
<1>. QED BY <1>5, <1>7, <1>8 DEF IInv, Places

\* A step that changes neither leases, pending futures nor closed is a
\* stuttering step of the service.
LEMMA ServiceStutter ==
  ASSUME LiveLeases' = LiveLeases, Waiters' = Waiters, closed' = closed
  PROVE  UNCHANGED Service!vars
BY DEF Service!vars, Waiters

\* A grant by _dispatch_locked is a Serve step of the service.
LEMMA GrantIsServe ==
  ASSUME IInv, NEW r \in Requests, GrantWaiter(r)
  PROVE  Service!Serve(r)
<1> USE AdmissionAssumption
<1> DEFINE t == Head(active)
<1>1. t \in Tenants /\ Dispatching
  BY HeadTenant DEF GrantWaiter
<1>2. TenantOf[r] = t /\ future[r] = "pending"
  BY <1>1, HeadWaiter DEF GrantWaiter, FutureDone
<1>3. ~closed /\ CanAdmit(TenantOf[r])
  BY <1>1, <1>2 DEF IInv, Rotation, CanAdmit, Dispatching, GrantWaiter
<1>4. /\ future' = [future EXCEPT ![r] = "result"]
      /\ lease' = [lease EXCEPT ![r] = "live"]
      /\ closed' = closed
  BY DEF GrantWaiter, Grant
<1>5. LiveLeases' = LiveLeases \cup {r}
  BY <1>4 DEF IInv, Shape, LiveLeases
<1>6. Waiters' = Waiters \ {r} /\ r \in Waiters
  BY <1>2, <1>4 DEF IInv, Shape, Waiters, Waiting
<1>7. Service!Room(TenantOf[r])
  BY <1>1, <1>2, <1>3, RoomIsCanAdmit
<1>. QED BY <1>3, <1>4, <1>5, <1>6, <1>7 DEF Service!Serve, Waiters

\* A grant in _acquire is an Admit step of the service.
LEMMA AdmitAtOnceIsAdmit ==
  ASSUME IInv, NEW r \in Requests, AdmitAtOnce(r)
  PROVE  Service!Admit(r)
<1> USE AdmissionAssumption
<1>1. /\ phase = "dispatch" /\ ~Dispatching /\ caller = r /\ ~closed
      /\ CanAdmit(TenantOf[r])
      /\ lease' = [lease EXCEPT ![r] = "live"]
      /\ future' = future /\ closed' = closed
  BY DEF AdmitAtOnce, DispatchDone, Grant, IInv, Rotation
<1>2. r # NoRequest /\ lease[r] = "none" /\ future[r] = "none"
  BY <1>1 DEF IInv, Shape, Tasks
<1>3. r \notin LiveLeases /\ r \notin Waiters
  BY <1>2 DEF LiveLeases, Waiters, Waiting
<1>4. LiveLeases' = LiveLeases \cup {r} /\ Waiters' = Waiters
  BY <1>1 DEF IInv, Shape, LiveLeases, Waiters, Waiting
<1>5. TenantOf[r] \in Tenants /\ Service!Room(TenantOf[r])
  BY <1>1, RoomIsCanAdmit
<1>6. \A w \in Waiters : ~Service!Room(TenantOf[w])
  BY <1>1, QuietDispatch, RoomIsCanAdmit DEF Waiters, Waiting
<1>. QED BY <1>1, <1>3, <1>4, <1>5, <1>6 DEF Service!Admit, Waiters

\* A call that is queued is a Join step of the service.
LEMMA EnqueueIsJoin ==
  ASSUME IInv, NEW r \in Requests, Enqueue(r)
  PROVE  Service!Join(r)
<1> USE AdmissionAssumption
<1> DEFINE t == TenantOf[r]
<1>1. /\ phase = "dispatch" /\ ~Dispatching /\ caller = r /\ ~closed
      /\ ~TenantQueueFull(t) /\ ~GatewayQueueFull
      /\ future' = [future EXCEPT ![r] = "pending"]
      /\ lease' = lease /\ closed' = closed
      /\ ~(queue[t] = << >> /\ CanAdmit(t))
  BY DEF Enqueue, MustQueue, DispatchDone, IInv, Rotation
<1>2. r # NoRequest /\ lease[r] = "none" /\ future[r] = "none" /\ t \in Tenants
  BY <1>1 DEF IInv, Shape, Tasks
<1>3. r \notin LiveLeases /\ r \notin Waiters
  BY <1>2 DEF LiveLeases, Waiters, Waiting
<1>4. LiveLeases' = LiveLeases /\ Waiters' = Waiters \cup {r}
  BY <1>1 DEF IInv, Shape, LiveLeases, Waiters, Waiting
<1>5. ~Service!Room(t)
  BY <1>1, <1>2, QuietDispatch, RoomIsCanAdmit
<1>6. /\ Cardinality(Service!Of(Waiters, t)) < MaxQueue[t]
      /\ Cardinality(Waiters) < GlobalMaxQueue
  <2>1. Len(queue[t]) \in Nat /\ Len(queue[t]) < MaxQueue[t] /\ MaxQueue[t] \in Nat
    BY <1>1, <1>2 DEF TenantQueueFull, IInv, Shape
  <2>2. globalQueued \in Int /\ globalQueued < GlobalMaxQueue
    BY <1>1 DEF GatewayQueueFull, IInv, Shape
  <2>. QED BY <1>2, <2>1, <2>2, WaitersAreQueued
<1>. QED BY <1>1, <1>3, <1>4, <1>5, <1>6, SameCardinality DEF Service!Join, Waiters

\* A pending future that is resolved without a lease is a waiter that gives
\* up.
LEMMA ResolveIsGiveUp ==
  ASSUME IInv, NEW r \in Requests, NEW state \in {"cancelled", "exception"},
         future' = [future EXCEPT ![r] = IF future[r] = "pending" THEN state ELSE future[r]],
         lease' = lease, closed' = closed
  PROVE  Service!GiveUp(r) \/ UNCHANGED Service!vars
<1>1. LiveLeases' = LiveLeases
  BY DEF LiveLeases
<1>2. CASE future[r] = "pending"
  <2>1. r \in Waiters /\ Waiters' = Waiters \ {r}
    BY <1>2 DEF IInv, Shape, Waiters, Waiting
  <2>. QED BY <1>1, <2>1 DEF Service!GiveUp, Waiters
<1>3. CASE future[r] # "pending"
  <2>1. Waiters' = Waiters
    BY <1>3 DEF IInv, Shape, Waiters, Waiting
  <2>. QED BY <1>1, <2>1, ServiceStutter
<1>. QED BY <1>2, <1>3

\* _release_locked is a holder that leaves, or nothing.
LEMMA ReleaseIsLeave ==
  ASSUME IInv, NEW r \in Requests, ReleaseLocked(r), Waiters' = Waiters, closed' = closed
  PROVE  Service!Leave(r) \/ UNCHANGED Service!vars
<1>1. CASE lease[r] = "live"
  <2>1. lease' = [lease EXCEPT ![r] = "released"]
    BY <1>1 DEF ReleaseLocked
  <2>2. r \in LiveLeases /\ LiveLeases' = LiveLeases \ {r}
    BY <1>1, <2>1 DEF IInv, Shape, LiveLeases
  <2>. QED BY <2>2 DEF Service!Leave, Waiters
<1>2. CASE lease[r] # "live"
  <2>1. LiveLeases' = LiveLeases
    BY <1>2 DEF ReleaseLocked, LiveLeases
  <2>. QED BY <2>1, ServiceStutter
<1>. QED BY <1>1, <1>2
\* Every step of the controller is a step of the service or a stutter.
LEMMA StepIsServiceStep ==
  ASSUME IInv, [Next]_vars
  PROVE  [Service!Next]_(Service!vars)
<1> USE AdmissionAssumption
<1>0. UNCHANGED <<lease, future, closed>> => UNCHANGED Service!vars
  <2> SUFFICES ASSUME UNCHANGED <<lease, future, closed>> PROVE UNCHANGED Service!vars
    OBVIOUS
  <2>1. LiveLeases' = LiveLeases /\ Waiters' = Waiters
    BY DEF LiveLeases, Waiters, Waiting
  <2>. QED BY <2>1, ServiceStutter
<1>1. CASE DispatchStep
  <2>1. CASE DiscardCompletedWaiter \/ VisitEmptyTenant \/ VisitTenantAtLimit \/ DispatchReturns
    BY <1>0, <2>1 DEF DiscardCompletedWaiter, VisitEmptyTenant, VisitTenantAtLimit,
                      DispatchReturns, tasks
  <2>. QED BY <1>1, <2>1, GrantIsServe DEF DispatchStep, Service!Next
<1>2. ASSUME NEW r \in Requests, DecideStep(r) PROVE [Service!Next]_(Service!vars)
  <2>1. CASE RejectQueueFull(r)
    BY <1>0, <2>1 DEF RejectQueueFull, tasks
  <2>. QED BY <1>2, <2>1, AdmitAtOnceIsAdmit, EnqueueIsJoin DEF DecideStep, Service!Next
<1>3. CASE DrainStep
  <2>1. ASSUME NEW t \in Tenants, FailWaiter(t) PROVE [Service!Next]_(Service!vars)
    <3>1. Head(queue[t]) \in Requests
      BY <2>1, HeadWaiter DEF FailWaiter
    <3>2. /\ future' = [future EXCEPT ![Head(queue[t])] =
                          IF future[Head(queue[t])] = "pending" THEN "exception"
                          ELSE future[Head(queue[t])]]
          /\ lease' = lease /\ closed' = closed
      BY <2>1 DEF FailWaiter
    <3>3. Service!GiveUp(Head(queue[t])) \/ UNCHANGED Service!vars
      BY <3>1, <3>2, ResolveIsGiveUp
    <3>. QED BY <3>1, <3>3 DEF Service!Next
  <2>2. CASE ShutdownReturns
    BY <1>0, <2>2 DEF ShutdownReturns, tasks
  <2>. QED BY <1>3, <2>1, <2>2 DEF DrainStep
<1>4. ASSUME NEW r \in Requests, Acquire(r) PROVE [Service!Next]_(Service!vars)
  <2>1. LiveLeases' = LiveLeases
    BY <1>4 DEF Acquire, IInv, Shape, LiveLeases
  <2>2. Waiters' = Waiters /\ closed' = closed
    BY <1>4 DEF Acquire, tasks, Waiters, Waiting
  <2>. QED BY <2>1, <2>2, ServiceStutter
<1>5. ASSUME NEW r \in Requests, TimeoutFires(r) \/ CancelTask(r)
      PROVE  [Service!Next]_(Service!vars)
  <2>1. /\ future' = [future EXCEPT ![r] = IF future[r] = "pending" THEN "cancelled" ELSE future[r]]
        /\ lease' = lease /\ closed' = closed
    BY <1>5 DEF TimeoutFires, CancelTask, Interrupt
  <2>2. Service!GiveUp(r) \/ UNCHANGED Service!vars
    BY <2>1, ResolveIsGiveUp
  <2>. QED BY <2>2 DEF Service!Next
<1>6. ASSUME NEW r \in Requests, Resume(r) PROVE [Service!Next]_(Service!vars)
  <2>1. /\ future' = [future EXCEPT ![r] = "none"] /\ closed' = closed /\ future[r] # "pending"
    BY <1>6 DEF Resume, ResumeAdmitted, ResumeUnavailable, ResumeTimeout, ResumeCancelled,
                EndCall, IInv, Tasks
  <2>2. Waiters' = Waiters
    BY <2>1 DEF IInv, Shape, Waiters, Waiting
  <2>3. CASE lease' = lease
    <3>1. LiveLeases' = LiveLeases
      BY <2>3 DEF LiveLeases
    <3>. QED BY <2>1, <2>2, <3>1, ServiceStutter
  <2>4. CASE ReleaseLocked(r)
    BY <2>1, <2>2, <2>4, ReleaseIsLeave DEF Service!Next
  <2>. QED BY <1>6, <2>3, <2>4
       DEF Resume, ResumeAdmitted, ResumeUnavailable, ResumeTimeout, ResumeCancelled
<1>7. ASSUME NEW r \in Requests, Release(r) PROVE [Service!Next]_(Service!vars)
  <2>1. ReleaseLocked(r) /\ Waiters' = Waiters /\ closed' = closed
    BY <1>7 DEF Release, Waiters, Waiting
  <2>. QED BY <2>1, ReleaseIsLeave DEF Service!Next
<1>8. CASE Shutdown
  <2>1. LiveLeases' = LiveLeases /\ Waiters' = Waiters /\ closed' = TRUE
    BY <1>8 DEF Shutdown, LiveLeases, Waiters, Waiting, tasks
  <2>. QED BY <2>1 DEF Service!Next, Service!Close, Waiters
<1>9. CASE UNCHANGED vars
  BY <1>0, <1>9 DEF vars, tasks
<1>. QED BY <1>1, <1>2, <1>3, <1>4, <1>5, <1>6, <1>7, <1>8, <1>9 DEF Next, SectionStep

\* The controller implements the slot service: with its queues, futures and
\* interrupts it never exceeds a limit, never lets a call wait that there is
\* room for, never lets a call pass a waiter that could be admitted, and
\* admits nobody after shutdown.
THEOREM Implementation == Spec => ImplementsSlotService
<1>1. Init => Service!Init
  <2> SUFFICES ASSUME Init PROVE Service!Init
    OBVIOUS
  <2>1. LiveLeases = {} /\ Waiters = {} /\ closed = FALSE
    BY DEF Init, LiveLeases, Waiters, Waiting
  <2>. QED BY <2>1 DEF Service!Init, Waiters
<1>2. IInv /\ [Next]_vars => [Service!Next]_(Service!vars)
  BY StepIsServiceStep
<1>. QED BY <1>1, <1>2, Invariance, PTL DEF Spec, ImplementsSlotService, Service!Spec
=============================================================================
