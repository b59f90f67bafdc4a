------------------------- MODULE BackendPoolProofs -------------------------
(***************************************************************************)
(* The invariants of BackendPool, and the fairness of its rotation, for    *)
(* every number of backends, operations and callers of close, for every    *)
(* batch size and however often a backend fails.                           *)
(***************************************************************************)
EXTENDS BackendPool, TLAPS, FiniteSetTheorems, WellFoundedInduction

-----------------------------------------------------------------------------
(***************************************************************************)
(* The inductive invariant.                                                *)
(***************************************************************************)
\* An operation between _select and its end has a slot; a stream is
\* registered from _register_stream to the end of its _finish, unless the
\* pool was closed when it opened; and it is observed once, at its end.
Registered == {"open", "by consumer", "by close"}

Operation(o) ==
  /\ op[o] \notin {"idle", "refused"} => slot[o] \in Slots
  /\ o \in active => o \in Unfinished
  /\ o \in streams <=> op[o] \in Registered
  /\ observed[o] = IF op[o] = "ended" THEN 1 ELSE 0

\* How often the leaf clients were closed when close is at each stage.
Untouched == \A s \in Slots : leafCloses[s] = 0
ClosedOnce(rest) == \A s \in Slots : leafCloses[s] = IF s \in rest THEN 0 ELSE 1

\* close releases the lease of an unfinished operation, but only when every
\* leaf client has been closed.
Work ==
  /\ \A s \in Slots : inflight[s] = Cardinality(Requests(active, s))
  /\ Unfinished \subseteq active \/ ClosedOnce({})

\* One call of close at a time is past _close_lock, and none returned
\* before it; a call past the lock has closed the pool, or found it closed.
Exclusion ==
  /\ \A c, d \in Closers :
       closer[c] \in CloseStages => closer[d] # "returned"
                                    /\ (closer[d] \in CloseStages => d = c)
  /\ \A c \in Closers : closer[c] \in CloseStages \cup {"returned"} => closed

\* A closed pool has no lease and no stream that close did not read.
Snapshot ==
  closed => active \subseteq snapLeases /\ streams \subseteq snapStreams

\* What a call of close has achieved when it is at each stage.
Stages ==
  /\ ~closed => Untouched
  /\ \A c \in Closers :
       /\ closer[c] \in {"probe", "streams"} => Untouched
       /\ closer[c] \in CloseStages \ {"probe"} => loop \in {"none", "ended"}
       /\ closer[c] \in {"backends", "leases"} => \A o \in snapStreams : op[o] = "ended"
       /\ closer[c] = "backends" => ClosedOnce(toClose)
       /\ closer[c] = "leases" => ClosedOnce({})

\* What close leaves behind when no call of it is running or was cancelled.
Nothing ==
  /\ active = {} /\ streams = {}
  /\ loop \in {"none", "ended"}
  /\ ClosedOnce({})
  /\ \A s \in Slots : ~gauge[s].healthy

Done ==
  closed /\ (\A c \in Closers : closer[c] \notin CloseStages \cup {"cancelled"})
    => Nothing

IInv ==
  /\ TypeOK
  /\ \A o \in Ops : Operation(o)
  /\ Work
  /\ Exclusion
  /\ Snapshot
  /\ Stages
  /\ Done
  /\ GaugesMirrorState

-----------------------------------------------------------------------------
(***************************************************************************)
(* Sets of requests.                                                       *)
(***************************************************************************)
\* Requests, for the slots that the function at gives the operations.
On(os, at, s) == UNION {{o} \X (1..Weight[o]) : o \in {a \in os : at[a] = s}}

\* An operation has finitely many requests, as many as its weight.
LEMMA WeightOf ==
  ASSUME NEW o \in Ops
  PROVE  /\ IsFiniteSet({o} \X (1..Weight[o]))
         /\ Cardinality({o} \X (1..Weight[o])) = Weight[o]
         /\ Weight[o] \in Nat
<1>1. Weight[o] \in Nat \ {0}
  BY PoolAssumption
<1>2. IsFiniteSet(1..Weight[o]) /\ Cardinality(1..Weight[o]) = Weight[o]
  BY <1>1, FS_Interval
<1>3. IsFiniteSet({o}) /\ Cardinality({o}) = 1
  BY FS_Singleton
<1>4. /\ IsFiniteSet({o} \X (1..Weight[o]))
      /\ Cardinality({o} \X (1..Weight[o])) = Cardinality({o}) * Cardinality(1..Weight[o])
  BY <1>2, <1>3, FS_Product
<1> QED
  BY <1>1, <1>2, <1>3, <1>4

\* Every set of operations has finitely many requests on a slot.
LEMMA OnFinite ==
  ASSUME NEW os, os \subseteq Ops, NEW at, NEW s
  PROVE  IsFiniteSet(On(os, at, s)) /\ Cardinality(On(os, at, s)) \in Nat
<1> DEFINE f == [o \in Ops |-> {o} \X (1..Weight[o])]
           T == {f[o] : o \in Ops}
<1>1. IsFiniteSet(T)
  <2>1. f \in Surjection(Ops, T)
    BY DEF Surjection
  <2> QED
    BY <2>1, FS_Surjection, PoolAssumption
<1>2. \A x \in T : IsFiniteSet(x)
  BY WeightOf
<1>3. IsFiniteSet(UNION T)
  <2> HIDE DEF T
  <2> QED
    BY <1>1, <1>2, FS_UNION
<1>4. On(os, at, s) \subseteq UNION T
  BY DEF On
<1> HIDE DEF T
<1>5. IsFiniteSet(On(os, at, s))
  BY <1>3, <1>4, FS_Subset
<1> QED
  BY <1>5, FS_CardinalityType

\* An operation that gets a slot adds its weight there.
LEMMA OnAdd ==
  ASSUME NEW os, os \subseteq Ops, NEW at, NEW at2, NEW o \in Ops, o \notin os, NEW s,
         \A a \in os : at2[a] = at[a]
  PROVE  Cardinality(On(os \cup {o}, at2, s))
           = Cardinality(On(os, at, s)) + (IF at2[o] = s THEN Weight[o] ELSE 0)
<1> DEFINE W == {o} \X (1..Weight[o])
<1>1. /\ IsFiniteSet(On(os, at, s)) /\ Cardinality(On(os, at, s)) \in Nat
      /\ IsFiniteSet(W) /\ Cardinality(W) = Weight[o] /\ Weight[o] \in Nat
  BY OnFinite, WeightOf
<1>2. CASE at2[o] = s
  <2>1. On(os \cup {o}, at2, s) = On(os, at, s) \cup W
    BY <1>2 DEF On
  <2>2. On(os, at, s) \cap W = {}
    BY DEF On
  <2>3. Cardinality({}) = 0
    BY FS_EmptySet
  <2> HIDE DEF W
  <2>4. Cardinality(On(os, at, s) \cup W)
          = Cardinality(On(os, at, s)) + Cardinality(W) - Cardinality(On(os, at, s) \cap W)
    BY <1>1, FS_Union
  <2>5. Cardinality(On(os, at, s) \cap W) = 0
    BY <2>2, <2>3, Zenon
  <2>6. Cardinality(On(os \cup {o}, at2, s)) = Cardinality(On(os, at, s) \cup W)
    BY <2>1, Zenon
  <2>7. Cardinality(On(os \cup {o}, at2, s)) = Cardinality(On(os, at, s)) + Weight[o]
    BY <1>1, <2>4, <2>5, <2>6
  <2> QED
    BY <1>2, <2>7
<1>3. CASE at2[o] # s
  <2>1. On(os \cup {o}, at2, s) = On(os, at, s)
    BY <1>3 DEF On
  <2> QED
    BY <1>1, <1>3, <2>1
<1> QED
  BY <1>2, <1>3

\* Operations that give their requests back leave those of the others.
LEMMA OnRemove ==
  ASSUME NEW os, os \subseteq Ops, NEW ds, ds \subseteq os, NEW at, NEW s
  PROVE  Cardinality(On(os \ ds, at, s))
           = Cardinality(On(os, at, s)) - Cardinality(On(ds, at, s))
<1>1. On(os \ ds, at, s) = On(os, at, s) \ On(ds, at, s)
  BY DEF On
<1>2. On(os, at, s) \cap On(ds, at, s) = On(ds, at, s)
  BY DEF On
<1>3. IsFiniteSet(On(os, at, s))
  BY OnFinite
<1> QED
  BY <1>1, <1>2, <1>3, FS_Difference

\* No operation, no request.
LEMMA OnNobody ==
  ASSUME NEW at, NEW s
  PROVE  Cardinality(On({}, at, s)) = 0
<1>1. On({}, at, s) = {}
  BY DEF On
<1> QED
  BY <1>1, FS_EmptySet

\* The requests of the model are these, before and after a step.
LEMMA RequestsAre ==
  /\ \A os, s : Requests(os, s) = On(os, slot, s)
  /\ \A s : Requests(active, s)' = On(active', slot', s)
BY DEF Requests, On

(***************************************************************************)
(* The rotation.                                                           *)
(***************************************************************************)
\* The distance from a position to a slot, without the remainder.
LEMMA DistanceIs ==
  ASSUME NEW c \in Slots, NEW s \in Slots
  PROVE  Distance(c, s) = IF c <= s THEN s - c ELSE s - c + N
<1>1. N \in Nat \ {0} /\ c \in 0..(N - 1) /\ s \in 0..(N - 1)
  BY PoolAssumption DEF Slots
<1> QED
  BY <1>1 DEF Distance

\* The cursor after a selection, without the remainder.
LEMMA CursorIs ==
  ASSUME NEW s \in Slots
  PROVE  /\ CursorAfter(s) = IF s = N - 1 THEN 0 ELSE s + 1
         /\ CursorAfter(s) \in Slots
<1>1. N \in Nat \ {0} /\ s \in 0..(N - 1)
  BY PoolAssumption DEF Slots
<1>2. CASE s = N - 1
  BY <1>1, <1>2 DEF CursorAfter, Slots
<1>3. CASE s # N - 1
  BY <1>1, <1>3 DEF CursorAfter, Slots
<1> QED
  BY <1>2, <1>3

\* A nonempty set of slots has one that the rotation reaches first.
LEMMA NearestExists ==
  ASSUME NEW c \in Slots, NEW S, S \subseteq Slots, S # {}
  PROVE  \E s \in S : \A t \in S : Distance(c, s) <= Distance(c, t)
<1> DEFINE D == {Distance(c, s) : s \in S}
           R == OpToRel(<, Nat)
<1>1. \A s \in S : Distance(c, s) \in Nat
  BY DistanceIs, PoolAssumption DEF Slots
<1>2. D \subseteq Nat /\ D # {}
  BY <1>1
<1>3. IsWellFoundedOn(R, Nat)
  BY NatLessThanWellFounded
<1>4. \A x, y \in Nat : <<y, x>> \notin R => x <= y
  BY DEF OpToRel
<1>5. \E x \in D : \A y \in D : <<y, x>> \notin R
  <2> HIDE DEF D, R
  <2> QED
    BY <1>2, <1>3, WFMin
<1>6. PICK x \in D : \A y \in D : <<y, x>> \notin R
  BY <1>5
<1> HIDE DEF R
<1> QED
  BY <1>1, <1>2, <1>4, <1>6

\* A least loaded healthy backend that is passed over is nearer afterwards.
LEMMA RotationAdvances ==
  ASSUME NEW c \in Slots, NEW s \in Slots, NEW t \in Slots, s # t,
         Distance(c, s) <= Distance(c, t)
  PROVE  Distance(CursorAfter(s), t) < Distance(c, t)
<1>1. N \in Nat \ {0} /\ c \in 0..(N - 1) /\ s \in 0..(N - 1) /\ t \in 0..(N - 1)
  BY PoolAssumption DEF Slots
<1>2. /\ Distance(c, s) = IF c <= s THEN s - c ELSE s - c + N
      /\ Distance(c, t) = IF c <= t THEN t - c ELSE t - c + N
  BY DistanceIs
<1>3. PICK e \in Slots : e = CursorAfter(s) /\ e = IF s = N - 1 THEN 0 ELSE s + 1
  BY CursorIs
<1>4. Distance(e, t) = IF e <= t THEN t - e ELSE t - e + N
  BY DistanceIs
<1>5. e \in 0..(N - 1)
  BY DEF Slots
<1> QED
  BY <1>1, <1>2, <1>3, <1>4, <1>5

\* _select takes a candidate, the one that the rotation reaches first.
LEMMA SelectedIs ==
  ASSUME cursor \in Slots, Candidates # {}
  PROVE  /\ Selected \in Candidates
         /\ Selected \in Slots
         /\ \A t \in Candidates : Distance(cursor, Selected) <= Distance(cursor, t)
<1>1. Candidates \subseteq Slots
  BY DEF Candidates
<1>2. \E s \in Candidates : \A t \in Candidates : Distance(cursor, s) <= Distance(cursor, t)
  BY <1>1, NearestExists
<1> QED
  BY <1>1, <1>2 DEF Selected

-----------------------------------------------------------------------------
(***************************************************************************)
(* What the operations share.                                              *)
(***************************************************************************)
\* gateway_backend_healthy, as the provers handle it.
Shown(s) == gauge[s].healthy

\* _notify_observer publishes the state that the step leaves.
LEMMA PublishFacts ==
  ASSUME Publish, inflight' \in [Slots -> Nat], closed' \in BOOLEAN
  PROVE  /\ gauge' \in [Slots -> [healthy : BOOLEAN, inflight : Nat]]
         /\ GaugesMirrorState'
         /\ closed' => \A s \in Slots : ~Shown(s)'
<1>1. gauge' = [s \in Slots |-> [healthy |-> healthy'[s] = "yes" /\ ~closed',
                                 inflight |-> inflight'[s]]]
  BY DEF Publish, BackendStateChanged
<1>2. ASSUME NEW s \in Slots
      PROVE  /\ gauge'[s] \in [healthy : BOOLEAN, inflight : Nat]
             /\ gauge'[s].inflight = inflight'[s]
             /\ gauge'[s].healthy <=> (healthy'[s] = "yes" /\ ~closed')
  BY <1>1, <1>2
<1>3. gauge' \in [Slots -> [healthy : BOOLEAN, inflight : Nat]]
  BY <1>1
<1> QED
  BY <1>2, <1>3 DEF GaugesMirrorState, Shown

\* _release gives back the weights of the leases that are not released, and
\* of no other: the count of a backend is still that of its requests.
LEMMA ReleaseFacts ==
  ASSUME TypeOK, Work, NEW os, os \subseteq Ops, Release(os), slot' = slot
  PROVE  /\ active' = active \ os
         /\ inflight' \in [Slots -> Nat]
         /\ \A s \in Slots : inflight'[s] = Cardinality(Requests(active, s)')
         /\ os \cap active = {} => inflight' = inflight
<1>1. active \subseteq Ops /\ inflight \in [Slots -> Nat]
  BY DEF TypeOK
<1>2. /\ active' = active \ os
      /\ active' = active \ Due(os)
      /\ Due(os) \subseteq active
  BY DEF Release, Due
<1>3. inflight' = [s \in Slots |-> inflight[s] - Cardinality(On(Due(os), slot, s))]
  BY RequestsAre DEF Release
<1>4. ASSUME NEW s \in Slots
      PROVE  /\ inflight'[s] \in Nat
             /\ inflight'[s] = Cardinality(Requests(active, s)')
  <2>1. inflight[s] = Cardinality(On(active, slot, s))
    BY RequestsAre DEF Work
  <2>2. Cardinality(On(active \ Due(os), slot, s))
          = Cardinality(On(active, slot, s)) - Cardinality(On(Due(os), slot, s))
    BY <1>1, <1>2, OnRemove
  <2>3. Cardinality(On(active \ Due(os), slot, s)) \in Nat
    BY <1>1, OnFinite
  <2>4. inflight'[s] = Cardinality(On(active', slot', s))
    BY <1>2, <1>3, <2>1, <2>2
  <2> QED
    BY <1>2, <2>3, <2>4, RequestsAre
<1>5. inflight' \in [Slots -> Nat]
  BY <1>3, <1>4
<1>6. ASSUME os \cap active = {}
      PROVE  inflight' = inflight
  <2>1. Due(os) = {}
    BY <1>6 DEF Due
  <2>2. \A s \in Slots : inflight[s] - Cardinality(On(Due(os), slot, s)) = inflight[s]
    BY <1>1, <2>1, OnNobody
  <2> QED
    BY <1>1, <1>3, <2>2
<1> QED
  BY <1>2, <1>4, <1>5, <1>6

\* A step that ends no call of close and registers or selects nothing once
\* the pool is closed keeps what close relies on.
LEMMA Frames ==
  ASSUME IInv, UNCHANGED <<closed, closer, snapLeases, snapStreams, toClose, leafCloses>>
  PROVE  /\ Exclusion'
         /\ (closed => active' \subseteq active /\ streams' \subseteq streams) => Snapshot'
         /\ /\ \A o \in Ops : op[o] = "ended" => op'[o] = "ended"
            /\ closed /\ loop \in {"none", "ended"} => loop' \in {"none", "ended"}
            => Stages'
         /\ /\ closed => active' \subseteq active /\ streams' \subseteq streams
            /\ closed /\ loop \in {"none", "ended"} => loop' \in {"none", "ended"}
            /\ closed => \A s \in Slots : ~Shown(s) => ~Shown(s)'
            => Done'
<1>1. Exclusion'
  BY DEF IInv, Exclusion
<1>2. ASSUME closed => active' \subseteq active /\ streams' \subseteq streams
      PROVE  Snapshot'
  BY <1>2 DEF IInv, Snapshot
<1>3. ASSUME \A o \in Ops : op[o] = "ended" => op'[o] = "ended",
             closed /\ loop \in {"none", "ended"} => loop' \in {"none", "ended"}
      PROVE  Stages'
  <2>1. snapStreams \subseteq Ops
    BY DEF IInv, TypeOK
  <2>2. \A c \in Closers : closer[c] \in CloseStages => closed
    BY DEF IInv, Exclusion
  <2> QED
    BY <1>3, <2>1, <2>2 DEF IInv, Stages, Untouched, ClosedOnce, CloseStages
<1>4. ASSUME closed => active' \subseteq active /\ streams' \subseteq streams,
             closed /\ loop \in {"none", "ended"} => loop' \in {"none", "ended"},
             closed => \A s \in Slots : ~Shown(s) => ~Shown(s)'
      PROVE  Done'
  BY <1>4 DEF IInv, Done, Nothing, ClosedOnce, Shown
<1> QED
  BY <1>1, <1>2, <1>3, <1>4

\* Until the pool is closed, an unfinished operation has its lease.
LEMMA OpenPool ==
  ASSUME IInv, ~closed, NEW o \in Ops, o \in Unfinished
  PROVE  o \in active
<1>1. 0 \in Slots
  BY PoolAssumption DEF Slots
<1>2. leafCloses[0] = 0
  BY <1>1 DEF IInv, Stages, Untouched
<1>3. ~ClosedOnce({})
  BY <1>1, <1>2 DEF ClosedOnce
<1> QED
  BY <1>3 DEF IInv, Work

\* A step that publishes, unless it leaves counts and health alone, keeps the
\* gauges true, and shows no backend of a closed pool healthy again.
LEMMA NotifyFacts ==
  ASSUME IInv, NEW changed \in BOOLEAN, NotifyIf(changed), closed' = closed,
         inflight' \in [Slots -> Nat],
         ~changed => inflight' = inflight /\ healthy' = healthy
  PROVE  /\ gauge' \in [Slots -> [healthy : BOOLEAN, inflight : Nat]]
         /\ GaugesMirrorState'
         /\ closed => \A s \in Slots : ~Shown(s) => ~Shown(s)'
<1>1. CASE changed
  <2>1. Publish
    BY <1>1 DEF NotifyIf
  <2>2. closed' \in BOOLEAN
    BY DEF IInv, TypeOK
  <2> QED
    BY <2>1, <2>2, PublishFacts
<1>2. CASE ~changed
  <2>1. gauge' = gauge /\ inflight' = inflight /\ healthy' = healthy
    BY <1>2 DEF NotifyIf
  <2>2. gauge \in [Slots -> [healthy : BOOLEAN, inflight : Nat]] /\ GaugesMirrorState
    BY DEF IInv, TypeOK
  <2>3. GaugesMirrorState'
    BY <2>1, <2>2 DEF GaugesMirrorState
  <2> QED
    BY <2>1, <2>2, <2>3 DEF Shown
<1> QED
  BY <1>1, <1>2

\* _mark_unhealthy, when it is called, changes nothing in a closed pool.
LEMMA HealthFacts ==
  ASSUME TypeOK, NEW s \in Slots, NEW value \in {"yes", "no"},
         UNCHANGED healthy \/ SetHealth(s, value)
  PROVE  /\ healthy' \in [Slots -> {"none", "yes", "no"}]
         /\ closed => healthy' = healthy
BY DEF TypeOK, SetHealth

\* A step of one operation concerns no other.
LEMMA OthersKeep ==
  ASSUME \A a \in Ops : Operation(a), NEW o \in Ops, Operation(o)',
         op \in [Ops -> OpStates], op' \in [Ops -> OpStates],
         \A a \in Ops \ {o} : /\ op'[a] = op[a] /\ slot'[a] = slot[a]
                              /\ observed'[a] = observed[a]
                              /\ a \in active' => a \in active
                              /\ a \in streams' <=> a \in streams
  PROVE  (\A a \in Ops : Operation(a))'
<1>1. ASSUME NEW a \in Ops \ {o}
      PROVE  Operation(a)'
  <2>1. Operation(a)
    OBVIOUS
  <2> QED
    BY <2>1 DEF Operation, Unfinished
<1> QED
  BY <1>1

-----------------------------------------------------------------------------
(***************************************************************************)
(* The steps of an operation.                                              *)
(***************************************************************************)
\* _select: the new lease is counted on the slot it was given.
LEMMA SelectKeeps ==
  ASSUME IInv, NEW o \in Ops, Select(o)
  PROVE  IInv'
<1> USE DEF closing, probes
<1>1. TypeOK /\ Operation(o) /\ Work
  BY DEF IInv
<1>2. op[o] = "idle" /\ ~closed /\ o \notin active /\ o \notin streams
  <2>1. op[o] = "idle" /\ ~closed
    BY DEF Select
  <2> QED
    BY <1>1, <2>1 DEF Operation, Unfinished, Finishing, Registered
<1>3. PICK s \in Slots : s = Selected
  BY <1>1, SelectedIs DEF Select, TypeOK
<1>4. /\ slot' = [slot EXCEPT ![o] = s]
      /\ inflight' = [inflight EXCEPT ![s] = @ + Weight[o]]
      /\ cursor' = CursorAfter(s)
      /\ active' = active \cup {o}
      /\ op' = [op EXCEPT ![o] = "running"]
      /\ UNCHANGED <<up, flips, healthy, streams, outcome, observed, probes, closing>>
      /\ Publish
  BY <1>3 DEF Select
<1>5. Weight[o] \in Nat
  BY WeightOf
<1>6. inflight' \in [Slots -> Nat] /\ cursor' \in Slots
  BY <1>1, <1>4, <1>5, CursorIs DEF TypeOK
<1>7. /\ gauge' \in [Slots -> [healthy : BOOLEAN, inflight : Nat]]
      /\ GaugesMirrorState'
  <2>1. closed' \in BOOLEAN
    BY <1>1, <1>4 DEF TypeOK
  <2> QED
    BY <1>4, <1>6, <2>1, PublishFacts
<1>8. TypeOK'
  BY <1>1, <1>4, <1>6, <1>7 DEF TypeOK, OpStates
<1>9. (\A a \in Ops : Operation(a))'
  <2>1. op \in [Ops -> OpStates] /\ op' \in [Ops -> OpStates] /\ slot \in [Ops -> Slots \cup {NoSlot}]
    BY <1>1, <1>8 DEF TypeOK
  <2>2. op'[o] = "running" /\ slot'[o] = s
    BY <1>4, <2>1
  <2>3. Operation(o)'
    BY <1>1, <1>2, <1>4, <2>2 DEF Operation, Unfinished, Registered
  <2>4. \A a \in Ops : Operation(a)
    BY DEF IInv
  <2> QED
    BY <1>4, <2>1, <2>3, <2>4, OthersKeep
<1>10. Work'
  <2>1. active \subseteq Ops /\ slot \in [Ops -> Slots \cup {NoSlot}]
    BY <1>1 DEF TypeOK
  <2>2. slot'[o] = s /\ \A a \in active : slot'[a] = slot[a]
    BY <1>2, <1>4, <2>1
  <2>3. ASSUME NEW t \in Slots
        PROVE  inflight'[t] = Cardinality(Requests(active, t)')
    <3>1. inflight[t] = Cardinality(On(active, slot, t))
      BY <1>1, RequestsAre DEF Work
    <3>2. Cardinality(On(active \cup {o}, slot', t))
            = Cardinality(On(active, slot, t)) + (IF slot'[o] = t THEN Weight[o] ELSE 0)
      BY <1>2, <2>1, <2>2, OnAdd
    <3>3. inflight'[t] = inflight[t] + (IF s = t THEN Weight[o] ELSE 0)
      BY <1>1, <1>4, <1>5 DEF TypeOK
    <3> QED
      BY <1>4, <2>2, <3>1, <3>2, <3>3, RequestsAre
  <2>4. Unfinished \subseteq active => Unfinished' \subseteq active'
    BY <1>1, <1>4 DEF Unfinished, TypeOK
  <2> QED
    BY <1>1, <1>4, <2>3, <2>4 DEF Work, ClosedOnce
<1>11. Exclusion' /\ Snapshot' /\ Stages' /\ Done'
  BY <1>1, <1>2, <1>4, Frames DEF TypeOK
<1> QED
  BY <1>7, <1>8, <1>9, <1>10, <1>11 DEF IInv

\* NoHealthyBackendError: nothing was assigned.
LEMMA RefuseKeeps ==
  ASSUME IInv, NEW o \in Ops, Refuse(o)
  PROVE  IInv'
<1> USE DEF closing, probes, slots
<1>1. TypeOK /\ Operation(o) /\ Work
  BY DEF IInv
<1>2. /\ op[o] = "idle"
      /\ op' = [op EXCEPT ![o] = "refused"]
      /\ UNCHANGED <<up, flips, slots, slot, active, streams, outcome, observed, probes, closing>>
  BY DEF Refuse
<1>3. TypeOK'
  BY <1>1, <1>2 DEF TypeOK, OpStates
<1>4. (\A a \in Ops : Operation(a))'
  <2>1. op \in [Ops -> OpStates] /\ op' \in [Ops -> OpStates] /\ op'[o] = "refused"
    BY <1>1, <1>2, <1>3 DEF TypeOK
  <2>2. Operation(o)'
    BY <1>1, <1>2, <2>1 DEF Operation, Unfinished, Registered, Finishing
  <2>3. \A a \in Ops : Operation(a)
    BY DEF IInv
  <2> QED
    BY <1>2, <2>1, <2>2, <2>3, OthersKeep
<1>5. Work'
  <2>1. \A s : Requests(active, s)' = Requests(active, s)
    BY <1>2, RequestsAre
  <2>2. Unfinished' \subseteq Unfinished
    BY <1>1, <1>2 DEF Unfinished, TypeOK, Finishing
  <2> QED
    BY <1>1, <1>2, <2>1, <2>2 DEF Work, ClosedOnce
<1>6. Exclusion' /\ Snapshot' /\ Stages' /\ Done'
  BY <1>1, <1>2, Frames DEF TypeOK, Shown
<1>7. GaugesMirrorState'
  BY <1>2 DEF IInv, GaugesMirrorState
<1> QED
  BY <1>3, <1>4, <1>5, <1>6, <1>7 DEF IInv

\* The operations of a set end: they are observed, their leases are released
\* and their streams are no longer registered.
LEMMA FinishFacts ==
  ASSUME IInv, NEW os, os \subseteq Unfinished, FinishStreams(os), slot' = slot
  PROVE  /\ active' = active \ os /\ streams' = streams \ os
         /\ op' \in [Ops -> OpStates] /\ observed' \in [Ops -> Nat]
         /\ \A o \in Ops : op'[o] = IF o \in os THEN "ended" ELSE op[o]
         /\ (\A o \in Ops : Operation(o))'
         /\ inflight' \in [Slots -> Nat]
         /\ \A s \in Slots : inflight'[s] = Cardinality(Requests(active, s)')
         /\ os \cap active = {} => inflight' = inflight
         /\ Unfinished' = Unfinished \ os
<1>1. TypeOK /\ Work /\ os \subseteq Ops
  BY DEF IInv, Unfinished
<1>2. Release(os) /\ streams' = streams \ os
  BY DEF FinishStreams
<1>3. /\ active' = active \ os
      /\ inflight' \in [Slots -> Nat]
      /\ \A s \in Slots : inflight'[s] = Cardinality(Requests(active, s)')
      /\ os \cap active = {} => inflight' = inflight
  BY <1>1, <1>2, ReleaseFacts
<1>4. /\ op' \in [Ops -> OpStates]
      /\ \A o \in Ops : op'[o] = IF o \in os THEN "ended" ELSE op[o]
  BY <1>1 DEF FinishStreams, TypeOK, OpStates
<1>5. /\ observed' \in [Ops -> Nat]
      /\ \A o \in Ops : observed'[o] = IF o \in os THEN observed[o] + 1 ELSE observed[o]
  BY <1>1 DEF FinishStreams, Observe, BackendOperationObserved, TypeOK
<1>6. ASSUME NEW o \in Ops
      PROVE  Operation(o)'
  <2>1. Operation(o) /\ observed[o] \in Nat
    BY <1>1 DEF IInv, TypeOK
  <2>2. CASE o \in os
    <3>1. op[o] \notin {"idle", "refused", "ended"}
      BY <2>2 DEF Unfinished, Finishing
    <3>2. observed[o] = 0 /\ slot[o] \in Slots
      BY <2>1, <3>1 DEF Operation
    <3>3. op'[o] = "ended" /\ o \notin active' /\ o \notin streams'
      BY <1>2, <1>3, <1>4, <2>2
    <3>4. observed'[o] = 1
      BY <1>5, <2>2, <3>2
    <3> QED
      BY <3>2, <3>3, <3>4 DEF Operation, Registered
  <2>3. CASE o \notin os
    <3>1. /\ op'[o] = op[o] /\ observed'[o] = observed[o]
          /\ o \in active' <=> o \in active
          /\ o \in streams' <=> o \in streams
      BY <1>2, <1>3, <1>4, <1>5, <2>3
    <3> QED
      BY <2>1, <3>1 DEF Operation, Unfinished
  <2> QED
    BY <2>2, <2>3
<1>7. Unfinished' = Unfinished \ os
  BY <1>4 DEF Unfinished, Finishing
<1> QED
  BY <1>2, <1>3, <1>4, <1>5, <1>6, <1>7

\* An operation ends, by itself or by the _finish of its stream.
LEMMA EndKeeps ==
  ASSUME IInv, NEW o \in Ops, o \in Unfinished, FinishStreams({o}),
         healthy' \in [Slots -> {"none", "yes", "no"}], closed => healthy' = healthy,
         outcome' \in [Ops -> Outcomes \cup {"none"}],
         UNCHANGED <<up, flips, cursor, slot, probes, closing>>, NotifyIf(o \in active)
  PROVE  IInv'
<1> USE DEF closing, probes
<1>1. TypeOK /\ Work
  BY DEF IInv
<1>2. /\ active' = active \ {o} /\ streams' = streams \ {o}
      /\ op' \in [Ops -> OpStates] /\ observed' \in [Ops -> Nat]
      /\ \A a \in Ops : op'[a] = IF a \in {o} THEN "ended" ELSE op[a]
      /\ (\A a \in Ops : Operation(a))'
      /\ inflight' \in [Slots -> Nat]
      /\ \A s \in Slots : inflight'[s] = Cardinality(Requests(active, s)')
      /\ {o} \cap active = {} => inflight' = inflight
      /\ Unfinished' = Unfinished \ {o}
  <2>1. {o} \subseteq Unfinished /\ slot' = slot
    OBVIOUS
  <2> QED
    BY <2>1, FinishFacts
<1>3. o \notin active => inflight' = inflight /\ healthy' = healthy
  BY <1>2, OpenPool
<1>4. /\ gauge' \in [Slots -> [healthy : BOOLEAN, inflight : Nat]]
      /\ GaugesMirrorState'
      /\ closed => \A s \in Slots : ~Shown(s) => ~Shown(s)'
  <2>1. PICK changed \in BOOLEAN : changed <=> o \in active
    OBVIOUS
  <2>2. NotifyIf(changed)
    BY <2>1 DEF NotifyIf
  <2> QED
    BY <1>2, <1>3, <2>1, <2>2, NotifyFacts
<1>5. TypeOK'
  BY <1>1, <1>2, <1>4 DEF TypeOK
<1>6. Work'
  BY <1>1, <1>2 DEF Work, ClosedOnce
<1>7. Exclusion' /\ Snapshot' /\ Stages' /\ Done'
  <2>1. \A a \in Ops : op[a] = "ended" => op'[a] = "ended"
    BY <1>2
  <2> QED
    BY <1>2, <1>4, <2>1, Frames
<1> QED
  BY <1>2, <1>4, <1>5, <1>6, <1>7 DEF IInv

\* The leaf call of an operation ends.
LEMMA LeafEndsKeeps ==
  ASSUME IInv, NEW o \in Ops, NEW result \in Outcomes, LeafEnds(o, result)
  PROVE  IInv'
<1>1. TypeOK /\ Operation(o)
  BY DEF IInv
<1>2. o \in Unfinished /\ o \notin streams /\ slot[o] \in Slots
  BY <1>1 DEF LeafEnds, Unfinished, Operation, Registered
<1>3. FinishStreams({o})
  <2>1. op' = [a \in Ops |-> IF a \in {o} THEN "ended" ELSE op[a]]
    BY <1>1 DEF LeafEnds, TypeOK
  <2>2. streams' = streams \ {o}
    BY <1>2 DEF LeafEnds
  <2> QED
    BY <2>1, <2>2 DEF LeafEnds, FinishStreams
<1>4. /\ healthy' \in [Slots -> {"none", "yes", "no"}]
      /\ closed => healthy' = healthy
  <2>1. UNCHANGED healthy \/ SetHealth(slot[o], "no")
    BY DEF LeafEnds
  <2> QED
    BY <1>1, <1>2, <2>1, HealthFacts
<1>5. outcome' \in [Ops -> Outcomes \cup {"none"}]
  BY <1>1 DEF LeafEnds, TypeOK
<1>6. UNCHANGED <<up, flips, cursor, slot, probes, closing>> /\ NotifyIf(o \in active)
  BY DEF LeafEnds
<1> QED
  BY <1>2, <1>3, <1>4, <1>5, <1>6, EndKeeps

\* The leaf stream of an operation that is being finished is closed.
LEMMA LeafStreamClosesKeeps ==
  ASSUME IInv, NEW o \in Ops, LeafStreamCloses(o)
  PROVE  IInv'
<1>1. TypeOK
  BY DEF IInv
<1>2. o \in Unfinished /\ FinishStreams({o})
  BY DEF LeafStreamCloses, Unfinished
<1>3. healthy' \in [Slots -> {"none", "yes", "no"}] /\ healthy' = healthy
  BY <1>1 DEF LeafStreamCloses, TypeOK
<1>4. outcome' \in [Ops -> Outcomes \cup {"none"}]
  BY <1>1 DEF LeafStreamCloses, TypeOK, Outcomes
<1>5. UNCHANGED <<up, flips, cursor, slot, probes, closing>> /\ NotifyIf(o \in active)
  BY DEF LeafStreamCloses
<1> QED
  BY <1>2, <1>3, <1>4, <1>5, EndKeeps

\* An operation moves on without ending: its lease stays.
LEMMA MoveKeeps ==
  ASSUME IInv, NEW o \in Ops, NEW state \in {"open"} \cup Finishing,
         op[o] \in {"running", "open"}, op' = [op EXCEPT ![o] = state],
         streams' \subseteq Ops, o \in streams' <=> state \in Registered,
         \A a \in Ops \ {o} : a \in streams' <=> a \in streams,
         closed => streams' \subseteq streams,
         healthy' \in [Slots -> {"none", "yes", "no"}],
         outcome' \in [Ops -> Outcomes \cup {"none"}],
         UNCHANGED <<up, flips, inflight, cursor, slot, active, observed, probes, closing>>,
         NEW changed \in BOOLEAN, NotifyIf(changed), ~changed => healthy' = healthy
  PROVE  IInv'
<1> USE DEF closing, probes
<1>1. TypeOK /\ Operation(o) /\ Work
  BY DEF IInv
<1>2. /\ gauge' \in [Slots -> [healthy : BOOLEAN, inflight : Nat]]
      /\ GaugesMirrorState'
      /\ closed => \A s \in Slots : ~Shown(s) => ~Shown(s)'
  <2>1. inflight' \in [Slots -> Nat]
    BY <1>1 DEF TypeOK
  <2> QED
    BY <2>1, NotifyFacts
<1>3. TypeOK'
  BY <1>1, <1>2 DEF TypeOK, OpStates
<1>4. op'[o] = state /\ \A a \in Ops \ {o} : op'[a] = op[a]
  BY <1>1 DEF TypeOK
<1>5. o \in Unfinished /\ o \in Unfinished' /\ Unfinished' = Unfinished
  BY <1>1, <1>4 DEF Unfinished, TypeOK, Finishing
<1>6. (\A a \in Ops : Operation(a))'
  <2>1. op \in [Ops -> OpStates] /\ op' \in [Ops -> OpStates]
    BY <1>1, <1>3 DEF TypeOK
  <2>2. Operation(o)'
    <3>1. slot[o] \in Slots /\ observed[o] = 0
      BY <1>1 DEF Operation
    <3>2. state # "ended"
      BY DEF Finishing
    <3> QED
      BY <1>4, <1>5, <3>1, <3>2 DEF Operation
  <2>3. \A a \in Ops : Operation(a)
    BY DEF IInv
  <2> QED
    BY <1>4, <2>1, <2>2, <2>3, OthersKeep
<1>7. Work'
  <2>1. \A s : Requests(active, s)' = Requests(active, s)
    BY RequestsAre
  <2> QED
    BY <1>1, <1>5, <2>1 DEF Work, ClosedOnce
<1>8. Exclusion' /\ Snapshot' /\ Stages' /\ Done'
  <2>1. \A a \in Ops : op[a] = "ended" => op'[a] = "ended"
    BY <1>4
  <2> QED
    BY <1>2, <2>1, Frames
<1> QED
  BY <1>2, <1>3, <1>6, <1>7, <1>8 DEF IInv

\* stream registers the stream it opened, or finishes it in a closed pool.
LEMMA StreamOpensKeeps ==
  ASSUME IInv, NEW o \in Ops, StreamOpens(o)
  PROVE  IInv'
<1> USE DEF slots
<1>1. TypeOK /\ Operation(o)
  BY DEF IInv
<1>2. /\ op[o] = "running" /\ o \notin streams
      /\ UNCHANGED <<up, flips, slots, slot, active, observed, probes, closing>>
  BY <1>1 DEF StreamOpens, Operation, Registered
<1>3. healthy' \in [Slots -> {"none", "yes", "no"}] /\ NotifyIf(FALSE)
  BY <1>1, <1>2 DEF TypeOK, NotifyIf
<1>4. CASE Registers
  <2>1. /\ op' = [op EXCEPT ![o] = "open"]
        /\ streams' = streams \cup {o} /\ outcome' = outcome /\ ~closed
    BY <1>4 DEF StreamOpens, Registers
  <2>2. streams' \subseteq Ops /\ outcome' \in [Ops -> Outcomes \cup {"none"}]
    BY <1>1, <2>1 DEF TypeOK
  <2> QED
    BY <1>2, <1>3, <2>1, <2>2, MoveKeeps DEF Registered
<1>5. CASE ~Registers
  <2>1. /\ op' = [op EXCEPT ![o] = "by opener"]
        /\ streams' = streams /\ outcome' = [outcome EXCEPT ![o] = "error"]
    BY <1>5 DEF StreamOpens
  <2>2. streams' \subseteq Ops /\ outcome' \in [Ops -> Outcomes \cup {"none"}]
    BY <1>1, <2>1 DEF TypeOK, Outcomes
  <2>3. "by opener" \in Finishing /\ "by opener" \notin Registered
    BY DEF Finishing, Registered
  <2> QED
    BY <1>2, <1>3, <2>1, <2>2, <2>3, MoveKeeps
<1> QED
  BY <1>4, <1>5

\* The consumer of a stream begins to finish it.
LEMMA ConsumerFinishesKeeps ==
  ASSUME IInv, NEW o \in Ops, NEW result \in Outcomes, ConsumerFinishes(o, result)
  PROVE  IInv'
<1>1. TypeOK /\ Operation(o)
  BY DEF IInv
<1>2. /\ op[o] = "open" /\ op' = [op EXCEPT ![o] = "by consumer"]
      /\ outcome' = [outcome EXCEPT ![o] = result]
      /\ UNCHANGED <<up, flips, inflight, cursor, slot, active, streams, observed, probes, closing>>
      /\ NotifyIf(~closed)
      /\ UNCHANGED healthy \/ SetHealth(slot[o], "no")
  BY DEF ConsumerFinishes, NotFinished
<1>3. o \in streams /\ slot[o] \in Slots
  BY <1>1, <1>2 DEF Operation, Registered
<1>4. /\ healthy' \in [Slots -> {"none", "yes", "no"}]
      /\ closed => healthy' = healthy
  BY <1>1, <1>2, <1>3, HealthFacts
<1>5. streams' \subseteq Ops /\ outcome' \in [Ops -> Outcomes \cup {"none"}]
  BY <1>1, <1>2 DEF TypeOK
<1>6. PICK changed \in BOOLEAN : changed <=> ~closed
  OBVIOUS
<1>7. NotifyIf(changed)
  BY <1>2, <1>6 DEF NotifyIf
<1>8. "by consumer" \in Finishing /\ "by consumer" \in Registered
  BY DEF Finishing, Registered
<1> QED
  BY <1>2, <1>3, <1>4, <1>5, <1>6, <1>7, <1>8, MoveKeeps

\* close begins to finish a stream of its snapshot.
LEMMA CloseStreamKeeps ==
  ASSUME IInv, NEW c \in Closers, NEW o \in Ops, CloseStream(c, o)
  PROVE  IInv'
<1> USE DEF slots
<1>1. TypeOK /\ Operation(o)
  BY DEF IInv
<1>2. /\ op[o] = "open" /\ op' = [op EXCEPT ![o] = "by close"]
      /\ outcome' = [outcome EXCEPT ![o] = "cancelled"]
      /\ UNCHANGED <<up, flips, slots, slot, active, streams, observed, probes, closing>>
  BY DEF CloseStream, NotFinished
<1>3. o \in streams
  BY <1>1, <1>2 DEF Operation, Registered
<1>4. healthy' \in [Slots -> {"none", "yes", "no"}] /\ NotifyIf(FALSE)
  BY <1>1, <1>2 DEF TypeOK, NotifyIf
<1>5. streams' \subseteq Ops /\ outcome' \in [Ops -> Outcomes \cup {"none"}]
  BY <1>1, <1>2 DEF TypeOK, Outcomes
<1>6. "by close" \in Finishing /\ "by close" \in Registered
  BY DEF Finishing, Registered
<1> QED
  BY <1>2, <1>3, <1>4, <1>5, <1>6, MoveKeeps

-----------------------------------------------------------------------------
(***************************************************************************)
(* The health probes, and the backends themselves.                         *)
(***************************************************************************)
\* A step of a probe changes no assignment, and starts no loop in a closed
\* pool.
LEMMA ProbingKeeps ==
  ASSUME IInv, UNCHANGED <<inflight, cursor, operations, closing>>,
         up' \in [Slots -> BOOLEAN], flips' \in 0..MaxFlips,
         start' \in {"idle", "probing", "done"},
         loop' \in {"none", "sleeping", "probing", "ended"},
         probe' \in [Slots -> {"none", "asked", "yes", "no"}],
         closed /\ loop \in {"none", "ended"} => loop' \in {"none", "ended"},
         healthy' \in [Slots -> {"none", "yes", "no"}],
         NEW changed \in BOOLEAN, NotifyIf(changed), ~changed => healthy' = healthy
  PROVE  IInv'
<1> USE DEF closing, operations
<1>1. TypeOK /\ Work
  BY DEF IInv
<1>2. /\ gauge' \in [Slots -> [healthy : BOOLEAN, inflight : Nat]]
      /\ GaugesMirrorState'
      /\ closed => \A s \in Slots : ~Shown(s) => ~Shown(s)'
  <2>1. inflight' \in [Slots -> Nat]
    BY <1>1 DEF TypeOK
  <2> QED
    BY <2>1, NotifyFacts
<1>3. TypeOK'
  BY <1>1, <1>2 DEF TypeOK
<1>4. (\A a \in Ops : Operation(a))'
  BY DEF IInv, Operation, Unfinished
<1>5. Work'
  <2>1. (\A s : Requests(active, s)' = Requests(active, s)) /\ Unfinished' = Unfinished
    BY RequestsAre DEF Unfinished
  <2> QED
    BY <1>1, <2>1 DEF Work, ClosedOnce
<1>6. Exclusion' /\ Snapshot' /\ Stages' /\ Done'
  BY <1>2, Frames
<1> QED
  BY <1>2, <1>3, <1>4, <1>5, <1>6 DEF IInv

\* start, the probe loop and the probes.
LEMMA ProbeStepKeeps ==
  ASSUME IInv, ProbeStep \/ StartPool \/ StartCancelled
  PROVE  IInv'
<1> USE DEF probes
<1>1. TypeOK
  BY DEF IInv
<1>2. NoProbe \in [Slots -> {"none", "asked", "yes", "no"}]
  BY DEF NoProbe
<1>3. CASE \/ StartEnds \/ LoopProbes \/ LoopSleeps \/ LoopCancelled
           \/ StartPool \/ StartCancelled
  <2>1. UNCHANGED <<up, flips, slots, operations, closing>>
    BY <1>3 DEF StartEnds, LoopProbes, LoopSleeps, LoopCancelled, StartPool, StartCancelled
  <2>2. UNCHANGED <<inflight, cursor, operations, closing>> /\ healthy' = healthy /\ NotifyIf(FALSE)
    BY <2>1 DEF slots, NotifyIf
  <2>3. /\ up' \in [Slots -> BOOLEAN] /\ flips' \in 0..MaxFlips
        /\ healthy' \in [Slots -> {"none", "yes", "no"}]
    BY <1>1, <2>1, <2>2 DEF TypeOK
  <2>4. /\ start' \in {"idle", "probing", "done"}
        /\ loop' \in {"none", "sleeping", "probing", "ended"}
        /\ closed /\ loop \in {"none", "ended"} => loop' \in {"none", "ended"}
    BY <1>1, <1>3 DEF TypeOK, StartEnds, LoopProbes, LoopSleeps, LoopCancelled,
                      StartPool, StartCancelled
  <2>5. probe' \in [Slots -> {"none", "asked", "yes", "no"}]
    BY <1>1, <1>2, <1>3 DEF TypeOK, StartEnds, LoopProbes, LoopSleeps, LoopCancelled,
                            StartPool, StartCancelled, ProbeOnce
  <2> QED
    BY <2>2, <2>3, <2>4, <2>5, ProbingKeeps
<1>4. ASSUME NEW s \in Slots, ProbeAnswered(s)
      PROVE  IInv'
  <2>1. /\ UNCHANGED <<up, flips, start, loop>>
        /\ UNCHANGED <<inflight, cursor, operations, closing>>
        /\ healthy' = healthy /\ NotifyIf(FALSE)
    BY <1>4 DEF ProbeAnswered, slots, NotifyIf
  <2>2. /\ up' \in [Slots -> BOOLEAN] /\ flips' \in 0..MaxFlips
        /\ healthy' \in [Slots -> {"none", "yes", "no"}]
        /\ start' \in {"idle", "probing", "done"}
        /\ loop' \in {"none", "sleeping", "probing", "ended"}
    BY <1>1, <2>1 DEF TypeOK
  <2>3. probe' \in [Slots -> {"none", "asked", "yes", "no"}]
    BY <1>1, <1>4 DEF TypeOK, ProbeAnswered
  <2> QED
    BY <2>1, <2>2, <2>3, ProbingKeeps
<1>5. ASSUME NEW s \in Slots, ProbeDelivered(s)
      PROVE  IInv'
  <2>1. /\ UNCHANGED <<up, flips, start, loop>>
        /\ UNCHANGED <<inflight, cursor, operations, closing>>
        /\ probe[s] \in {"yes", "no"} /\ SetHealth(s, probe[s])
        /\ probe' = [probe EXCEPT ![s] = "none"] /\ NotifyIf(~closed)
    BY <1>5 DEF ProbeDelivered
  <2>2. /\ healthy' \in [Slots -> {"none", "yes", "no"}]
        /\ closed => healthy' = healthy
    BY <1>1, <2>1, HealthFacts
  <2>3. /\ up' \in [Slots -> BOOLEAN] /\ flips' \in 0..MaxFlips
        /\ start' \in {"idle", "probing", "done"}
        /\ loop' \in {"none", "sleeping", "probing", "ended"}
    BY <1>1, <2>1 DEF TypeOK
  <2>4. probe' \in [Slots -> {"none", "asked", "yes", "no"}]
    BY <1>1, <2>1 DEF TypeOK
  <2>5. PICK changed \in BOOLEAN : changed <=> ~closed
    OBVIOUS
  <2>6. NotifyIf(changed)
    BY <2>1, <2>5 DEF NotifyIf
  <2> QED
    BY <2>1, <2>2, <2>3, <2>4, <2>5, <2>6, ProbingKeeps
<1> QED
  BY <1>3, <1>4, <1>5 DEF ProbeStep

\* A backend fails or recovers.
LEMMA FlipKeeps ==
  ASSUME IInv, NEW s \in Slots, Flip(s)
  PROVE  IInv'
<1>1. TypeOK
  BY DEF IInv
<1>2. /\ UNCHANGED <<start, loop, probe>>
      /\ UNCHANGED <<inflight, cursor, operations, closing>>
      /\ healthy' = healthy /\ NotifyIf(FALSE)
  BY DEF Flip, slots, probes, NotifyIf
<1>3. /\ healthy' \in [Slots -> {"none", "yes", "no"}]
      /\ start' \in {"idle", "probing", "done"}
      /\ loop' \in {"none", "sleeping", "probing", "ended"}
      /\ probe' \in [Slots -> {"none", "asked", "yes", "no"}]
  BY <1>1, <1>2 DEF TypeOK
<1>4. up' \in [Slots -> BOOLEAN]
  <2>1. up \in [Slots -> BOOLEAN] /\ up' = [up EXCEPT ![s] = ~up[s]]
    BY <1>1 DEF Flip, TypeOK
  <2> QED
    BY <2>1
<1>5. flips' \in 0..MaxFlips
  BY <1>1, PoolAssumption DEF Flip, TypeOK
<1> QED
  BY <1>2, <1>3, <1>4, <1>5, ProbingKeeps

-----------------------------------------------------------------------------
(***************************************************************************)
(* The steps of close.                                                     *)
(***************************************************************************)
-----------------------------------------------------------------------------
(***************************************************************************)
(* The steps of close.                                                     *)
(***************************************************************************)
\* A step of close itself leaves the operations, their counts and the gauges.
LEMMA CallKeeps ==
  ASSUME IInv, UNCHANGED <<up, flips, slots, operations, probes>>,
         closer' \in [Closers -> {"idle", "lock", "returned", "cancelled"} \cup CloseStages],
         \A c \in Closers : closer[c] = "returned" => closer'[c] = "returned",
         closed' \in BOOLEAN, closed => closed',
         snapLeases' \subseteq Ops, snapStreams' \subseteq Ops,
         toClose' \subseteq Slots, leafCloses' \in [Slots -> Nat],
         ClosedOnce({}) => ClosedOnce({})'
  PROVE  /\ TypeOK'
         /\ (\A o \in Ops : Operation(o))'
         /\ Work'
         /\ GaugesMirrorState'
<1> USE DEF slots, operations, probes
<1>1. TypeOK /\ Work /\ GaugesMirrorState
  BY DEF IInv
<1>2. TypeOK'
  BY <1>1 DEF TypeOK
<1>3. (\A o \in Ops : Operation(o))'
  BY DEF IInv, Operation, Unfinished
<1>4. Work'
  <2>1. (\A s : Requests(active, s)' = Requests(active, s)) /\ Unfinished' = Unfinished
    BY RequestsAre DEF Unfinished
  <2> QED
    BY <1>1, <2>1 DEF Work
<1>5. GaugesMirrorState'
  BY <1>1 DEF GaugesMirrorState
<1> QED
  BY <1>2, <1>3, <1>4, <1>5

\* What the calls of close are, before and after one of them moves.
LEMMA CallerMoves ==
  ASSUME TypeOK, NEW c \in Closers, NEW stage,
         stage \in {"idle", "lock", "returned", "cancelled"} \cup CloseStages,
         closer' = [closer EXCEPT ![c] = stage], closer[c] # "returned"
  PROVE  /\ closer' \in [Closers -> {"idle", "lock", "returned", "cancelled"} \cup CloseStages]
         /\ closer'[c] = stage
         /\ \A d \in Closers \ {c} : closer'[d] = closer[d]
         /\ \A d \in Closers : closer[d] = "returned" => closer'[d] = "returned"
BY DEF TypeOK

\* A call of close that holds no lock yet asks for it, or gives up.
LEMMA OutsideKeeps ==
  ASSUME IInv, NEW c \in Closers, NEW stage \in {"lock", "cancelled"},
         closer[c] \in {"idle", "lock"}, closer' = [closer EXCEPT ![c] = stage],
         UNCHANGED <<up, flips, slots, operations, probes, closed, snapLeases,
                     snapStreams, toClose, leafCloses>>
  PROVE  IInv'
<1> USE DEF slots, operations, probes
<1>1. TypeOK
  BY DEF IInv
<1>2. closer[c] \notin CloseStages \cup {"returned", "cancelled"}
      /\ stage \notin CloseStages \cup {"returned"}
  BY DEF CloseStages
<1>3. /\ closer' \in [Closers -> {"idle", "lock", "returned", "cancelled"} \cup CloseStages]
      /\ closer'[c] = stage
      /\ \A d \in Closers \ {c} : closer'[d] = closer[d]
      /\ \A d \in Closers : closer[d] = "returned" => closer'[d] = "returned"
  BY <1>1, <1>2, CallerMoves
<1>4. TypeOK' /\ (\A o \in Ops : Operation(o))' /\ Work' /\ GaugesMirrorState'
  BY <1>1, <1>3, CallKeeps DEF TypeOK, ClosedOnce
<1>5. Exclusion'
  BY <1>2, <1>3 DEF IInv, Exclusion
<1>6. Snapshot'
  BY DEF IInv, Snapshot
<1>7. Stages'
  <2>1. \A d \in Closers : closer'[d] \in CloseStages => closer'[d] = closer[d]
    BY <1>2, <1>3
  <2> QED
    BY <2>1 DEF IInv, Stages, Untouched, ClosedOnce, CloseStages
<1>8. Done'
  <2>1. (\A d \in Closers : closer'[d] \notin CloseStages \cup {"cancelled"})
          => \A d \in Closers : closer[d] \notin CloseStages \cup {"cancelled"}
    BY <1>2, <1>3
  <2> QED
    BY <2>1 DEF IInv, Done, Nothing, ClosedOnce
<1> QED
  BY <1>4, <1>5, <1>6, <1>7, <1>8 DEF IInv

\* A call of close gets the lock: it closes the pool, or finds it closed and
\* returns, with nothing left behind unless a call was cancelled.
LEMMA CloseEnterKeeps ==
  ASSUME IInv, NEW c \in Closers, CloseEnter(c)
  PROVE  IInv'
<1> USE DEF slots, operations, probes
<1>1. TypeOK
  BY DEF IInv
<1>2. /\ closer[c] = "lock" /\ \A d \in Closers : closer[d] \notin CloseStages
      /\ UNCHANGED <<up, flips, slots, operations, probes, toClose, leafCloses>>
  BY DEF CloseEnter
<1>3. CASE closed
  <2>1. /\ closer' = [closer EXCEPT ![c] = "returned"]
        /\ UNCHANGED <<closed, snapLeases, snapStreams>>
    BY <1>3 DEF CloseEnter
  <2>2. /\ closer' \in [Closers -> {"idle", "lock", "returned", "cancelled"} \cup CloseStages]
        /\ closer'[c] = "returned"
        /\ \A d \in Closers \ {c} : closer'[d] = closer[d]
        /\ \A d \in Closers : closer[d] = "returned" => closer'[d] = "returned"
    BY <1>1, <1>2, <2>1, CallerMoves
  <2>3. TypeOK' /\ (\A o \in Ops : Operation(o))' /\ Work' /\ GaugesMirrorState'
    BY <1>1, <1>2, <2>1, <2>2, CallKeeps DEF TypeOK, ClosedOnce
  <2>4. \A d \in Closers : closer'[d] \notin CloseStages
    BY <1>2, <2>2 DEF CloseStages
  <2>5. Exclusion' /\ Snapshot'
    BY <1>2, <1>3, <2>1, <2>4 DEF IInv, Exclusion, Snapshot
  <2>6. Stages'
    BY <1>3, <2>1, <2>4 DEF Stages, CloseStages
  <2>7. Done'
    <3>1. (\A d \in Closers : closer'[d] \notin CloseStages \cup {"cancelled"})
            => \A d \in Closers : closer[d] \notin CloseStages \cup {"cancelled"}
      BY <1>2, <2>2
    <3> QED
      BY <1>2, <1>3, <2>1, <3>1 DEF IInv, Done, Nothing, ClosedOnce
  <2> QED
    BY <2>3, <2>5, <2>6, <2>7 DEF IInv
<1>4. CASE ~closed
  <2>1. PICK stage : stage = FirstStage
    OBVIOUS
  <2>2. /\ closer' = [closer EXCEPT ![c] = stage]
        /\ closed' = TRUE /\ snapLeases' = active /\ snapStreams' = streams
    BY <1>4, <2>1 DEF CloseEnter
  <2>3. stage \in {"probe", "streams"} /\ (stage = "streams" => loop = "none")
    BY <2>1 DEF FirstStage
  <2>4. /\ closer' \in [Closers -> {"idle", "lock", "returned", "cancelled"} \cup CloseStages]
        /\ closer'[c] = stage
        /\ \A d \in Closers \ {c} : closer'[d] = closer[d]
        /\ \A d \in Closers : closer[d] = "returned" => closer'[d] = "returned"
    <3>1. stage \in {"idle", "lock", "returned", "cancelled"} \cup CloseStages
      BY <2>3 DEF CloseStages
    <3> QED
      BY <1>1, <1>2, <2>2, <3>1, CallerMoves
  <2>5. TypeOK' /\ (\A o \in Ops : Operation(o))' /\ Work' /\ GaugesMirrorState'
    BY <1>1, <1>2, <2>2, <2>4, CallKeeps DEF TypeOK, ClosedOnce
  <2>6. \A d \in Closers : closer[d] # "returned"
    BY <1>4 DEF IInv, Exclusion
  <2>7. Exclusion' /\ Snapshot'
    BY <1>2, <2>2, <2>3, <2>4, <2>6 DEF Exclusion, Snapshot
  <2>8. Stages'
    <3>1. Untouched'
      BY <1>2, <1>4 DEF IInv, Stages, Untouched
    <3>2. \A d \in Closers : closer'[d] \in CloseStages => d = c
      BY <1>2, <2>4
    <3> QED
      BY <1>2, <2>2, <2>3, <2>4, <3>1, <3>2 DEF Stages, CloseStages
  <2>9. Done'
    BY <2>3, <2>4 DEF Done, CloseStages
  <2> QED
    BY <2>5, <2>7, <2>8, <2>9 DEF IInv
<1> QED
  BY <1>1, <1>3, <1>4 DEF TypeOK

\* The running call of close moves to a stage whose work before it is done.
LEMMA AdvanceKeeps ==
  ASSUME IInv, NEW c \in Closers, NEW stage \in CloseStages, closer[c] \in CloseStages,
         closer' = [closer EXCEPT ![c] = stage],
         UNCHANGED <<up, flips, slots, operations, probes, closed, snapLeases, snapStreams>>,
         toClose' \subseteq Slots, leafCloses' \in [Slots -> Nat],
         ClosedOnce({}) => ClosedOnce({})',
         stage \in {"probe", "streams"} => Untouched',
         stage # "probe" => loop \in {"none", "ended"},
         stage \in {"backends", "leases"} => \A o \in snapStreams : op[o] = "ended",
         stage = "backends" => ClosedOnce(toClose)',
         stage = "leases" => ClosedOnce({})'
  PROVE  IInv'
<1> USE DEF slots, operations, probes
<1>1. TypeOK
  BY DEF IInv
<1>2. stage \notin {"returned", "cancelled"} /\ closer[c] # "returned"
  BY DEF CloseStages
<1>3. /\ closer' \in [Closers -> {"idle", "lock", "returned", "cancelled"} \cup CloseStages]
      /\ closer'[c] = stage
      /\ \A d \in Closers \ {c} : closer'[d] = closer[d]
      /\ \A d \in Closers : closer[d] = "returned" => closer'[d] = "returned"
  BY <1>1, <1>2, CallerMoves
<1>4. TypeOK' /\ (\A o \in Ops : Operation(o))' /\ Work' /\ GaugesMirrorState'
  BY <1>1, <1>3, CallKeeps DEF TypeOK
<1>5. closed /\ \A d \in Closers : /\ closer[d] # "returned"
                                   /\ closer[d] \in CloseStages => d = c
  BY DEF IInv, Exclusion
<1>6. Exclusion' /\ Snapshot'
  <2>1. \A d \in Closers : closer'[d] # "returned" /\ (closer'[d] \in CloseStages => d = c)
    BY <1>2, <1>3, <1>5
  <2> QED
    BY <1>5, <2>1 DEF IInv, Exclusion, Snapshot
<1>7. Stages'
  <2>1. \A d \in Closers : closer'[d] \in CloseStages => d = c
    BY <1>3, <1>5
  <2> QED
    BY <1>3, <1>5, <2>1 DEF Stages, CloseStages
<1>8. Done'
  BY <1>3 DEF Done
<1> QED
  BY <1>4, <1>6, <1>7, <1>8 DEF IInv

\* close goes from one gather to the next.
LEMMA StageKeeps ==
  ASSUME IInv, NEW c \in Closers,
         \/ CloseProbeEnded(c) \/ CloseStreamsEnded(c) \/ CloseBackendsEnded(c)
         \/ \E s \in Slots : CloseBackend(c, s)
  PROVE  IInv'
<1> USE DEF slots, operations, probes
<1>1. TypeOK /\ Stages
  BY DEF IInv
<1>2. CASE CloseProbeEnded(c)
  <2>1. /\ closer[c] = "probe" /\ loop = "ended"
        /\ closer' = [closer EXCEPT ![c] = "streams"]
        /\ UNCHANGED <<up, flips, slots, operations, probes, closed, snapLeases,
                       snapStreams, toClose, leafCloses>>
    BY <1>2 DEF CloseProbeEnded
  <2>2. Untouched'
    BY <1>1, <2>1 DEF Stages, Untouched
  <2>3. /\ toClose' \subseteq Slots /\ leafCloses' \in [Slots -> Nat]
        /\ ClosedOnce({}) => ClosedOnce({})'
    BY <1>1, <2>1 DEF TypeOK, ClosedOnce
  <2>4. "streams" \in CloseStages /\ "probe" \in CloseStages
    BY DEF CloseStages
  <2> QED
    BY <2>1, <2>2, <2>3, <2>4, AdvanceKeeps
<1>3. CASE CloseStreamsEnded(c)
  <2>1. /\ closer[c] = "streams" /\ \A o \in snapStreams : op[o] = "ended"
        /\ closer' = [closer EXCEPT ![c] = "backends"] /\ toClose' = Slots
        /\ UNCHANGED <<up, flips, slots, operations, probes, closed, snapLeases,
                       snapStreams, leafCloses>>
    BY <1>3 DEF CloseStreamsEnded
  <2>2. loop \in {"none", "ended"} /\ ClosedOnce(toClose)'
    BY <1>1, <2>1 DEF Stages, Untouched, ClosedOnce, CloseStages
  <2>3. /\ toClose' \subseteq Slots /\ leafCloses' \in [Slots -> Nat]
        /\ ClosedOnce({}) => ClosedOnce({})'
    BY <1>1, <2>1 DEF TypeOK, ClosedOnce
  <2>4. "streams" \in CloseStages /\ "backends" \in CloseStages
    BY DEF CloseStages
  <2> QED
    BY <2>1, <2>2, <2>3, <2>4, AdvanceKeeps
<1>4. CASE CloseBackendsEnded(c)
  <2>1. /\ closer[c] = "backends" /\ toClose = {}
        /\ closer' = [closer EXCEPT ![c] = "leases"]
        /\ UNCHANGED <<up, flips, slots, operations, probes, closed, snapLeases,
                       snapStreams, toClose, leafCloses>>
    BY <1>4 DEF CloseBackendsEnded
  <2>2. loop \in {"none", "ended"} /\ ClosedOnce({})' /\ \A o \in snapStreams : op[o] = "ended"
    BY <1>1, <2>1 DEF Stages, ClosedOnce, CloseStages
  <2>3. toClose' \subseteq Slots /\ leafCloses' \in [Slots -> Nat]
    BY <1>1, <2>1 DEF TypeOK
  <2>4. "leases" \in CloseStages /\ "backends" \in CloseStages
    BY DEF CloseStages
  <2> QED
    BY <2>1, <2>2, <2>3, <2>4, AdvanceKeeps
<1>5. ASSUME NEW s \in Slots, CloseBackend(c, s)
      PROVE  IInv'
  <2>1. /\ closer[c] = "backends" /\ s \in toClose
        /\ toClose' = toClose \ {s}
        /\ leafCloses' = [leafCloses EXCEPT ![s] = @ + 1]
        /\ UNCHANGED <<up, flips, slots, operations, probes, closed, closer, snapLeases,
                       snapStreams>>
    BY <1>5 DEF CloseBackend
  <2>2. closer' = [closer EXCEPT ![c] = "backends"]
    BY <1>1, <2>1 DEF TypeOK
  <2>3. toClose' \subseteq Slots /\ leafCloses' \in [Slots -> Nat]
    BY <1>1, <2>1 DEF TypeOK
  <2>4. /\ loop \in {"none", "ended"} /\ \A o \in snapStreams : op[o] = "ended"
        /\ ClosedOnce(toClose)
    BY <1>1, <2>1 DEF Stages, CloseStages
  <2>5. ClosedOnce(toClose)'
    BY <1>1, <2>1, <2>4 DEF ClosedOnce, TypeOK
  <2>6. "backends" \in CloseStages
    BY DEF CloseStages
  <2>7. ~ClosedOnce({})
    BY <2>1, <2>4 DEF ClosedOnce
  <2> QED
    BY <2>1, <2>2, <2>3, <2>4, <2>5, <2>6, <2>7, AdvanceKeeps
<1> QED
  BY <1>2, <1>3, <1>4, <1>5

\* One lease of the snapshot is released while close waits for the others.
LEMMA CloseReleaseKeeps ==
  ASSUME IInv, NEW c \in Closers, NEW o \in Ops, CloseRelease(c, o)
  PROVE  IInv'
<1> USE DEF probes, closing
<1>1. TypeOK /\ Work /\ {o} \subseteq Ops
  BY DEF IInv
<1>2. /\ closer[c] = "leases" /\ Release({o})
      /\ UNCHANGED <<up, flips, healthy, cursor, slot, streams, op, outcome, observed,
                     probes, closing>>
      /\ Publish
  BY DEF CloseRelease
<1>3. /\ active' = active \ {o}
      /\ inflight' \in [Slots -> Nat]
      /\ \A s \in Slots : inflight'[s] = Cardinality(Requests(active, s)')
  BY <1>1, <1>2, ReleaseFacts
<1>4. /\ gauge' \in [Slots -> [healthy : BOOLEAN, inflight : Nat]]
      /\ GaugesMirrorState'
      /\ closed => \A s \in Slots : ~Shown(s) => ~Shown(s)'
  BY <1>2, <1>3, NotifyFacts DEF NotifyIf
<1>5. TypeOK'
  BY <1>1, <1>2, <1>3, <1>4 DEF TypeOK
<1>6. (\A a \in Ops : Operation(a))'
  BY <1>2, <1>3 DEF IInv, Operation, Unfinished
<1>7. Work'
  <2>1. ClosedOnce({})'
    BY <1>2 DEF IInv, Stages, ClosedOnce
  <2> QED
    BY <1>3, <2>1 DEF Work
<1>8. Exclusion' /\ Snapshot' /\ Stages' /\ Done'
  BY <1>2, <1>3, <1>4, Frames
<1> QED
  BY <1>4, <1>5, <1>6, <1>7, <1>8 DEF IInv

\* close returns: the leases of its snapshot were all there were.
LEMMA CloseEndsKeeps ==
  ASSUME IInv, NEW c \in Closers, CloseEnds(c)
  PROVE  IInv'
<1> USE DEF probes, operations
<1>1. TypeOK /\ Work
  BY DEF IInv
<1>2. /\ closer[c] = "leases" /\ closer' = [closer EXCEPT ![c] = "returned"]
      /\ snapLeases \cap active = {} /\ healthy' = [s \in Slots |-> "no"]
      /\ UNCHANGED <<up, flips, inflight, cursor, operations, probes, closed, snapLeases,
                     snapStreams, toClose, leafCloses>>
      /\ Publish
  BY DEF CloseEnds
<1>3. /\ closed
      /\ \A d \in Closers : /\ closer[d] # "returned"
                            /\ closer[d] \in CloseStages => d = c
  BY <1>2 DEF IInv, Exclusion, CloseStages
<1>4. /\ closer' \in [Closers -> {"idle", "lock", "returned", "cancelled"} \cup CloseStages]
      /\ closer'[c] = "returned"
      /\ \A d \in Closers \ {c} : closer'[d] = closer[d]
  BY <1>1, <1>2, CallerMoves
<1>5. \A d \in Closers : closer'[d] \notin CloseStages
  BY <1>3, <1>4 DEF CloseStages
<1>6. /\ gauge' \in [Slots -> [healthy : BOOLEAN, inflight : Nat]]
      /\ GaugesMirrorState'
      /\ \A s \in Slots : ~Shown(s)'
  <2>1. closed' \in BOOLEAN /\ closed' /\ inflight' \in [Slots -> Nat]
    BY <1>1, <1>2, <1>3 DEF TypeOK
  <2> QED
    BY <1>2, <2>1, PublishFacts
<1>7. TypeOK'
  <2>1. healthy' \in [Slots -> {"none", "yes", "no"}]
    BY <1>2
  <2> QED
    BY <1>1, <1>2, <1>4, <1>6, <2>1 DEF TypeOK
<1>8. (\A o \in Ops : Operation(o))'
  BY <1>2 DEF IInv, Operation, Unfinished
<1>9. Work'
  <2>1. (\A s : Requests(active, s)' = Requests(active, s)) /\ Unfinished' = Unfinished
    BY <1>2, RequestsAre DEF Unfinished
  <2> QED
    BY <1>1, <1>2, <2>1 DEF Work, ClosedOnce
<1>10. active' = {} /\ streams' = {}
  <2>1. active \subseteq snapLeases /\ streams \subseteq snapStreams
    BY <1>3 DEF IInv, Snapshot
  <2>2. \A o \in snapStreams : op[o] = "ended"
    BY <1>2 DEF IInv, Stages
  <2>3. \A o \in streams : o \in Ops /\ op[o] # "ended"
    BY <1>1 DEF IInv, Operation, Registered, TypeOK
  <2> QED
    BY <1>2, <2>1, <2>2, <2>3
<1>11. Exclusion' /\ Snapshot'
  BY <1>2, <1>3, <1>5, <1>10 DEF Exclusion, Snapshot
<1>12. Stages'
  BY <1>2, <1>3, <1>5 DEF Stages, CloseStages
<1>13. Done'
  <2>1. loop \in {"none", "ended"} /\ ClosedOnce({})
    BY <1>2 DEF IInv, Stages, CloseStages
  <2> QED
    BY <1>2, <1>6, <1>10, <2>1 DEF Done, Nothing, ClosedOnce, Shown
<1> QED
  BY <1>6, <1>7, <1>8, <1>9, <1>11, <1>12, <1>13 DEF IInv

\* A cancelled call of close ends the streams it was finishing, and leaves
\* the pool closed with the rest undone.
LEMMA CloseCancelledKeeps ==
  ASSUME IInv, NEW c \in Closers, CloseCancelled(c)
  PROVE  IInv'
<1> USE DEF probes
<1>1. TypeOK /\ Work
  BY DEF IInv
<1>2. /\ closer[c] # "returned" /\ closer' = [closer EXCEPT ![c] = "cancelled"]
      /\ UNCHANGED <<up, flips, healthy, cursor, slot, outcome, probes, closed,
                     snapLeases, snapStreams, toClose, leafCloses>>
  BY DEF CloseCancelled
<1>3. PICK os : os = IF closer[c] = "streams" THEN {o \in Ops : op[o] = "by close"} ELSE {}
  OBVIOUS
<1>4. os \subseteq Unfinished
  BY <1>3 DEF Unfinished, Finishing
<1>5. \/ os = {} /\ UNCHANGED <<inflight, gauge, active, streams, op, observed>>
      \/ FinishStreams(os) /\ NotifyIf(os \cap active # {})
  BY <1>3 DEF CloseCancelled
<1>6. /\ closer' \in [Closers -> {"idle", "lock", "returned", "cancelled"} \cup CloseStages]
      /\ closer'[c] = "cancelled"
      /\ \A d \in Closers \ {c} : closer'[d] = closer[d]
      /\ \A d \in Closers : closer[d] = "returned" => closer'[d] = "returned"
  BY <1>1, <1>2, CallerMoves
<1>7. /\ active' = active \ os /\ streams' = streams \ os
      /\ op' \in [Ops -> OpStates] /\ observed' \in [Ops -> Nat]
      /\ \A o \in Ops : op'[o] = IF o \in os THEN "ended" ELSE op[o]
      /\ (\A o \in Ops : Operation(o))'
      /\ inflight' \in [Slots -> Nat]
      /\ \A s \in Slots : inflight'[s] = Cardinality(Requests(active, s)')
      /\ Unfinished' = Unfinished \ os
      /\ gauge' \in [Slots -> [healthy : BOOLEAN, inflight : Nat]]
      /\ GaugesMirrorState'
  <2>1. CASE os = {} /\ UNCHANGED <<inflight, gauge, active, streams, op, observed>>
    <3>1. (\A s : Requests(active, s)' = Requests(active, s)) /\ Unfinished' = Unfinished
      BY <1>2, <2>1, RequestsAre DEF Unfinished
    <3>2. \A s \in Slots : inflight'[s] = Cardinality(Requests(active, s)')
      BY <1>1, <2>1, <3>1 DEF Work
    <3>3. (\A o \in Ops : Operation(o))'
      BY <1>2, <2>1 DEF IInv, Operation, Unfinished
    <3>4. GaugesMirrorState'
      BY <1>2, <2>1 DEF IInv, GaugesMirrorState
    <3> QED
      BY <1>1, <2>1, <3>1, <3>2, <3>3, <3>4 DEF TypeOK
  <2>2. CASE FinishStreams(os) /\ NotifyIf(os \cap active # {})
    <3>1. /\ active' = active \ os /\ streams' = streams \ os
          /\ op' \in [Ops -> OpStates] /\ observed' \in [Ops -> Nat]
          /\ \A o \in Ops : op'[o] = IF o \in os THEN "ended" ELSE op[o]
          /\ (\A o \in Ops : Operation(o))'
          /\ inflight' \in [Slots -> Nat]
          /\ \A s \in Slots : inflight'[s] = Cardinality(Requests(active, s)')
          /\ os \cap active = {} => inflight' = inflight
          /\ Unfinished' = Unfinished \ os
      BY <1>2, <1>4, <2>2, FinishFacts
    <3>2. PICK changed \in BOOLEAN : changed <=> os \cap active # {}
      OBVIOUS
    <3>3. NotifyIf(changed)
      BY <2>2, <3>2 DEF NotifyIf
    <3>4. /\ gauge' \in [Slots -> [healthy : BOOLEAN, inflight : Nat]]
          /\ GaugesMirrorState'
      BY <1>2, <3>1, <3>2, <3>3, NotifyFacts
    <3> QED
      BY <3>1, <3>4
  <2> QED
    BY <1>5, <2>1, <2>2
<1>8. TypeOK'
  BY <1>1, <1>2, <1>6, <1>7 DEF TypeOK
<1>9. Work'
  BY <1>1, <1>2, <1>6, <1>7 DEF Work, ClosedOnce
<1>10. \A d \in Closers : closer'[d] \in CloseStages \cup {"returned"} => closer'[d] = closer[d]
  BY <1>6 DEF CloseStages
<1>11. Exclusion' /\ Snapshot'
  BY <1>2, <1>7, <1>10 DEF IInv, Exclusion, Snapshot
<1>12. Stages'
  <2>1. \A o \in snapStreams : op[o] = "ended" => op'[o] = "ended"
    BY <1>1, <1>7 DEF TypeOK
  <2> QED
    BY <1>2, <1>10, <2>1 DEF IInv, Stages, Untouched, ClosedOnce, CloseStages
<1>13. Done'
  BY <1>6 DEF Done
<1> QED
  BY <1>7, <1>8, <1>9, <1>11, <1>12, <1>13 DEF IInv

-----------------------------------------------------------------------------
(***************************************************************************)
(* The theorems.                                                           *)
(***************************************************************************)
\* Before any call, no backend has work and nothing is closed.
LEMMA InitHolds == Init => IInv
<1> SUFFICES ASSUME Init PROVE IInv
  OBVIOUS
<1>1. TypeOK
  <2>1. 0 \in Slots /\ 0 \in 0..MaxFlips
    BY PoolAssumption DEF Slots
  <2>2. gauge \in [Slots -> [healthy : BOOLEAN, inflight : Nat]]
    BY DEF Init
  <2>3. /\ up \in [Slots -> BOOLEAN] /\ flips \in 0..MaxFlips
        /\ healthy \in [Slots -> {"none", "yes", "no"}]
        /\ inflight \in [Slots -> Nat] /\ cursor \in Slots
        /\ probe \in [Slots -> {"none", "asked", "yes", "no"}]
        /\ leafCloses \in [Slots -> Nat]
    BY <2>1 DEF Init
  <2>4. /\ slot \in [Ops -> Slots \cup {NoSlot}] /\ op \in [Ops -> OpStates]
        /\ outcome \in [Ops -> Outcomes \cup {"none"}] /\ observed \in [Ops -> Nat]
        /\ closer \in [Closers -> {"idle", "lock", "returned", "cancelled"} \cup CloseStages]
    BY DEF Init, OpStates
  <2> QED
    BY <2>2, <2>3, <2>4 DEF Init, TypeOK
<1>2. \A o \in Ops : Operation(o)
  BY DEF Init, Operation, Registered
<1>3. Work
  <2>1. \A s \in Slots : inflight[s] = Cardinality(Requests(active, s))
    BY RequestsAre, OnNobody DEF Init
  <2>2. Unfinished = {}
    BY DEF Init, Unfinished, Finishing
  <2> QED
    BY <2>1, <2>2 DEF Work
<1>4. Exclusion /\ Snapshot /\ Stages /\ Done
  BY DEF Init, Exclusion, Snapshot, Stages, Untouched, Done, CloseStages
<1>5. GaugesMirrorState
  BY DEF Init, GaugesMirrorState
<1> QED
  BY <1>1, <1>2, <1>3, <1>4, <1>5 DEF IInv

\* Every step of the pool keeps the invariant.
LEMMA NextKeeps == IInv /\ [Next]_vars => IInv'
<1> SUFFICES ASSUME IInv, [Next]_vars PROVE IInv'
  OBVIOUS
<1>1. ASSUME NEW o \in Ops, OperationStep(o) PROVE IInv'
  BY <1>1, SelectKeeps, RefuseKeeps, LeafEndsKeeps, StreamOpensKeeps,
     ConsumerFinishesKeeps, LeafStreamClosesKeeps DEF OperationStep
<1>2. CASE ProbeStep \/ StartPool \/ StartCancelled
  BY <1>2, ProbeStepKeeps
<1>3. ASSUME NEW c \in Closers, CloseCall(c) PROVE IInv'
  BY <1>3, OutsideKeeps DEF CloseCall
<1>4. ASSUME NEW c \in Closers, CloseStep(c) PROVE IInv'
  BY <1>4, CloseEnterKeeps, CloseStreamKeeps, StageKeeps, CloseReleaseKeeps,
     CloseEndsKeeps DEF CloseStep
<1>5. ASSUME NEW c \in Closers, CloseCancelled(c) PROVE IInv'
  BY <1>5, CloseCancelledKeeps
<1>6. ASSUME NEW s \in Slots, Flip(s) PROVE IInv'
  BY <1>6, FlipKeeps
<1>7. CASE UNCHANGED vars
  <2>1. /\ UNCHANGED <<up, flips, start, loop, probe, healthy>>
        /\ UNCHANGED <<inflight, cursor, operations, closing>>
        /\ NotifyIf(FALSE)
    BY <1>7 DEF vars, slots, probes, NotifyIf
  <2>2. TypeOK
    BY DEF IInv
  <2> QED
    BY <2>1, <2>2, ProbingKeeps DEF TypeOK
<1> QED
  BY <1>1, <1>2, <1>3, <1>4, <1>5, <1>6, <1>7 DEF Next

\* The inductive invariant holds throughout.
THEOREM Invariance == Spec => []IInv
BY InitHolds, NextKeeps, PTL DEF Spec

\* Every variable of the pool keeps its type: above all, no count of a
\* backend (pool.py _BackendSlot.inflight) ever goes below zero.
THEOREM TypeCorrectness == Spec => []TypeOK
<1>1. IInv => TypeOK
  BY DEF IInv
<1> QED
  BY <1>1, Invariance, PTL

\* The count by which _select compares backends is, for every backend, the
\* number of requests assigned to it, whichever of the operation, its stream
\* and close releases a lease, and in whichever order; an operation that runs
\* on is uncounted only by a close that has closed every leaf client.
THEOREM CountsAreWork == Spec => []InflightIsAssignedWork
<1>1. IInv => InflightIsAssignedWork
  <2> SUFFICES ASSUME IInv PROVE InflightIsAssignedWork
    OBVIOUS
  <2>1. active \subseteq Unfinished
    BY DEF IInv, Operation, TypeOK
  <2>2. \A s \in Slots : inflight[s] = Cardinality(Assigned(s))
    BY DEF IInv, Work, Assigned
  <2>3. ASSUME active # Unfinished
        PROVE  closed /\ \A s \in Slots : leafCloses[s] = 1
    <3>1. PICK o \in Ops : o \in Unfinished /\ o \notin active
      BY <2>1, <2>3 DEF Unfinished
    <3>2. ClosedOnce({})
      BY <3>1 DEF IInv, Work
    <3> QED
      BY <3>1, <3>2, OpenPool DEF ClosedOnce
  <2> QED
    BY <2>1, <2>2, <2>3 DEF InflightIsAssignedWork
<1> QED
  BY <1>1, Invariance, PTL

\* gateway_backend_requests_total counts an operation once, when it ends,
\* whether its call, its consumer, close or a cancelled close ended it.
THEOREM OneObservation == Spec => []ObservedExactlyOnce
<1>1. IInv => ObservedExactlyOnce
  BY DEF IInv, ObservedExactlyOnce, Operation
<1> QED
  BY <1>1, Invariance, PTL

\* The gauges of the backends never disagree with the routing state.
THEOREM GaugesAreTrue == Spec => []GaugesMirrorState
<1>1. IInv => GaugesMirrorState
  BY DEF IInv
<1> QED
  BY <1>1, Invariance, PTL

\* A call of close that returned left no stream, no lease, no probe loop, no
\* healthy backend and no leaf client that was not closed exactly once.
THEOREM CloseIsComplete == Spec => []CloseLeavesNothing
<1>1. IInv => CloseLeavesNothing
  <2> SUFFICES ASSUME IInv, NEW c \in Closers, closer[c] = "returned",
                      \A d \in Closers : closer[d] # "cancelled"
               PROVE  /\ streams = {} /\ active = {}
                      /\ \A o \in Ops : op[o] \notin {"open", "by consumer", "by close"}
                      /\ loop \in {"none", "ended"}
                      /\ \A s \in Slots : leafCloses[s] = 1 /\ inflight[s] = 0 /\ ~gauge[s].healthy
    BY DEF CloseLeavesNothing
  <2>1. closed /\ \A d \in Closers : closer[d] \notin CloseStages \cup {"cancelled"}
    BY DEF IInv, Exclusion
  <2>2. Nothing
    BY <2>1 DEF IInv, Done
  <2>3. \A o \in Ops : op[o] \notin {"open", "by consumer", "by close"}
    BY <2>2 DEF IInv, Operation, Registered, Nothing
  <2>4. \A s \in Slots : inflight[s] = 0
    <3>1. active = {}
      BY <2>2 DEF Nothing
    <3> QED
      BY <3>1, RequestsAre, OnNobody DEF IInv, Work
  <2> QED
    BY <2>2, <2>3, <2>4 DEF Nothing, ClosedOnce
<1> QED
  BY <1>1, Invariance, PTL

\* A least loaded healthy backend that _select passes over is strictly
\* nearer to the cursor afterwards, with any number of backends.
THEOREM RotationIsFair == Spec => RotationReachesCandidates
<1> DEFINE Nearer == \A o \in Ops, s \in Candidates :
                       slot'[o] # slot[o]
                         => s = slot'[o] \/ Distance(cursor', s) < Distance(cursor, s)
<1>1. IInv /\ [Next]_vars => [Nearer]_vars
  <2> SUFFICES ASSUME IInv, Next, NEW o \in Ops, NEW s \in Candidates, slot'[o] # slot[o]
               PROVE  s = slot'[o] \/ Distance(cursor', s) < Distance(cursor, s)
    OBVIOUS
  <2>1. TypeOK
    BY DEF IInv
  <2>2. PICK a \in Ops : Select(a)
    <3>1. \A a \in Ops : OperationStep(a) => Select(a) \/ slot' = slot
      BY DEF OperationStep, Refuse, LeafEnds, StreamOpens, ConsumerFinishes, LeafStreamCloses
    <3>2. ProbeStep \/ StartPool \/ StartCancelled => slot' = slot
      BY DEF ProbeStep, StartEnds, LoopProbes, LoopSleeps, LoopCancelled, ProbeAnswered,
             ProbeDelivered, StartPool, StartCancelled, operations
    <3>3. \A c \in Closers : CloseCall(c) \/ CloseStep(c) \/ CloseCancelled(c) => slot' = slot
      BY DEF CloseCall, CloseStep, CloseEnter, CloseProbeEnded, CloseStream, CloseStreamsEnded,
             CloseBackend, CloseBackendsEnded, CloseRelease, CloseEnds, CloseCancelled, operations
    <3>4. \A t \in Slots : Flip(t) => slot' = slot
      BY DEF Flip, operations
    <3> QED
      BY <3>1, <3>2, <3>3, <3>4 DEF Next
  <2>3. cursor \in Slots /\ slot \in [Ops -> Slots \cup {NoSlot}] /\ s \in Slots
    BY <2>1 DEF TypeOK, Candidates
  <2>4. PICK t \in Slots : /\ t = Selected
                           /\ Distance(cursor, t) <= Distance(cursor, s)
    BY <2>3, SelectedIs
  <2>5. slot' = [slot EXCEPT ![a] = t] /\ cursor' = CursorAfter(t)
    BY <2>2, <2>4 DEF Select
  <2>6. slot'[o] = t
    BY <2>3, <2>5
  <2>7. s # t => Distance(CursorAfter(t), s) < Distance(cursor, s)
    BY <2>3, <2>4, RotationAdvances
  <2> QED
    BY <2>5, <2>6, <2>7
<1> QED
  BY <1>1, Invariance, PTL DEF Spec, RotationReachesCandidates
=============================================================================
