-------------------------- MODULE ChatRouteProofs --------------------------
(***************************************************************************)
(* Proofs about the life of a request, for any finite set of requests, any *)
(* mix of streams and calls, and any global_max_inflight.                  *)
(*                                                                         *)
(* The properties speak of requests one by one, apart from the bound on    *)
(* the leases.  The inductive invariant IInv is therefore a relation Fits  *)
(* between the parts of the state of one request, for each of them:        *)
(*   Holds    what the request holds and has sent at each place            *)
(*   Counted  what the error counter has of it                             *)
(*   Recorded what the middleware has of it                                *)
(*   Covered  what the token accounting has of it                          *)
(***************************************************************************)
EXTENDS ChatRoute, FiniteSetTheorems, TLAPS

Leases == {"none", "held", "orphaned", "released"}
Slots == {"held", "orphaned"}
Batches == {"none", "dispatched", "ended"}
Upstreams == {"none", "open", "abandoned", "closed"}
Unclosed == {"open", "abandoned"}
Statuses == {0, 200, 500} \cup {StatusOf[c] : c \in DOMAIN StatusOf}
Outcomes == StreamOutcomes \cup {"none"}
Interrupts == {"none", "cancelled", "disconnect", "scope", "while closing"}
Records == {"completed", "cancelled", "error"}

Early == {"idle", "admitting", "calling", "opening"}
Relaying == {"pulling", "pushing", "closing"}
Over == {"returning", "done"}

Streams(r) == Ask[r].stream
Once(o) == <<o>>

\* a lease is orphaned by a request that timed out
TimedOut(l, s) == l = "orphaned" => s = 429

Holds(r, p, l, b, u, s, i) ==
  /\ p = "idle" => l = "none"
  /\ p \in {"calling", "opening"} \/ u \in Unclosed => l = "held"
  /\ l = "held" => p \in {"admitting", "calling", "opening"} \/ u \in Unclosed
  /\ TimedOut(l, s)
  /\ b # "none" => Eligible(r) /\ p \notin {"idle", "admitting"}
  /\ p \in Early => s = 0
  /\ p \in Relaying => s = 200 /\ Streams(r)
  /\ p = "opening" => Streams(r)
  /\ p = "calling" => ~Streams(r)
  /\ u # "none" => Streams(r) /\ s = 200
  /\ Streams(r) /\ s = 200 => u # "none"
  /\ p \in {"pulling", "pushing"} => u = "open"
  /\ u = "open" => p \in Relaying
  /\ u = "abandoned" => p \in {"closing", "done"} /\ i # "scope"
  /\ u = "closed" => l = "released"
  /\ i = "while closing" => u = "closed" /\ p \notin Relaying

\* A response that is being sent says why the error counter has its value.
Answer(r, l, s, o, i, e) ==
  \/ s >= 400 /\ e = 1 /\ o = "none"
  \/ s = 400 /\ e = 0 /\ o = "none" /\ l = "none"
  \/ s = 200 /\ ~Streams(r) /\ e = 0 /\ o = "none"
  \/ s = 200 /\ Streams(r) /\ e = 0 /\ o \in {"completed", "cancelled"}
  \/ s = 200 /\ Streams(r) /\ e = 1 /\ o = "upstream_error"
  \/ s = 200 /\ Streams(r) /\ e = 0 /\ o = "none" /\ i = "while closing"

Counted(r, p, l, u, s, o, i, e) ==
  /\ e \in {0, 1}
  /\ p \in Early \/ u \in Unclosed => e = 0 /\ o = "none"
  /\ p = "closing" /\ u = "closed" => \/ o = "cancelled" /\ e = 0
                                      \/ o = "upstream_error" /\ e = 1
  /\ p = "sending" => Answer(r, l, s, o, i, e)

Recorded(r, p, l, b, u, s, o, i, rec, e) ==
  /\ p \notin Over => rec = << >>
  /\ p \in Over => rec \in {Once("completed"), Once("cancelled"), Once("error")}
  /\ rec = Once("error") => e = 1 \/ (s = 400 /\ l = "none")
  /\ rec = Once("completed")
       => /\ s = 200 /\ e = 0
          /\ Streams(r) => o = "completed" \/ i = "while closing"
  /\ b = "dispatched" => l = "held" \/ rec = Once("cancelled")
  /\ p = "done" /\ u = "abandoned" => rec = Once("cancelled")

Covered(r, u, s, i, a) ==
  /\ a \in {0, 1}
  /\ Streams(r) => (a = 1 <=> u = "closed" /\ i # "while closing")
  /\ ~Streams(r) /\ a = 1 => ~Eligible(r) /\ s \in {200, 500}
  /\ ~Streams(r) /\ ~Eligible(r) /\ s = 200 => a = 1

Fits(r, p, l, b, u, s, o, i, rec, e, a) ==
  /\ Holds(r, p, l, b, u, s, i)
  /\ Counted(r, p, l, u, s, o, i, e)
  /\ Recorded(r, p, l, b, u, s, o, i, rec, e)
  /\ Covered(r, u, s, i, a)

Local(r) == Fits(r, pc[r], lease[r], batch[r], upstream[r], status[r], outcome[r],
                 interrupted[r], recorded[r], errors[r], accounted[r])

Bounded == Cardinality(Holding) <= GlobalMaxInflight

IInv == TypeOK /\ (\A r \in Reqs : Local(r)) /\ Bounded

-----------------------------------------------------------------------------
(***************************************************************************)
(* Constants and records.                                                  *)
(***************************************************************************)
\* Every error class has an error status, and a status is a number.
LEMMA StatusFacts ==
  /\ \A c \in DOMAIN StatusOf : StatusOf[c] \in Statuses /\ StatusOf[c] >= 400
  /\ Statuses \subseteq Nat
  /\ {0, 200, 400, 500} \subseteq Statuses
<1>1. \A c \in DOMAIN StatusOf : StatusOf[c] \in Nat /\ StatusOf[c] >= 400
  BY DEF StatusOf
<1>2. "invalid_request" \in DOMAIN StatusOf /\ StatusOf["invalid_request"] = 400
  BY DEF StatusOf
<1>. QED BY <1>1, <1>2 DEF Statuses

\* The codes that a request can end with have a status.
LEMMA CodeFacts ==
  /\ \A r \in Reqs : CallErrors(r) \subseteq DOMAIN StatusOf
  /\ AdmissionErrors \subseteq DOMAIN StatusOf
  /\ "unauthorized" \in DOMAIN StatusOf /\ "invalid_request" \in DOMAIN StatusOf
  /\ "admission_timeout" \in DOMAIN StatusOf /\ StatusOf["admission_timeout"] = 429
BY DEF CallErrors, AdmissionErrors, LeafErrors, StatusOf

\* The numbers that the invariant names differ.
LEMMA Literals ==
  /\ 200 # 0 /\ 400 # 0 /\ 500 # 0 /\ 400 # 200 /\ 500 # 200
  /\ 0 # 1 /\ 0 # 200 /\ 0 # 429 /\ 0 # 400
  /\ 200 # 400 /\ 200 # 429 /\ 200 # 500 /\ 500 # 429 /\ 500 # 400 /\ 400 # 429
OBVIOUS

\* A counter's first event.
LEMMA First == 0 + 1 = 1
OBVIOUS

\* A record is one outcome.
LEMMA OnceFacts ==
  /\ \A o : Append(<< >>, o) = Once(o) /\ Once(o) # << >> /\ Len(Once(o)) = 1
  /\ \A o \in Records : Once(o) \in Seq(Records)
  /\ Once("completed") # Once("cancelled") /\ Once("completed") # Once("error")
  /\ Once("cancelled") # Once("error")
BY DEF Once

\* The members of a batch do not stream.
LEMMA EligibleFacts == \A r \in Reqs : Eligible(r) => ~Streams(r)
BY DEF Eligible, Streams

\* The state of a request.
LEMMA RequestFacts ==
  ASSUME IInv, NEW r \in Reqs
  PROVE  /\ Holds(r, pc[r], lease[r], batch[r], upstream[r], status[r], interrupted[r])
         /\ Counted(r, pc[r], lease[r], upstream[r], status[r], outcome[r], interrupted[r],
                    errors[r])
         /\ Recorded(r, pc[r], lease[r], batch[r], upstream[r], status[r], outcome[r],
                     interrupted[r], recorded[r], errors[r])
         /\ Covered(r, upstream[r], status[r], interrupted[r], accounted[r])
         /\ pc[r] \in Places /\ lease[r] \in Leases /\ batch[r] \in Batches
         /\ upstream[r] \in Upstreams
         /\ status[r] \in Statuses /\ status[r] \in Nat /\ outcome[r] \in Outcomes
         /\ interrupted[r] \in Interrupts /\ recorded[r] \in Seq(Records)
         /\ errors[r] \in Nat /\ accounted[r] \in Nat
<1>1. TypeOK /\ Local(r)
  BY DEF IInv
<1>2. status[r] \in Statuses
  <2>1. status \in [Reqs -> Statuses]
    BY <1>1 DEF TypeOK, Statuses
  <2>. QED BY <2>1
<1>3. status[r] \in Nat
  BY <1>2, StatusFacts
<1>4. /\ Holds(r, pc[r], lease[r], batch[r], upstream[r], status[r], interrupted[r])
      /\ Counted(r, pc[r], lease[r], upstream[r], status[r], outcome[r], interrupted[r],
                 errors[r])
      /\ Recorded(r, pc[r], lease[r], batch[r], upstream[r], status[r], outcome[r],
                  interrupted[r], recorded[r], errors[r])
      /\ Covered(r, upstream[r], status[r], interrupted[r], accounted[r])
  BY <1>1 DEF Local, Fits
<1>. QED BY <1>1, <1>2, <1>3, <1>4
         DEF TypeOK, Leases, Batches, Upstreams, Outcomes, Interrupts, Records

\* The state of request r becomes what the arguments say.
Becomes(r, p, l, b, u, s, o, i, rec, e, a) ==
  /\ p \in Places /\ l \in Leases /\ b \in Batches /\ u \in Upstreams /\ s \in Statuses
  /\ o \in Outcomes /\ i \in Interrupts /\ rec \in Seq(Records) /\ e \in Nat /\ a \in Nat
  /\ pc' = [pc EXCEPT ![r] = p] /\ lease' = [lease EXCEPT ![r] = l]
  /\ batch' = [batch EXCEPT ![r] = b] /\ upstream' = [upstream EXCEPT ![r] = u]
  /\ status' = [status EXCEPT ![r] = s]
  /\ outcome' = [outcome EXCEPT ![r] = o] /\ interrupted' = [interrupted EXCEPT ![r] = i]
  /\ recorded' = [recorded EXCEPT ![r] = rec] /\ errors' = [errors EXCEPT ![r] = e]
  /\ accounted' = [accounted EXCEPT ![r] = a]
  /\ UNCHANGED app

\* A step of one request to a state that fits, which takes no slot beyond the
\* limit.
LEMMA StepPreserves ==
  ASSUME IInv, NEW r \in Reqs, NEW p, NEW l, NEW b, NEW u, NEW s, NEW o, NEW i,
         NEW rec, NEW e, NEW a,
         Becomes(r, p, l, b, u, s, o, i, rec, e, a),
         Fits(r, p, l, b, u, s, o, i, rec, e, a),
         l \notin Slots \/ lease[r] \in Slots \/ Cardinality(Holding) < GlobalMaxInflight
  PROVE  IInv'
<1> USE DEF Becomes
<1>1. TypeOK
  BY DEF IInv
<1>2. TypeOK'
  BY <1>1 DEF TypeOK, app, Leases, Batches, Upstreams, Statuses, Outcomes, Interrupts, Records
<1>3. ASSUME NEW q \in Reqs PROVE Local(q)'
  <2>1. CASE q = r
    <3>1. /\ pc'[r] = p /\ lease'[r] = l /\ batch'[r] = b /\ upstream'[r] = u
          /\ outcome'[r] = o /\ interrupted'[r] = i
      BY <1>1 DEF TypeOK
    <3>2. status'[r] = s /\ recorded'[r] = rec
      BY <1>1 DEF TypeOK
    <3>3. errors'[r] = e /\ accounted'[r] = a
      BY <1>1 DEF TypeOK
    <3>. QED BY <2>1, <3>1, <3>2, <3>3 DEF Local
  <2>2. CASE q # r
    <3>1. /\ pc'[q] = pc[q] /\ lease'[q] = lease[q] /\ batch'[q] = batch[q]
          /\ upstream'[q] = upstream[q] /\ status'[q] = status[q] /\ outcome'[q] = outcome[q]
          /\ interrupted'[q] = interrupted[q] /\ recorded'[q] = recorded[q]
          /\ errors'[q] = errors[q] /\ accounted'[q] = accounted[q]
      BY <1>1, <2>2 DEF TypeOK
    <3>2. Local(q)
      BY DEF IInv
    <3>. QED BY <3>1, <3>2 DEF Local
  <2>. QED BY <2>1, <2>2
<1>4. Bounded'
  <2>0. Holding = {q \in Reqs : lease[q] \in Slots} /\ Holding' = {q \in Reqs : lease'[q] \in Slots}
    BY DEF Holding, Slots
  <2>1. IsFiniteSet(Holding) /\ Cardinality(Holding) \in Nat
    BY <2>0, RouteAssumption, FS_Subset, FS_CardinalityType
  <2>2. \A q \in Reqs : lease'[q] = IF q = r THEN l ELSE lease[q]
    BY <1>1 DEF TypeOK
  <2>3. CASE l \notin Slots \/ lease[r] \in Slots
    <3>1. Holding' \subseteq Holding
      BY <2>0, <2>2, <2>3
    <3>2. IsFiniteSet(Holding') /\ Cardinality(Holding') <= Cardinality(Holding)
      BY <2>1, <3>1, FS_Subset
    <3>3. Cardinality(Holding') \in Nat
      BY <3>2, FS_CardinalityType
    <3>. QED BY <2>1, <3>2, <3>3, RouteAssumption DEF IInv, Bounded
  <2>4. CASE l \in Slots /\ lease[r] \notin Slots /\ Cardinality(Holding) < GlobalMaxInflight
    <3>1. Holding' = Holding \cup {r} /\ r \notin Holding
      BY <2>0, <2>2, <2>4
    <3>2. Cardinality(Holding') = Cardinality(Holding) + 1
      BY <2>1, <3>1, FS_AddElement
    <3>. QED BY <2>1, <2>4, <3>2, RouteAssumption DEF Bounded
  <2>. QED BY <2>3, <2>4
<1>. QED BY <1>2, <1>3, <1>4 DEF IInv

\* What a step leaves alone, in the form that StepPreserves has.
LEMMA Unchanged ==
  ASSUME IInv, NEW r \in Reqs
  PROVE  /\ pc = [pc EXCEPT ![r] = pc[r]]
         /\ lease = [lease EXCEPT ![r] = lease[r]]
         /\ batch = [batch EXCEPT ![r] = batch[r]]
         /\ upstream = [upstream EXCEPT ![r] = upstream[r]]
         /\ status = [status EXCEPT ![r] = status[r]]
         /\ outcome = [outcome EXCEPT ![r] = outcome[r]]
         /\ interrupted = [interrupted EXCEPT ![r] = interrupted[r]]
         /\ recorded = [recorded EXCEPT ![r] = recorded[r]]
         /\ errors = [errors EXCEPT ![r] = errors[r]]
         /\ accounted = [accounted EXCEPT ![r] = accounted[r]]
BY DEF IInv, TypeOK

\* The first finalize of a request records its outcome.
LEMMA Finalizes ==
  ASSUME IInv, NEW r \in Reqs, pc[r] \notin Over, NEW o \in Records, Finalize(r, o)
  PROVE  recorded' = [recorded EXCEPT ![r] = Once(o)] /\ Once(o) \in Seq(Records)
<1>1. recorded[r] = << >>
  BY RequestFacts DEF Recorded
<1>. QED BY <1>1, OnceFacts DEF Finalize, RecordRequest

\* A later one does not.
LEMMA FinalizedBefore ==
  ASSUME IInv, NEW r \in Reqs, pc[r] \in Over, NEW o, Finalize(r, o)
  PROVE  recorded' = recorded
<1>1. recorded[r] \in {Once("completed"), Once("cancelled"), Once("error")}
  BY RequestFacts DEF Recorded
<1>2. recorded[r] # << >>
  BY <1>1, OnceFacts
<1>. QED BY <1>2 DEF Finalize

\* A request that is not over has no record, and any that is over may have
\* been cancelled.
LEMMA RecordedFits ==
  ASSUME NEW r, NEW p, NEW l, NEW b, NEW u, NEW s, NEW o, NEW i, NEW rec, NEW e,
         \/ p \notin Over /\ rec = << >> /\ (b = "dispatched" => l = "held")
         \/ p \in Over /\ rec = Once("cancelled")
  PROVE  Recorded(r, p, l, b, u, s, o, i, rec, e)
<1>1. "done" \in Over
  BY DEF Over
<1>2. CASE p \notin Over /\ rec = << >> /\ (b = "dispatched" => l = "held")
  <2>1. rec # Once("error") /\ rec # Once("completed")
    <3>1. Once("error") # << >> /\ Once("completed") # << >>
      BY OnceFacts
    <3>. QED BY <1>2, <3>1
  <2>. QED BY <1>1, <1>2, <2>1, Zenon DEF Recorded
<1>3. CASE p \in Over /\ rec = Once("cancelled")
  <2>1. rec # Once("error") /\ rec # Once("completed")
    BY <1>3, OnceFacts
  <2>. QED BY <1>3, <2>1, Zenon DEF Recorded
<1>. QED BY <1>2, <1>3

\* The lease of a request is given back.
LEMMA Releases ==
  ASSUME IInv, NEW r \in Reqs, ReleaseLease(r)
  PROVE  \E l \in Leases : /\ lease' = [lease EXCEPT ![r] = l]
                           /\ l = IF lease[r] = "held" THEN "released" ELSE lease[r]
<1>1. lease[r] \in Leases
  BY RequestFacts
<1>. QED BY <1>1 DEF ReleaseLease, Leases

-----------------------------------------------------------------------------
(***************************************************************************)
(* Before the backend.                                                     *)
(***************************************************************************)
\* What a request has before a response is started.
LEMMA EarlyFacts ==
  ASSUME IInv, NEW r \in Reqs, pc[r] \in Early
  PROVE  /\ pc[r] \notin Over /\ pc[r] \notin Relaying
         /\ upstream[r] = "none" /\ status[r] = 0 /\ lease[r] # "orphaned"
         /\ outcome[r] = "none" /\ errors[r] = 0 /\ accounted[r] = 0
         /\ interrupted[r] # "while closing" /\ recorded[r] = << >>
         /\ batch[r] # "none" => Eligible(r)
         /\ pc[r] \in {"idle", "admitting"} => batch[r] = "none"
<1>1. pc[r] \notin Over /\ pc[r] \notin Relaying
  BY DEF Early, Over, Relaying
<1>2. status[r] = 0
  BY RequestFacts DEF Holds
<1>3. upstream[r] = "none" /\ lease[r] # "orphaned"
  <2>1. Holds(r, pc[r], lease[r], batch[r], upstream[r], status[r], interrupted[r])
    BY RequestFacts
  <2>. QED BY <1>2, <2>1, Literals, Zenon DEF Holds, TimedOut
<1>4. interrupted[r] # "while closing"
  BY <1>3, RequestFacts DEF Holds
<1>5. outcome[r] = "none" /\ errors[r] = 0
  BY RequestFacts DEF Counted
<1>6. recorded[r] = << >>
  BY <1>1, RequestFacts DEF Recorded
<1>7. accounted[r] = 0
  <2>1. Covered(r, upstream[r], status[r], interrupted[r], accounted[r])
    BY RequestFacts
  <2>. QED BY <1>2, <1>3, <2>1 DEF Covered
<1>8. /\ batch[r] # "none" => Eligible(r)
      /\ pc[r] \in {"idle", "admitting"} => batch[r] = "none"
  BY RequestFacts DEF Holds
<1>. QED BY <1>1, <1>2, <1>3, <1>4, <1>5, <1>6, <1>7, <1>8

\* Its state fits at each of the places before a response.
LEMMA EarlyFits ==
  ASSUME NEW r, NEW p \in {"admitting", "calling", "opening"}, NEW l \in {"none", "held"},
         NEW b, NEW i, i # "while closing",
         p \in {"calling", "opening"} => l = "held",
         p = "opening" => Streams(r), p = "calling" => ~Streams(r),
         b # "none" => Eligible(r) /\ p = "calling"
  PROVE  Fits(r, p, l, b, "none", 0, "none", i, << >>, 0, 0)
<1>1. Holds(r, p, l, b, "none", 0, i)
  BY Literals, Zenon DEF Holds, TimedOut, Early, Relaying, Unclosed
<1>2. Counted(r, p, l, "none", 0, "none", i, 0)
  BY Literals, Zenon DEF Counted, Unclosed
<1>3. Recorded(r, p, l, b, "none", 0, "none", i, << >>, 0)
  BY RecordedFits, Zenon DEF Over
<1>4. Covered(r, "none", 0, i, 0)
  BY Literals, Zenon DEF Covered
<1>. QED BY <1>1, <1>2, <1>3, <1>4 DEF Fits

\* A request that has got no response goes on.
LEMMA EarlyPreserves ==
  ASSUME IInv, NEW r \in Reqs, pc[r] \in Early,
         NEW p \in Early \ {"idle"}, NEW l \in {"none", "held"}, NEW b \in Batches,
         p \in {"calling", "opening"} => l = "held",
         p = "opening" => Streams(r), p = "calling" => ~Streams(r),
         b # "none" => Eligible(r) /\ p = "calling",
         l = "none" \/ lease[r] = "held" \/ Cardinality(Holding) < GlobalMaxInflight,
         pc' = [pc EXCEPT ![r] = p], lease' = [lease EXCEPT ![r] = l],
         batch' = [batch EXCEPT ![r] = b],
         UNCHANGED <<upstream, status, outcome, interrupted, counts, app>>
  PROVE  IInv'
<1>1. /\ upstream[r] = "none" /\ status[r] = 0 /\ outcome[r] = "none" /\ errors[r] = 0
      /\ interrupted[r] # "while closing" /\ recorded[r] = << >> /\ accounted[r] = 0
  BY EarlyFacts
<1>2. p \in {"admitting", "calling", "opening"}
  BY DEF Early
<1>3. Fits(r, p, l, b, upstream[r], status[r], outcome[r], interrupted[r],
           recorded[r], errors[r], accounted[r])
  <2>1. Fits(r, p, l, b, "none", 0, "none", interrupted[r], << >>, 0, 0)
    BY <1>1, <1>2, EarlyFits
  <2>. QED BY <1>1, <2>1
<1>4. Becomes(r, p, l, b, upstream[r], status[r], outcome[r], interrupted[r],
              recorded[r], errors[r], accounted[r])
  BY <1>2, RequestFacts, Unchanged DEF Becomes, Places, Leases, counts
<1>5. l \notin Slots \/ lease[r] \in Slots \/ Cardinality(Holding) < GlobalMaxInflight
  BY DEF Slots
<1>. QED BY <1>3, <1>4, <1>5, StepPreserves

\* The request goes to admission, gets its lease, and resumes with it.
LEMMA AdmissionPreserves ==
  ASSUME IInv, NEW r \in Reqs, Accept(r) \/ Grant(r) \/ Admit(r)
  PROVE  IInv'
<1>1. CASE Accept(r)
  <2>1. /\ pc[r] = "idle" /\ pc' = [pc EXCEPT ![r] = "admitting"]
        /\ UNCHANGED <<lease, batch, upstream, status, outcome, interrupted, counts, app>>
    BY <1>1 DEF Accept, Goto
  <2>2. lease[r] = "none" /\ batch[r] = "none"
    BY <2>1, RequestFacts DEF Holds
  <2>3. /\ lease' = [lease EXCEPT ![r] = "none"] /\ batch' = [batch EXCEPT ![r] = "none"]
    BY <2>1, <2>2, Unchanged
  <2>. QED BY <2>1, <2>3, EarlyPreserves DEF Early, Batches
<1>2. CASE Grant(r)
  <2>1. /\ pc[r] = "admitting" /\ lease' = [lease EXCEPT ![r] = "held"]
        /\ Cardinality(Holding) < GlobalMaxInflight
        /\ UNCHANGED <<pc, batch, upstream, status, outcome, interrupted, counts, app>>
    BY <1>2 DEF Grant
  <2>2. batch[r] = "none"
    BY <2>1, RequestFacts DEF Holds
  <2>3. /\ pc' = [pc EXCEPT ![r] = "admitting"] /\ batch' = [batch EXCEPT ![r] = "none"]
    BY <2>1, <2>2, Unchanged
  <2>. QED BY <2>1, <2>3, EarlyPreserves DEF Early, Batches
<1>3. CASE Admit(r)
  <2>1. PICK p \in {"calling", "opening"} :
          pc' = [pc EXCEPT ![r] = p] /\ (p = "opening" <=> Streams(r))
    <3>1. CASE Streams(r)
      BY <1>3, <3>1 DEF Admit, Goto, Streams
    <3>2. CASE ~Streams(r)
      BY <1>3, <3>2 DEF Admit, Goto, Streams
    <3>. QED BY <3>1, <3>2
  <2>2. /\ pc[r] = "admitting" /\ lease[r] = "held"
        /\ UNCHANGED <<lease, batch, upstream, status, outcome, interrupted, counts, app>>
    BY <1>3 DEF Admit
  <2>3. batch[r] = "none"
    BY <2>2, RequestFacts DEF Holds
  <2>4. /\ lease' = [lease EXCEPT ![r] = "held"] /\ batch' = [batch EXCEPT ![r] = "none"]
    BY <2>2, <2>3, Unchanged
  <2>5. p \in Early \ {"idle"} /\ pc[r] \in Early
    BY <2>1, <2>2 DEF Early
  <2>. QED BY <2>1, <2>2, <2>4, <2>5, EarlyPreserves DEF Batches
<1>. QED BY <1>1, <1>2, <1>3

\* A response is on its way, or was an unexpected error.
Written(p, rec, e) ==
  \/ p = "sending" /\ rec = << >>
  \/ p = "done" /\ rec = Once("error") /\ e = 1

\* What the middleware has of it.
LEMMA WrittenFits ==
  ASSUME NEW r, NEW p, NEW l, NEW b, NEW s, NEW o, NEW i, NEW rec, NEW e,
         b # "dispatched", Written(p, rec, e)
  PROVE  Recorded(r, p, l, b, "none", s, o, i, rec, e)
<1>1. CASE p = "sending" /\ rec = << >>
  <2>1. p \notin Over
    BY <1>1 DEF Over
  <2>. QED BY <1>1, <2>1, RecordedFits, Zenon
<1>2. CASE p = "done" /\ rec = Once("error") /\ e = 1
  <2>1. p \in Over /\ Once("completed") # Once("error") /\ Once("cancelled") # Once("error")
    BY <1>2, OnceFacts DEF Over
  <2>. QED BY <1>2, <2>1, Zenon DEF Recorded
<1>. QED BY <1>1, <1>2 DEF Written

\* The batch of the request is over, if it was in one.
BatchOver(r, b) == b # "dispatched" /\ (b # "none" => Eligible(r))

\* A response that is not a 200.
Refusal(r, l, b, s, i, e) ==
  /\ s # 200 /\ s # 0 /\ l # "held" /\ TimedOut(l, s) /\ i # "while closing"
  /\ BatchOver(r, b) /\ e \in {0, 1} /\ Answer(r, l, s, "none", i, e)

\* It fits when it is sent and when it is over.
LEMMA ErrorFits ==
  ASSUME NEW r, NEW p \in {"sending", "done"}, NEW l, NEW b, NEW s, NEW i,
         NEW rec, NEW e, Refusal(r, l, b, s, i, e), Written(p, rec, e)
  PROVE  Fits(r, p, l, b, "none", s, "none", i, rec, e, 0)
<1>1. Holds(r, p, l, b, "none", s, i)
  BY Zenon DEF Holds, Early, Relaying, Unclosed, Refusal, BatchOver
<1>2. Counted(r, p, l, "none", s, "none", i, e)
  BY Zenon DEF Counted, Early, Unclosed, Refusal
<1>3. Recorded(r, p, l, b, "none", s, "none", i, rec, e)
  <2>1. b # "dispatched"
    BY DEF Refusal, BatchOver
  <2>. QED BY <2>1, WrittenFits
<1>4. Covered(r, "none", s, i, 0)
  <2>1. s # 200
    BY DEF Refusal
  <2>. QED BY <2>1, Literals, Zenon DEF Covered
<1>. QED BY <1>1, <1>2, <1>3, <1>4 DEF Fits

\* An error ends a request that has no stream: its handler counts the error.
LEMMA ErrorPreserves ==
  ASSUME IInv, NEW r \in Reqs, pc[r] \in Early, batch[r] # "dispatched",
         NEW s \in Statuses, s \in Nat, s >= 400,
         NEW l \in Leases, l # "held", TimedOut(l, s),
         l \in Slots => lease[r] \in Slots, lease' = [lease EXCEPT ![r] = l],
         pc' = [pc EXCEPT ![r] = "sending"], status' = [status EXCEPT ![r] = s],
         errors' = [errors EXCEPT ![r] = 1],
         UNCHANGED <<batch, upstream, outcome, interrupted, recorded, accounted, app>>
  PROVE  IInv'
<1>1. /\ upstream[r] = "none" /\ status[r] = 0 /\ outcome[r] = "none" /\ errors[r] = 0
      /\ interrupted[r] # "while closing" /\ recorded[r] = << >> /\ accounted[r] = 0
  BY EarlyFacts
<1>2. batch[r] # "none" => Eligible(r)
  BY EarlyFacts
<1>4. Fits(r, "sending", l, batch[r], upstream[r], s, outcome[r], interrupted[r],
           recorded[r], 1, accounted[r])
  <2>1. s # 200 /\ s # 0 /\ Answer(r, l, s, "none", interrupted[r], 1)
    BY DEF Answer
  <2>2. Fits(r, "sending", l, batch[r], "none", s, "none", interrupted[r], << >>, 1, 0)
    <3>1. Refusal(r, l, batch[r], s, interrupted[r], 1)
      BY <1>1, <1>2, <2>1, Zenon DEF Refusal, BatchOver
    <3>2. Written("sending", << >>, 1)
      BY DEF Written
    <3>. QED BY <3>1, <3>2, ErrorFits, Zenon
  <2>. QED BY <1>1, <2>2
<1>5. Becomes(r, "sending", l, batch[r], upstream[r], s, outcome[r], interrupted[r],
              recorded[r], 1, accounted[r])
  BY RequestFacts, Unchanged DEF Becomes, Places
<1>. QED BY <1>4, <1>5, StepPreserves

\* The error handlers answer so.
LEMMA RespondPreserves ==
  ASSUME IInv, NEW r \in Reqs, pc[r] \in Early, batch[r] # "dispatched",
         NEW code \in DOMAIN StatusOf, Respond(r, code),
         NEW l \in Leases, l # "held", TimedOut(l, StatusOf[code]),
         l \in Slots => lease[r] \in Slots, lease' = [lease EXCEPT ![r] = l],
         UNCHANGED <<batch, upstream, outcome, interrupted, recorded, accounted, app>>
  PROVE  IInv'
<1>1. PICK s \in Statuses : s = StatusOf[code] /\ s \in Nat /\ s >= 400
  BY StatusFacts
<1>2. TimedOut(l, s)
  BY <1>1
<1>3. /\ pc' = [pc EXCEPT ![r] = "sending"] /\ status' = [status EXCEPT ![r] = s]
      /\ errors' = [errors EXCEPT ![r] = 1]
  <2>1. errors[r] = 0
    BY EarlyFacts
  <2>. QED BY <1>1, <2>1 DEF Respond, RecordError, Goto
<1>. QED BY <1>1, <1>2, <1>3, ErrorPreserves

\* A request is refused before or by admission.
LEMMA RefusalPreserves ==
  ASSUME IInv, NEW r \in Reqs, AuthenticationFails(r) \/ Reject(r) \/ AdmissionFails(r)
  PROVE  IInv'
<1>1. /\ pc[r] \in {"idle", "admitting"} /\ pc[r] \in Early
      /\ UNCHANGED <<batch, upstream, outcome, interrupted, recorded, accounted, app>>
  BY DEF AuthenticationFails, Reject, AdmissionFails, Early
<1>2. batch[r] = "none" /\ lease[r] # "orphaned" /\ lease[r] \in Leases
  BY <1>1, EarlyFacts, RequestFacts
<1>3. CASE AuthenticationFails(r) \/ Reject(r)
  <2>1. pc[r] = "idle" /\ UNCHANGED lease
    BY <1>3 DEF AuthenticationFails, Reject
  <2>2. lease[r] = "none"
    BY <2>1, RequestFacts DEF Holds
  <2>3. lease' = [lease EXCEPT ![r] = "none"]
    BY <2>1, <2>2, Unchanged
  <2>4. PICK code \in DOMAIN StatusOf : Respond(r, code)
    BY <1>3, CodeFacts DEF AuthenticationFails, Reject
  <2>5. TimedOut("none", StatusOf[code])
    BY DEF TimedOut
  <2>. QED BY <1>1, <1>2, <2>3, <2>4, <2>5, RespondPreserves DEF Leases, Slots
<1>4. CASE AdmissionFails(r) /\ lease[r] = "held"
  <2>1. Respond(r, "admission_timeout") /\ lease' = [lease EXCEPT ![r] = "orphaned"]
    BY <1>4 DEF AdmissionFails
  <2>2. TimedOut("orphaned", StatusOf["admission_timeout"])
    BY CodeFacts DEF TimedOut
  <2>. QED BY <1>1, <1>2, <1>4, <2>1, <2>2, CodeFacts, RespondPreserves DEF Leases, Slots
<1>5. CASE AdmissionFails(r) /\ lease[r] # "held"
  <2>1. PICK code \in AdmissionErrors : Respond(r, code)
    BY <1>5 DEF AdmissionFails
  <2>2. lease' = [lease EXCEPT ![r] = lease[r]]
    BY <1>5 DEF AdmissionFails
  <2>3. code \in DOMAIN StatusOf
    BY <2>1, CodeFacts
  <2>4. TimedOut(lease[r], StatusOf[code])
    BY <1>2 DEF TimedOut
  <2>. QED BY <1>1, <1>2, <1>5, <2>1, <2>2, <2>3, <2>4, RespondPreserves
<1>. QED BY <1>3, <1>4, <1>5

\* The framework refuses a body that it cannot decode, and counts nothing.
LEMMA UnreadablePreserves ==
  ASSUME IInv, NEW r \in Reqs, Unreadable(r)
  PROVE  IInv'
<1>1. /\ pc[r] = "idle" /\ pc' = [pc EXCEPT ![r] = "sending"]
      /\ status' = [status EXCEPT ![r] = 400]
      /\ UNCHANGED <<lease, batch, upstream, outcome, interrupted, counts, app>>
  BY DEF Unreadable, Goto
<1>2. /\ upstream[r] = "none" /\ outcome[r] = "none" /\ errors[r] = 0 /\ accounted[r] = 0
      /\ interrupted[r] # "while closing" /\ recorded[r] = << >> /\ batch[r] = "none"
  BY <1>1, EarlyFacts DEF Early
<1>3. lease[r] = "none"
  BY <1>1, RequestFacts DEF Holds
<1>4. Fits(r, "sending", lease[r], batch[r], upstream[r], 400, outcome[r], interrupted[r],
           recorded[r], errors[r], accounted[r])
  <2>1. /\ Answer(r, lease[r], 400, "none", interrupted[r], 0) /\ TimedOut(lease[r], 400)
        /\ lease[r] # "held"
    BY <1>3, Zenon DEF Answer, TimedOut
  <2>2. Refusal(r, lease[r], batch[r], 400, interrupted[r], 0)
    BY <1>2, <2>1, Literals, Zenon DEF Refusal, BatchOver
  <2>3. Fits(r, "sending", lease[r], batch[r], "none", 400, "none", interrupted[r], << >>, 0, 0)
    <3>1. Written("sending", << >>, 0)
      BY DEF Written
    <3>. QED BY <2>2, <3>1, ErrorFits, Zenon
  <2>. QED BY <1>2, <2>3
<1>5. Becomes(r, "sending", lease[r], batch[r], upstream[r], 400, outcome[r], interrupted[r],
              recorded[r], errors[r], accounted[r])
  BY <1>1, RequestFacts, Unchanged, StatusFacts DEF Becomes, Places, counts
<1>6. lease[r] \notin Slots
  BY <1>3 DEF Slots
<1>. QED BY <1>4, <1>5, <1>6, StepPreserves

-----------------------------------------------------------------------------
(***************************************************************************)
(* At the batcher or the backend.                                          *)
(***************************************************************************)
\* The batch of the request is dispatched.
LEMMA DispatchBatchPreserves ==
  ASSUME IInv, NEW r \in Reqs, DispatchBatch(r)
  PROVE  IInv'
<1>1. /\ pc[r] = "calling" /\ Eligible(r) /\ batch' = [batch EXCEPT ![r] = "dispatched"]
      /\ UNCHANGED <<pc, lease, upstream, status, outcome, interrupted, counts, app>>
  BY DEF DispatchBatch
<1>2. lease[r] = "held" /\ ~Streams(r)
  BY <1>1, RequestFacts DEF Holds
<1>3. pc' = [pc EXCEPT ![r] = "calling"] /\ lease' = [lease EXCEPT ![r] = "held"]
  BY <1>1, <1>2, Unchanged
<1>. QED BY <1>1, <1>2, <1>3, EarlyPreserves DEF Early, Batches

\* The end of a batch asks less of a request.
LEMMA BatchEndFits ==
  ASSUME NEW r, NEW p, NEW l, NEW u, NEW s, NEW o, NEW i, NEW rec, NEW e, NEW a,
         Fits(r, p, l, "dispatched", u, s, o, i, rec, e, a)
  PROVE  Fits(r, p, l, "ended", u, s, o, i, rec, e, a)
<1>1. Holds(r, p, l, "ended", u, s, i)
  BY Zenon DEF Fits, Holds
<1>2. Recorded(r, p, l, "ended", u, s, o, i, rec, e)
  BY Zenon DEF Fits, Recorded
<1>. QED BY <1>1, <1>2 DEF Fits

\* The batch ends, whether or not the request still waits for it.
LEMMA BatchEndsPreserves ==
  ASSUME IInv, NEW r \in Reqs, BatchEnds(r)
  PROVE  IInv'
<1>1. /\ batch[r] = "dispatched" /\ batch' = [batch EXCEPT ![r] = "ended"]
      /\ UNCHANGED <<pc, lease, upstream, status, outcome, interrupted, counts, app>>
  BY DEF BatchEnds
<1>2. Fits(r, pc[r], lease[r], "ended", upstream[r], status[r], outcome[r],
           interrupted[r], recorded[r], errors[r], accounted[r])
  <2>1. Fits(r, pc[r], lease[r], "dispatched", upstream[r], status[r], outcome[r],
             interrupted[r], recorded[r], errors[r], accounted[r])
    BY <1>1 DEF IInv, Local
  <2>. QED BY <2>1, BatchEndFits
<1>3. Becomes(r, pc[r], lease[r], "ended", upstream[r], status[r], outcome[r],
              interrupted[r], recorded[r], errors[r], accounted[r])
  BY <1>1, RequestFacts, Unchanged DEF Becomes, Batches, counts
<1>. QED BY <1>2, <1>3, StepPreserves

\* What a request has when its call is answered.
LEMMA AnsweredFacts ==
  ASSUME IInv, NEW r \in Reqs, pc[r] \in {"calling", "opening"}
  PROVE  /\ pc[r] \in Early /\ pc[r] \notin Over /\ lease[r] = "held"
         /\ Answered(r) => BatchOver(r, batch[r])
         /\ pc[r] = "calling" => ~Streams(r)
<1>1. pc[r] \in Early /\ pc[r] \notin Over
  BY DEF Early, Over
<1>2. lease[r] = "held" /\ (batch[r] # "none" => Eligible(r)) /\ (pc[r] = "calling" => ~Streams(r))
  BY RequestFacts DEF Holds
<1>3. Answered(r) => BatchOver(r, batch[r])
  BY <1>2 DEF Answered, BatchOver
<1>. QED BY <1>1, <1>2, <1>3

\* The usage of an answer, which a direct one has.
Usage(r, a) == a \in {0, 1} /\ (a = 0 <=> Eligible(r))

\* One or none.
LEMMA UsageCases ==
  ASSUME NEW r, NEW a, Usage(r, a)
  PROVE  a \in {0, 1} /\ (a = 1 => ~Eligible(r)) /\ (~Eligible(r) => a = 1)
<1>1. a = 0 \/ a = 1
  BY Zenon DEF Usage
<1>2. a = 0 <=> Eligible(r)
  BY Zenon DEF Usage
<1>3. CASE a = 0
  <2>1. a # 1
    BY <1>3
  <2>. QED BY <1>2, <1>3, <2>1, Zenon
<1>4. CASE a = 1
  <2>1. a # 0
    BY <1>4
  <2>. QED BY <1>2, <1>4, <2>1, Zenon
<1>. QED BY <1>1, <1>3, <1>4

\* The route records it.
LEMMA UsageFacts ==
  ASSUME IInv, NEW r \in Reqs, pc[r] = "calling", RecordTokenAccounting(r, DirectUsage(r))
  PROVE  \E a \in {0, 1} : Usage(r, a) /\ accounted' = [accounted EXCEPT ![r] = a]
<1>1. accounted[r] = 0
  BY EarlyFacts DEF Early
<1>2. CASE Eligible(r)
  <2>1. Usage(r, 0) /\ accounted' = [accounted EXCEPT ![r] = 0]
    BY <1>1, <1>2 DEF DirectUsage, RecordTokenAccounting, Usage
  <2>. QED BY <2>1
<1>3. CASE ~Eligible(r)
  <2>1. Usage(r, 1) /\ accounted' = [accounted EXCEPT ![r] = 1]
    BY <1>1, <1>3 DEF DirectUsage, RecordTokenAccounting, Usage
  <2>. QED BY <2>1
<1>. QED BY <1>2, <1>3

\* An answer that is sent fits.
LEMMA AnswerFits ==
  ASSUME NEW r, NEW b, NEW i, NEW a, ~Streams(r), BatchOver(r, b), i # "while closing",
         Usage(r, a)
  PROVE  Fits(r, "sending", "released", b, "none", 200, "none", i, << >>, 0, a)
<1>1. Holds(r, "sending", "released", b, "none", 200, i)
  BY Literals, Zenon DEF Holds, TimedOut, Early, Relaying, Unclosed, BatchOver
<1>2. Counted(r, "sending", "released", "none", 200, "none", i, 0)
  BY Zenon DEF Counted, Answer, Early, Unclosed
<1>3. Recorded(r, "sending", "released", b, "none", 200, "none", i, << >>, 0)
  <2>1. b # "dispatched" /\ Written("sending", << >>, 0)
    BY DEF BatchOver, Written
  <2>. QED BY <2>1, WrittenFits, Zenon
<1>4. Covered(r, "none", 200, i, a)
  <2>1. a \in {0, 1} /\ (a = 1 => ~Eligible(r)) /\ (~Eligible(r) => a = 1)
    BY UsageCases
  <2>2. ~Streams(r) => Covered(r, "none", 200, i, a)
    BY <2>1, Literals, Zenon DEF Covered
  <2>. QED BY <2>2
<1>. QED BY <1>1, <1>2, <1>3, <1>4 DEF Fits

\* So does one that cannot be rendered.
LEMMA UnrenderedFits ==
  ASSUME NEW r, NEW b, NEW i, NEW a, ~Streams(r), BatchOver(r, b), i # "while closing",
         Usage(r, a)
  PROVE  Fits(r, "done", "released", b, "none", 500, "none", i, Once("error"), 1, a)
<1>1. Holds(r, "done", "released", b, "none", 500, i)
  BY Literals, Zenon DEF Holds, TimedOut, Early, Relaying, Unclosed, BatchOver
<1>2. Counted(r, "done", "released", "none", 500, "none", i, 1)
  BY Zenon DEF Counted, Early, Unclosed
<1>3. Recorded(r, "done", "released", b, "none", 500, "none", i, Once("error"), 1)
  <2>1. b # "dispatched" /\ Written("done", Once("error"), 1)
    BY DEF BatchOver, Written
  <2>. QED BY <2>1, WrittenFits, Zenon
<1>4. Covered(r, "none", 500, i, a)
  <2>1. a \in {0, 1} /\ (a = 1 => ~Eligible(r)) /\ (~Eligible(r) => a = 1)
    BY UsageCases
  <2>2. ~Streams(r) => Covered(r, "none", 500, i, a)
    BY <2>1, Literals, Zenon DEF Covered
  <2>. QED BY <2>2
<1>. QED BY <1>1, <1>2, <1>3, <1>4 DEF Fits

\* The call is answered.
LEMMA CallReturnsPreserves ==
  ASSUME IInv, NEW r \in Reqs, CallReturns(r)
  PROVE  IInv'
<1>1. /\ pc[r] = "calling" /\ pc' = [pc EXCEPT ![r] = "sending"] /\ Answered(r)
      /\ status' = [status EXCEPT ![r] = 200] /\ ReleaseLease(r)
      /\ RecordTokenAccounting(r, DirectUsage(r))
      /\ UNCHANGED <<batch, upstream, outcome, interrupted, recorded, errors, app>>
  BY DEF CallReturns, Goto
<1>2. /\ pc[r] \in Early /\ lease[r] = "held" /\ ~Streams(r)
  BY <1>1, AnsweredFacts
<1>3. BatchOver(r, batch[r])
  BY <1>1, AnsweredFacts
<1>4. /\ upstream[r] = "none" /\ outcome[r] = "none" /\ errors[r] = 0
      /\ interrupted[r] # "while closing" /\ recorded[r] = << >>
  BY <1>2, EarlyFacts
<1>5. lease' = [lease EXCEPT ![r] = "released"]
  BY <1>1, <1>2, Releases
<1>6. PICK a \in {0, 1} : Usage(r, a) /\ accounted' = [accounted EXCEPT ![r] = a]
  BY <1>1, UsageFacts
<1>7. Fits(r, "sending", "released", batch[r], upstream[r], 200, outcome[r], interrupted[r],
           recorded[r], errors[r], a)
  <2>1. Fits(r, "sending", "released", batch[r], "none", 200, "none", interrupted[r],
             << >>, 0, a)
    BY <1>2, <1>3, <1>4, <1>6, AnswerFits, Zenon
  <2>. QED BY <1>4, <2>1
<1>8. Becomes(r, "sending", "released", batch[r], upstream[r], 200, outcome[r], interrupted[r],
              recorded[r], errors[r], a)
  <2>1. a \in Nat /\ 200 \in Statuses
    BY <1>6, StatusFacts
  <2>. QED BY <1>1, <1>5, <1>6, <2>1, RequestFacts, Unchanged DEF Becomes, Places, Leases
<1>9. "released" \notin Slots
  BY DEF Slots
<1>. QED BY <1>7, <1>8, <1>9, StepPreserves

\* unexpected_error_handler, in the form that StepPreserves has.
LEMMA UnexpectedFacts ==
  ASSUME IInv, NEW r \in Reqs, pc[r] \in Early, Unexpected(r)
  PROVE  /\ pc' = [pc EXCEPT ![r] = "done"]
         /\ status' = [status EXCEPT ![r] = 500]
         /\ errors' = [errors EXCEPT ![r] = 1]
         /\ recorded' = [recorded EXCEPT ![r] = Once("error")] /\ Once("error") \in Seq(Records)
<1>1. errors[r] = 0 /\ pc[r] \notin Over
  BY EarlyFacts
<1>2. Finalize(r, "error")
  BY DEF Unexpected
<1>3. errors' = [errors EXCEPT ![r] = 1]
  <2>1. errors[r] + 1 = 1
    BY <1>1
  <2>. QED BY <2>1 DEF Unexpected, RecordError
<1>4. recorded' = [recorded EXCEPT ![r] = Once("error")] /\ Once("error") \in Seq(Records)
  BY <1>1, <1>2, Finalizes DEF Records
<1>. QED BY <1>3, <1>4 DEF Unexpected, Goto

\* The answer cannot be rendered.
LEMMA RenderFailsPreserves ==
  ASSUME IInv, NEW r \in Reqs, RenderFails(r)
  PROVE  IInv'
<1>1. /\ pc[r] = "calling" /\ Answered(r) /\ ReleaseLease(r) /\ Unexpected(r)
      /\ RecordTokenAccounting(r, DirectUsage(r))
      /\ UNCHANGED <<batch, upstream, outcome, interrupted, app>>
  BY DEF RenderFails
<1>2. /\ pc[r] \in Early /\ lease[r] = "held" /\ ~Streams(r)
  BY <1>1, AnsweredFacts
<1>3. BatchOver(r, batch[r])
  BY <1>1, AnsweredFacts
<1>4. upstream[r] = "none" /\ outcome[r] = "none" /\ interrupted[r] # "while closing"
  BY <1>2, EarlyFacts
<1>5. lease' = [lease EXCEPT ![r] = "released"]
  BY <1>1, <1>2, Releases
<1>6. PICK a \in {0, 1} : Usage(r, a) /\ accounted' = [accounted EXCEPT ![r] = a]
  BY <1>1, UsageFacts
<1>7. Fits(r, "done", "released", batch[r], upstream[r], 500, outcome[r], interrupted[r],
           Once("error"), 1, a)
  <2>1. Fits(r, "done", "released", batch[r], "none", 500, "none", interrupted[r],
             Once("error"), 1, a)
    BY <1>2, <1>3, <1>4, <1>6, UnrenderedFits, Zenon
  <2>. QED BY <1>4, <2>1
<1>8. Becomes(r, "done", "released", batch[r], upstream[r], 500, outcome[r], interrupted[r],
              Once("error"), 1, a)
  <2>1. a \in Nat /\ 500 \in Statuses /\ 1 \in Nat
    BY <1>6, StatusFacts
  <2>2. /\ pc' = [pc EXCEPT ![r] = "done"]
        /\ status' = [status EXCEPT ![r] = 500]
        /\ errors' = [errors EXCEPT ![r] = 1]
        /\ recorded' = [recorded EXCEPT ![r] = Once("error")] /\ Once("error") \in Seq(Records)
    BY <1>1, <1>2, UnexpectedFacts
  <2>. QED BY <1>1, <1>5, <1>6, <2>1, <2>2, RequestFacts, Unchanged DEF Becomes, Places, Leases
<1>9. "released" \notin Slots
  BY DEF Slots
<1>. QED BY <1>7, <1>8, <1>9, StepPreserves

\* The call raises an error of the gateway, or another exception.
LEMMA CallFailsPreserves ==
  ASSUME IInv, NEW r \in Reqs, CallFails(r)
  PROVE  IInv'
<1>1. /\ pc[r] \in {"calling", "opening"} /\ ReleaseLease(r)
      /\ UNCHANGED <<batch, upstream, outcome, interrupted, accounted, app>>
  BY DEF CallFails
<1>2. pc[r] \in Early /\ lease[r] = "held"
  BY <1>1, AnsweredFacts
<1>3. lease' = [lease EXCEPT ![r] = "released"]
  BY <1>1, <1>2, Releases
<1>4. "released" \notin Slots /\ "released" \in Leases
  BY DEF Slots, Leases
<1>5. ASSUME NEW code \in CallErrors(r), batch[r] # "dispatched", Respond(r, code),
             UNCHANGED recorded
      PROVE  IInv'
  <2>1. TimedOut("released", StatusOf[code])
    BY DEF TimedOut
  <2>2. code \in DOMAIN StatusOf
    BY <1>5, CodeFacts
  <2>. QED BY <1>1, <1>2, <1>3, <1>4, <1>5, <2>1, <2>2, RespondPreserves
<1>6. CASE Answered(r) /\ Unexpected(r)
  <2>1. /\ upstream[r] = "none" /\ outcome[r] = "none" /\ interrupted[r] # "while closing"
        /\ accounted[r] = 0
    BY <1>2, EarlyFacts
  <2>2. BatchOver(r, batch[r])
    BY <1>1, <1>6, AnsweredFacts
  <2>3. Fits(r, "done", "released", batch[r], upstream[r], 500, outcome[r], interrupted[r],
             Once("error"), 1, accounted[r])
    <3>1. 500 # 200 /\ 500 # 0 /\ 500 >= 400 /\ 1 \in {0, 1}
      OBVIOUS
    <3>2. /\ TimedOut("released", 500) /\ Answer(r, "released", 500, "none", interrupted[r], 1)
          /\ Written("done", Once("error"), 1)
      BY <3>1, Zenon DEF TimedOut, Answer, Written
    <3>3. Fits(r, "done", "released", batch[r], "none", 500, "none", interrupted[r],
               Once("error"), 1, 0)
      <4>1. Refusal(r, "released", batch[r], 500, interrupted[r], 1)
        BY <2>1, <2>2, <3>1, <3>2, Zenon DEF Refusal
      <4>. QED BY <3>2, <4>1, ErrorFits, Zenon
    <3>. QED BY <2>1, <3>3
  <2>4. Becomes(r, "done", "released", batch[r], upstream[r], 500, outcome[r], interrupted[r],
                Once("error"), 1, accounted[r])
    <3>1. /\ pc' = [pc EXCEPT ![r] = "done"]
          /\ status' = [status EXCEPT ![r] = 500]
          /\ errors' = [errors EXCEPT ![r] = 1]
          /\ recorded' = [recorded EXCEPT ![r] = Once("error")] /\ Once("error") \in Seq(Records)
      BY <1>2, <1>6, UnexpectedFacts
    <3>. QED BY <1>1, <1>3, <1>4, <3>1, RequestFacts, Unchanged, StatusFacts DEF Becomes, Places
  <2>. QED BY <1>4, <2>3, <2>4, StepPreserves
<1>7. (\E code \in CallErrors(r) : batch[r] # "dispatched" /\ Respond(r, code) /\ UNCHANGED recorded)
        \/ (Answered(r) /\ Unexpected(r))
  BY DEF CallFails
<1>. QED BY <1>5, <1>6, <1>7

\* A request that is cancelled before it has a response fits.
LEMMA CancelledFits ==
  ASSUME NEW r, NEW l, NEW b, NEW i, l \notin Slots, b # "none" => Eligible(r),
         i # "while closing"
  PROVE  Fits(r, "done", l, b, "none", 0, "none", i, Once("cancelled"), 0, 0)
<1>1. Holds(r, "done", l, b, "none", 0, i)
  BY Literals, Zenon DEF Holds, TimedOut, Early, Relaying, Unclosed, Slots
<1>2. Counted(r, "done", l, "none", 0, "none", i, 0)
  BY Zenon DEF Counted, Early, Unclosed
<1>3. Recorded(r, "done", l, b, "none", 0, "none", i, Once("cancelled"), 0)
  BY RecordedFits, Zenon DEF Over
<1>4. Covered(r, "none", 0, i, 0)
  BY Literals, Zenon DEF Covered
<1>. QED BY <1>1, <1>2, <1>3, <1>4 DEF Fits

\* The task is cancelled before a response is started.
LEMMA CallCancelledPreserves ==
  ASSUME IInv, NEW r \in Reqs, CallCancelled(r)
  PROVE  IInv'
<1>1. /\ pc[r] \in Early /\ ReleaseLease(r)
      /\ Finalize(r, "cancelled") /\ pc' = [pc EXCEPT ![r] = "done"]
      /\ UNCHANGED <<batch, upstream, status, outcome, interrupted, errors, accounted, app>>
  BY DEF CallCancelled, Goto, Early
<1>2. /\ upstream[r] = "none" /\ status[r] = 0 /\ outcome[r] = "none" /\ errors[r] = 0
      /\ accounted[r] = 0 /\ interrupted[r] # "while closing" /\ pc[r] \notin Over
      /\ lease[r] # "orphaned"
  BY <1>1, EarlyFacts
<1>3. batch[r] # "none" => Eligible(r)
  BY <1>1, EarlyFacts
<1>4. PICK l \in Leases : lease' = [lease EXCEPT ![r] = l] /\ l \notin Slots
  BY <1>1, <1>2, Releases DEF Slots
<1>5. recorded' = [recorded EXCEPT ![r] = Once("cancelled")] /\ Once("cancelled") \in Seq(Records)
  BY <1>1, <1>2, Finalizes DEF Records
<1>6. Fits(r, "done", l, batch[r], upstream[r], status[r], outcome[r], interrupted[r],
           Once("cancelled"), errors[r], accounted[r])
  <2>1. Fits(r, "done", l, batch[r], "none", 0, "none", interrupted[r], Once("cancelled"), 0, 0)
    BY <1>2, <1>3, <1>4, CancelledFits
  <2>. QED BY <1>2, <2>1
<1>7. Becomes(r, "done", l, batch[r], upstream[r], status[r], outcome[r], interrupted[r],
              Once("cancelled"), errors[r], accounted[r])
  BY <1>1, <1>4, <1>5, RequestFacts, Unchanged DEF Becomes, Places
<1>. QED BY <1>4, <1>6, <1>7, StepPreserves

-----------------------------------------------------------------------------
(***************************************************************************)
(* The relay.                                                              *)
(***************************************************************************)
\* A request has no record, or was recorded as cancelled when it left.
Ends(p, rec) ==
  \/ p = "sending" /\ rec = << >>
  \/ p = "done" /\ rec = Once("cancelled")

\* A stream that is not closed, with the relay or left to the event loop.
LEMMA OpenFits ==
  ASSUME NEW r, NEW p, NEW u, NEW i, NEW rec, Streams(r), i # "while closing",
         \/ p \in {"pulling", "pushing"} /\ u = "open" /\ rec = << >>
         \/ p = "closing" /\ u = "open" /\ rec = << >>
         \/ p = "closing" /\ u = "abandoned" /\ i # "scope" /\ rec = << >>
         \/ p = "done" /\ u = "abandoned" /\ i # "scope" /\ rec = Once("cancelled")
  PROVE  Fits(r, p, "held", "none", u, 200, "none", i, rec, 0, 0)
<1>1. /\ p \in Relaying \cup {"done"} /\ u \in Unclosed
      /\ p \in {"pulling", "pushing"} => u = "open"
      /\ u = "open" => p \in Relaying
      /\ u = "abandoned" => p \in {"closing", "done"} /\ i # "scope"
  BY DEF Relaying, Unclosed
<1>2. p \notin Early /\ p # "sending" /\ u # "closed" /\ u # "none"
  BY <1>1 DEF Early, Relaying, Unclosed
<1>3. Holds(r, p, "held", "none", u, 200, i)
  <2>1. p # "idle" /\ p # "opening" /\ p # "calling"
    BY <1>2 DEF Early
  <2>. QED BY <1>1, <1>2, <2>1, Zenon DEF Holds, TimedOut
<1>4. Counted(r, p, "held", u, 200, "none", i, 0)
  BY <1>2, Zenon DEF Counted
<1>5. Recorded(r, p, "held", "none", u, 200, "none", i, rec, 0)
  <2>1. \/ p \notin Over /\ rec = << >>
        \/ p \in Over /\ rec = Once("cancelled")
    BY DEF Over
  <2>. QED BY <2>1, RecordedFits, Zenon
<1>6. Covered(r, u, 200, i, 0)
  BY <1>2, Literals, Zenon DEF Covered
<1>. QED BY <1>3, <1>4, <1>5, <1>6 DEF Fits

\* What a request has until its stream is closed.
LEMMA OpenFacts ==
  ASSUME IInv, NEW r \in Reqs, upstream[r] \in Unclosed
  PROVE  /\ Streams(r) /\ status[r] = 200 /\ lease[r] = "held" /\ batch[r] = "none"
         /\ errors[r] = 0 /\ outcome[r] = "none" /\ accounted[r] = 0
         /\ interrupted[r] # "while closing" /\ pc[r] # "sending"
         /\ \/ pc[r] \notin Over /\ recorded[r] = << >>
            \/ pc[r] = "done" /\ recorded[r] = Once("cancelled")
<1>1. upstream[r] # "none" /\ upstream[r] # "closed"
  BY DEF Unclosed
<1>2. Holds(r, pc[r], lease[r], batch[r], upstream[r], status[r], interrupted[r])
  BY RequestFacts
<1>3. /\ Streams(r) /\ status[r] = 200 /\ lease[r] = "held"
      /\ interrupted[r] # "while closing"
  BY <1>1, <1>2 DEF Holds
<1>4. batch[r] = "none"
  BY <1>2, <1>3, EligibleFacts DEF Holds
<1>5. errors[r] = 0 /\ outcome[r] = "none"
  BY RequestFacts DEF Counted
<1>6. accounted[r] = 0
  <2>1. Covered(r, upstream[r], status[r], interrupted[r], accounted[r])
    BY RequestFacts
  <2>. QED BY <1>1, <1>3, <2>1 DEF Covered
<1>7. pc[r] \in Relaying \/ (pc[r] = "done" /\ upstream[r] = "abandoned")
  BY <1>2 DEF Holds, Unclosed, Relaying
<1>8. pc[r] # "sending"
  BY <1>7 DEF Relaying
<1>9. \/ pc[r] \notin Over /\ recorded[r] = << >>
      \/ pc[r] = "done" /\ recorded[r] = Once("cancelled")
  BY <1>7, RequestFacts DEF Recorded, Relaying, Over
<1>. QED BY <1>3, <1>4, <1>5, <1>6, <1>8, <1>9

\* The backend stream is open.
LEMMA StreamOpenedPreserves ==
  ASSUME IInv, NEW r \in Reqs, StreamOpened(r)
  PROVE  IInv'
<1>1. /\ pc[r] = "opening" /\ pc' = [pc EXCEPT ![r] = "pushing"]
      /\ upstream' = [upstream EXCEPT ![r] = "open"]
      /\ status' = [status EXCEPT ![r] = 200]
      /\ UNCHANGED <<lease, batch, outcome, interrupted, counts, app>>
  BY DEF StreamOpened, Goto
<1>2. /\ outcome[r] = "none" /\ errors[r] = 0 /\ accounted[r] = 0
      /\ interrupted[r] # "while closing" /\ recorded[r] = << >>
  BY <1>1, EarlyFacts DEF Early
<1>3. Streams(r) /\ lease[r] = "held"
  BY <1>1, RequestFacts DEF Holds
<1>4. batch[r] = "none"
  BY <1>3, RequestFacts, EligibleFacts DEF Holds
<1>5. Fits(r, "pushing", lease[r], batch[r], "open", 200, outcome[r], interrupted[r],
           recorded[r], errors[r], accounted[r])
  <2>1. Fits(r, "pushing", "held", "none", "open", 200, "none", interrupted[r], << >>, 0, 0)
    BY <1>2, <1>3, OpenFits
  <2>. QED BY <1>2, <1>3, <1>4, <2>1
<1>6. Becomes(r, "pushing", lease[r], batch[r], "open", 200, outcome[r], interrupted[r],
              recorded[r], errors[r], accounted[r])
  BY <1>1, RequestFacts, Unchanged, StatusFacts DEF Becomes, Places, Upstreams, counts
<1>7. lease[r] \in Slots
  BY <1>3 DEF Slots
<1>. QED BY <1>5, <1>6, <1>7, StepPreserves

\* The relay goes on to p, interrupted by i, and its stream is not closed.
Relays(r, p, u, i) ==
  /\ pc' = [pc EXCEPT ![r] = p] /\ upstream' = [upstream EXCEPT ![r] = u]
  /\ interrupted' = [interrupted EXCEPT ![r] = i]
  /\ i \in Interrupts /\ i # "while closing"
  /\ \/ p \in {"pulling", "pushing"} /\ u = "open"
     \/ p = "closing" /\ u = "open"
     \/ p = "closing" /\ u = "abandoned" /\ i # "scope"

\* A chunk is sent or arrives, or the response gives up: the stream stays open.
LEMMA RelayingPreserves ==
  ASSUME IInv, NEW r \in Reqs,
         \/ ChunkSent(r) \/ ChunkArrives(r)
         \/ \E how \in Interruptions : PullCloses(r, how) \/ PushInterrupted(r, how)
  PROVE  IInv'
<1>1. /\ pc[r] \in {"pulling", "pushing"}
      /\ UNCHANGED <<lease, batch, status, outcome, counts, app>>
  BY DEF ChunkSent, ChunkArrives, PullCloses, PushInterrupted
<1>2. upstream[r] = "open" /\ pc[r] \notin Over
  BY <1>1, RequestFacts DEF Holds, Over
<1>3. /\ Streams(r) /\ status[r] = 200 /\ lease[r] = "held" /\ batch[r] = "none"
      /\ errors[r] = 0 /\ outcome[r] = "none" /\ accounted[r] = 0
      /\ interrupted[r] # "while closing" /\ recorded[r] = << >>
  BY <1>1, <1>2, OpenFacts DEF Unclosed
<1>4. \E p, u, i : Relays(r, p, u, i)
  <2>1. CASE ChunkSent(r) \/ ChunkArrives(r)
    <3>1. /\ interrupted' = [interrupted EXCEPT ![r] = interrupted[r]]
          /\ upstream' = [upstream EXCEPT ![r] = "open"]
      BY <1>2, <2>1, Unchanged DEF ChunkSent, ChunkArrives
    <3>2. PICK p \in {"pulling", "pushing"} : pc' = [pc EXCEPT ![r] = p]
      BY <2>1 DEF ChunkSent, ChunkArrives, Goto
    <3>3. Relays(r, p, "open", interrupted[r])
      BY <1>3, <3>1, <3>2, RequestFacts DEF Relays
    <3>. QED BY <3>3
  <2>2. ASSUME NEW how \in Interruptions, PullCloses(r, how) PROVE \E p, u, i : Relays(r, p, u, i)
    <3>1. /\ pc' = [pc EXCEPT ![r] = "closing"] /\ upstream' = [upstream EXCEPT ![r] = "open"]
      BY <1>2, <2>2, Unchanged DEF PullCloses, Goto
    <3>2. PICK i \in {"scope", "cancelled", "disconnect"} :
            interrupted' = [interrupted EXCEPT ![r] = i]
      BY <2>2 DEF PullCloses, Interruptions
    <3>3. Relays(r, "closing", "open", i)
      BY <3>1, <3>2 DEF Relays, Interrupts
    <3>. QED BY <3>3
  <2>3. ASSUME NEW how \in Interruptions, PushInterrupted(r, how) PROVE \E p, u, i : Relays(r, p, u, i)
    <3>1. PICK u \in {"open", "abandoned"} : upstream' = [upstream EXCEPT ![r] = u]
      BY <2>3 DEF PushInterrupted
    <3>2. /\ pc' = [pc EXCEPT ![r] = "closing"]
          /\ interrupted' = [interrupted EXCEPT ![r] = how]
          /\ how \in {"cancelled", "disconnect"}
      BY <2>3 DEF PushInterrupted, Goto, Interruptions
    <3>3. Relays(r, "closing", u, how)
      BY <3>1, <3>2 DEF Relays, Interrupts
    <3>. QED BY <3>3
  <2>. QED BY <2>1, <2>2, <2>3
<1>5. PICK p, u, i : Relays(r, p, u, i)
  BY <1>4
<1>6. Fits(r, p, lease[r], batch[r], u, status[r], outcome[r], i,
           recorded[r], errors[r], accounted[r])
  <2>1. Fits(r, p, "held", "none", u, 200, "none", i, << >>, 0, 0)
    BY <1>3, <1>5, OpenFits DEF Relays
  <2>. QED BY <1>3, <2>1
<1>7. Becomes(r, p, lease[r], batch[r], u, status[r], outcome[r], i,
              recorded[r], errors[r], accounted[r])
  BY <1>1, <1>5, RequestFacts, Unchanged DEF Relays, Becomes, Places, Upstreams, counts
<1>8. lease[r] \in Slots
  BY <1>3 DEF Slots
<1>. QED BY <1>6, <1>7, <1>8, StepPreserves

\* How a stream was closed: aclose ended, or was cancelled.
ClosedWith(o, i, e, a) ==
  \/ /\ i # "while closing" /\ a = 1
     /\ \/ o \in {"completed", "cancelled"} /\ e = 0
        \/ o = "upstream_error" /\ e = 1
  \/ i = "while closing" /\ a = 0 /\ o = "none" /\ e = 0

\* What is left of a request whose stream is closed.
LEMMA ClosedFits ==
  ASSUME NEW r, NEW p, NEW o, NEW i, NEW rec, NEW e, NEW a, Streams(r),
         Ends(p, rec), ClosedWith(o, i, e, a)
  PROVE  Fits(r, p, "released", "none", "closed", 200, o, i, rec, e, a)
<1>1. p \in {"sending", "done"}
  BY DEF Ends
<1>2. Holds(r, p, "released", "none", "closed", 200, i)
  BY <1>1, Zenon DEF Holds, TimedOut, Early, Relaying, Unclosed
<1>3. Counted(r, p, "released", "closed", 200, o, i, e)
  <2>1. e \in {0, 1} /\ Answer(r, "released", 200, o, i, e)
    BY Zenon DEF ClosedWith, Answer
  <2>. QED BY <1>1, <2>1, Zenon DEF Counted, Early, Unclosed
<1>4. Recorded(r, p, "released", "none", "closed", 200, o, i, rec, e)
  <2>1. CASE p = "sending" /\ rec = << >>
    <3>1. p \notin Over
      BY <2>1 DEF Over
    <3>. QED BY <2>1, <3>1, RecordedFits, Zenon
  <2>2. CASE p = "done" /\ rec = Once("cancelled")
    <3>1. p \in Over
      BY <2>2 DEF Over
    <3>. QED BY <2>2, <3>1, RecordedFits, Zenon
  <2>. QED BY <2>1, <2>2 DEF Ends
<1>5. Covered(r, "closed", 200, i, a)
  <2>1. CASE a = 1 /\ i # "while closing"
    BY <2>1, Zenon DEF Covered
  <2>2. CASE a = 0 /\ i = "while closing"
    BY <2>2, Literals, Zenon DEF Covered
  <2>3. (a = 1 /\ i # "while closing") \/ (a = 0 /\ i = "while closing")
    BY Zenon DEF ClosedWith
  <2>. QED BY <2>1, <2>2, <2>3
<1>. QED BY <1>2, <1>3, <1>4, <1>5 DEF Fits

\* RelayClosed, in the form that StepPreserves has.
LEMMA RelayClosedFacts ==
  ASSUME IInv, NEW r \in Reqs, upstream[r] \in Unclosed, NEW o \in StreamOutcomes,
         RelayClosed(r, o)
  PROVE  /\ upstream' = [upstream EXCEPT ![r] = "closed"]
         /\ lease' = [lease EXCEPT ![r] = "released"]
         /\ outcome' = [outcome EXCEPT ![r] = o]
         /\ accounted' = [accounted EXCEPT ![r] = 1]
         /\ \E e \in {0, 1} : /\ errors' = [errors EXCEPT ![r] = e]
                              /\ ClosedWith(o, interrupted[r], e, 1)
<1>1. /\ accounted[r] = 0 /\ errors[r] = 0 /\ lease[r] = "held"
      /\ interrupted[r] # "while closing"
  BY OpenFacts
<1>2. lease' = [lease EXCEPT ![r] = "released"]
  BY <1>1, Releases DEF RelayClosed
<1>3. accounted' = [accounted EXCEPT ![r] = 1]
  <2>1. accounted[r] + 1 = 1
    BY <1>1, First, Zenon
  <2>2. accounted' = [accounted EXCEPT ![r] = accounted[r] + 1]
    BY DEF RelayClosed, RecordTokenAccounting
  <2>. QED BY <2>1, <2>2
<1>4. CASE o = "upstream_error"
  <2>1. errors' = [errors EXCEPT ![r] = 1]
    <3>1. errors[r] + 1 = 1
      BY <1>1, First, Zenon
    <3>2. errors' = [errors EXCEPT ![r] = errors[r] + 1]
      BY <1>4 DEF RelayClosed, RecordError
    <3>. QED BY <3>1, <3>2
  <2>2. ClosedWith(o, interrupted[r], 1, 1)
    BY <1>1, <1>4, Zenon DEF ClosedWith
  <2>. QED BY <1>2, <1>3, <1>4, <2>1, <2>2 DEF RelayClosed
<1>5. CASE o # "upstream_error"
  <2>1. errors' = [errors EXCEPT ![r] = 0]
    BY <1>1, <1>5, Unchanged DEF RelayClosed
  <2>2. ClosedWith(o, interrupted[r], 0, 1)
    BY <1>1, <1>5, Zenon DEF ClosedWith, StreamOutcomes
  <2>. QED BY <1>2, <1>3, <1>5, <2>1, <2>2 DEF RelayClosed
<1>. QED BY <1>4, <1>5

\* The response ends with a last body message, or cancelled.
LEMMA ResponseEndsFacts ==
  ASSUME IInv, NEW r \in Reqs, pc[r] \notin Over, NEW how, ResponseEnds(r, how)
  PROVE  \E p, rec : /\ pc' = [pc EXCEPT ![r] = p] /\ recorded' = [recorded EXCEPT ![r] = rec]
                     /\ p \in Places /\ rec \in Seq(Records) /\ Ends(p, rec)
<1>1. CASE how = "cancelled"
  <2>1. Finalize(r, "cancelled") /\ pc' = [pc EXCEPT ![r] = "done"]
    BY <1>1 DEF ResponseEnds, Goto
  <2>2. /\ recorded' = [recorded EXCEPT ![r] = Once("cancelled")]
        /\ Once("cancelled") \in Seq(Records)
    BY <2>1, Finalizes DEF Records
  <2>3. "done" \in Places /\ Ends("done", Once("cancelled"))
    BY DEF Places, Ends
  <2>. QED BY <2>1, <2>2, <2>3
<1>2. CASE how # "cancelled"
  <2>1. pc' = [pc EXCEPT ![r] = "sending"] /\ UNCHANGED recorded
    BY <1>2 DEF ResponseEnds, Goto
  <2>2. recorded[r] = << >>
    BY RequestFacts DEF Recorded
  <2>3. recorded' = [recorded EXCEPT ![r] = recorded[r]] /\ recorded[r] \in Seq(Records)
    BY <2>1, Unchanged, RequestFacts
  <2>4. "sending" \in Places /\ Ends("sending", recorded[r])
    BY <2>2 DEF Places, Ends
  <2>. QED BY <2>1, <2>3, <2>4
<1>. QED BY <1>1, <1>2

\* The backend stream ends or breaks, or the response is interrupted, while
\* the relay awaits a chunk.
LEMMA PullPreserves ==
  ASSUME IInv, NEW r \in Reqs,
         \/ \E o \in StreamOutcomes : UpstreamEnds(r, o)
         \/ \E how \in Interruptions : PullCancelled(r, how)
  PROVE  IInv'
<1>1. pc[r] = "pulling" /\ UNCHANGED <<batch, status, interrupted, app>>
  BY DEF UpstreamEnds, PullCancelled
<1>2. upstream[r] \in Unclosed /\ pc[r] \notin Over
  BY <1>1, RequestFacts DEF Holds, Over, Unclosed
<1>3. Streams(r) /\ status[r] = 200 /\ batch[r] = "none" /\ recorded[r] = << >>
  BY <1>2, OpenFacts DEF Over
<1>4. PICK o \in StreamOutcomes : RelayClosed(r, o)
  BY DEF UpstreamEnds, PullCancelled, StreamOutcomes
<1>5. \E p, rec : /\ pc' = [pc EXCEPT ![r] = p] /\ recorded' = [recorded EXCEPT ![r] = rec]
                  /\ p \in Places /\ rec \in Seq(Records) /\ Ends(p, rec)
  <2>1. CASE \E x \in StreamOutcomes : UpstreamEnds(r, x)
    <3>1. pc' = [pc EXCEPT ![r] = "sending"] /\ recorded' = [recorded EXCEPT ![r] = recorded[r]]
      BY <2>1, Unchanged DEF UpstreamEnds, Goto
    <3>2. "sending" \in Places /\ Ends("sending", recorded[r]) /\ recorded[r] \in Seq(Records)
      BY <1>3, RequestFacts DEF Places, Ends
    <3>. QED BY <3>1, <3>2
  <2>2. CASE \E how \in Interruptions : PullCancelled(r, how)
    BY <1>2, <2>2, ResponseEndsFacts DEF PullCancelled
  <2>. QED BY <2>1, <2>2
<1>6. PICK p, rec : /\ pc' = [pc EXCEPT ![r] = p] /\ recorded' = [recorded EXCEPT ![r] = rec]
                    /\ p \in Places /\ rec \in Seq(Records) /\ Ends(p, rec)
  BY <1>5
<1>7. /\ upstream' = [upstream EXCEPT ![r] = "closed"]
      /\ lease' = [lease EXCEPT ![r] = "released"]
      /\ outcome' = [outcome EXCEPT ![r] = o]
      /\ accounted' = [accounted EXCEPT ![r] = 1]
  BY <1>2, <1>4, RelayClosedFacts
<1>8. PICK e \in {0, 1} : /\ errors' = [errors EXCEPT ![r] = e]
                          /\ ClosedWith(o, interrupted[r], e, 1)
  BY <1>2, <1>4, RelayClosedFacts
<1>9. Fits(r, p, "released", batch[r], "closed", status[r], o, interrupted[r], rec, e, 1)
  <2>1. Fits(r, p, "released", "none", "closed", 200, o, interrupted[r], rec, e, 1)
    <3>1. Streams(r) /\ Ends(p, rec) /\ ClosedWith(o, interrupted[r], e, 1)
      BY <1>3, <1>6, <1>8
    <3>. QED BY <3>1, ClosedFits, Zenon
  <2>. QED BY <1>3, <2>1
<1>10. Becomes(r, p, "released", batch[r], "closed", status[r], o, interrupted[r], rec, e, 1)
  <2>1. e \in Nat /\ 1 \in Nat
    BY <1>8
  <2>. QED BY <1>1, <1>4, <1>6, <1>7, <1>8, <2>1, RequestFacts, Unchanged
           DEF Becomes, Leases, Upstreams, Outcomes
<1>11. "released" \notin Slots
  BY DEF Slots
<1>. QED BY <1>9, <1>10, <1>11, StepPreserves

\* The task of a stream waits for the close, or has left.
Waits(p, rec) ==
  \/ p = "closing" /\ rec = << >>
  \/ p = "done" /\ rec = Once("cancelled")

\* A stream that was closed meanwhile.
LEMMA WaitingFits ==
  ASSUME NEW r, NEW p, NEW o \in {"cancelled", "upstream_error"}, NEW i, NEW rec, NEW e,
         Streams(r), i # "while closing", ClosedWith(o, i, e, 1),
         Waits(p, rec)
  PROVE  Fits(r, p, "released", "none", "closed", 200, o, i, rec, e, 1)
<1>1. p \in {"closing", "done"}
  BY DEF Waits
<1>2. Holds(r, p, "released", "none", "closed", 200, i)
  BY <1>1, Zenon DEF Holds, TimedOut, Early, Relaying, Unclosed
<1>3. Counted(r, p, "released", "closed", 200, o, i, e)
  <2>1. \/ o \in {"completed", "cancelled"} /\ e = 0
        \/ o = "upstream_error" /\ e = 1
    BY Zenon DEF ClosedWith
  <2>2. e \in {0, 1} /\ ((o = "cancelled" /\ e = 0) \/ (o = "upstream_error" /\ e = 1))
    <3>1. CASE o = "cancelled"
      <4>1. o # "upstream_error"
        BY <3>1
      <4>2. e = 0
        BY <2>1, <4>1, Zenon
      <4>. QED BY <3>1, <4>2, Zenon
    <3>2. CASE o = "upstream_error"
      <4>1. o \notin {"completed", "cancelled"}
        BY <3>2
      <4>2. e = 1
        BY <2>1, <4>1, Zenon
      <4>. QED BY <3>2, <4>2, Zenon
    <3>. QED BY <3>1, <3>2
  <2>. QED BY <1>1, <2>2, Zenon DEF Counted, Early, Unclosed
<1>4. Recorded(r, p, "released", "none", "closed", 200, o, i, rec, e)
  <2>1. CASE p = "closing" /\ rec = << >>
    <3>1. p \notin Over
      BY <2>1 DEF Over
    <3>. QED BY <2>1, <3>1, RecordedFits, Zenon
  <2>2. CASE p = "done" /\ rec = Once("cancelled")
    <3>1. p \in Over
      BY <2>2 DEF Over
    <3>. QED BY <2>2, <3>1, RecordedFits, Zenon
  <2>. QED BY <2>1, <2>2 DEF Waits
<1>5. Covered(r, "closed", 200, i, 1)
  BY Zenon DEF Covered
<1>. QED BY <1>2, <1>3, <1>4, <1>5 DEF Fits

\* The relay is closed because the task was cancelled or the client is gone.
LEMMA RelayClosesPreserves ==
  ASSUME IInv, NEW r \in Reqs, NEW o \in StreamOutcomes, RelayCloses(r, o)
  PROVE  IInv'
<1>1. /\ upstream[r] \in Unclosed /\ o \in {"cancelled", "upstream_error"} /\ RelayClosed(r, o)
      /\ UNCHANGED <<pc, batch, status, interrupted, recorded, app>>
  BY DEF RelayCloses, Unclosed
<1>2. /\ Streams(r) /\ status[r] = 200 /\ batch[r] = "none" /\ interrupted[r] # "while closing"
      /\ \/ pc[r] \notin Over /\ recorded[r] = << >>
         \/ pc[r] = "done" /\ recorded[r] = Once("cancelled")
  BY <1>1, OpenFacts
<1>3. pc[r] \in {"closing", "done"}
  BY RequestFacts DEF RelayCloses, Holds
<1>4. Waits(pc[r], recorded[r])
  BY <1>2, <1>3 DEF Over, Waits
<1>5. /\ upstream' = [upstream EXCEPT ![r] = "closed"]
      /\ lease' = [lease EXCEPT ![r] = "released"]
      /\ outcome' = [outcome EXCEPT ![r] = o]
      /\ accounted' = [accounted EXCEPT ![r] = 1]
  BY <1>1, RelayClosedFacts
<1>6. PICK e \in {0, 1} : /\ errors' = [errors EXCEPT ![r] = e]
                          /\ ClosedWith(o, interrupted[r], e, 1)
  BY <1>1, RelayClosedFacts
<1>7. Fits(r, pc[r], "released", batch[r], "closed", status[r], o, interrupted[r],
           recorded[r], e, 1)
  <2>1. Fits(r, pc[r], "released", "none", "closed", 200, o, interrupted[r], recorded[r], e, 1)
    <3>1. Streams(r) /\ interrupted[r] # "while closing" /\ o \in {"cancelled", "upstream_error"}
      BY <1>1, <1>2
    <3>. QED BY <1>4, <1>6, <3>1, WaitingFits, Zenon
  <2>. QED BY <1>2, <2>1
<1>8. Becomes(r, pc[r], "released", batch[r], "closed", status[r], o, interrupted[r],
              recorded[r], e, 1)
  <2>1. e \in Nat /\ 1 \in Nat
    BY <1>6
  <2>. QED BY <1>1, <1>5, <1>6, <2>1, RequestFacts, Unchanged
           DEF Becomes, Leases, Upstreams, Outcomes
<1>9. "released" \notin Slots
  BY DEF Slots
<1>. QED BY <1>7, <1>8, <1>9, StepPreserves

\* What a request has whose stream is closed while it waits for that.
LEMMA WaitedFacts ==
  ASSUME IInv, NEW r \in Reqs, pc[r] = "closing", upstream[r] = "closed"
  PROVE  /\ Streams(r) /\ status[r] = 200 /\ lease[r] = "released" /\ batch[r] = "none"
         /\ ClosedWith(outcome[r], interrupted[r], errors[r], accounted[r])
<1>1. Holds(r, pc[r], lease[r], batch[r], upstream[r], status[r], interrupted[r])
  BY RequestFacts
<1>2. Streams(r) /\ status[r] = 200 /\ interrupted[r] # "while closing"
  BY <1>1 DEF Holds, Relaying
<1>3. batch[r] = "none"
  BY <1>1, <1>2, EligibleFacts DEF Holds
<1>5. accounted[r] = 1
  BY <1>2, RequestFacts, Zenon DEF Covered
<1>6. \/ outcome[r] = "cancelled" /\ errors[r] = 0
      \/ outcome[r] = "upstream_error" /\ errors[r] = 1
  BY RequestFacts DEF Counted
<1>7. ClosedWith(outcome[r], interrupted[r], errors[r], accounted[r])
  BY <1>2, <1>5, <1>6, Zenon DEF ClosedWith
<1>8. lease[r] = "released"
  BY <1>1 DEF Holds
<1>. QED BY <1>2, <1>3, <1>7, <1>8

\* The task goes on after the close.
LEMMA CloseReturnsPreserves ==
  ASSUME IInv, NEW r \in Reqs, pc[r] = "closing", upstream[r] = "closed",
         NEW how, ResponseEnds(r, how),
         UNCHANGED <<lease, batch, upstream, status, outcome, interrupted, errors, accounted, app>>
  PROVE  IInv'
<1>1. /\ Streams(r) /\ status[r] = 200 /\ lease[r] = "released" /\ batch[r] = "none"
      /\ ClosedWith(outcome[r], interrupted[r], errors[r], accounted[r])
  BY WaitedFacts
<1>2. PICK p, rec : /\ pc' = [pc EXCEPT ![r] = p] /\ recorded' = [recorded EXCEPT ![r] = rec]
                    /\ p \in Places /\ rec \in Seq(Records) /\ Ends(p, rec)
  BY ResponseEndsFacts DEF Over
<1>3. Fits(r, p, lease[r], batch[r], upstream[r], status[r], outcome[r], interrupted[r], rec,
           errors[r], accounted[r])
  <2>1. Fits(r, p, "released", "none", "closed", 200, outcome[r], interrupted[r], rec,
             errors[r], accounted[r])
    <3>1. Streams(r) /\ Ends(p, rec) /\ ClosedWith(outcome[r], interrupted[r], errors[r], accounted[r])
      BY <1>1, <1>2
    <3>. QED BY <3>1, ClosedFits, Zenon
  <2>. QED BY <1>1, <2>1
<1>4. Becomes(r, p, lease[r], batch[r], upstream[r], status[r], outcome[r], interrupted[r], rec,
              errors[r], accounted[r])
  BY <1>2, RequestFacts, Unchanged DEF Becomes
<1>5. lease[r] \notin Slots
  BY <1>1 DEF Slots
<1>. QED BY <1>3, <1>4, <1>5, StepPreserves

\* The close of the stream is cancelled.
LEMMA CloseCancelledPreserves ==
  ASSUME IInv, NEW r \in Reqs, CloseCancelled(r)
  PROVE  IInv'
<1>1. /\ pc[r] = "closing" /\ pc[r] \notin Over
      /\ UNCHANGED <<batch, status, outcome, errors, accounted, app>>
  BY DEF CloseCancelled, Over
<1>2. PICK how \in {"cancelled", "disconnect"} :
        ResponseEnds(r, how) /\ (how = "cancelled" \/ interrupted[r] = "scope")
  BY DEF CloseCancelled
<1>3. upstream[r] \in {"open", "abandoned", "closed"}
  <2>1. upstream[r] # "none"
    BY <1>1, RequestFacts DEF Holds, Relaying
  <2>. QED BY <2>1, RequestFacts DEF Upstreams
\* its own close: the lease is given back and nothing else is done
<1>4. CASE upstream[r] = "open"
  <2>1. /\ upstream' = [upstream EXCEPT ![r] = "closed"] /\ ReleaseLease(r)
        /\ interrupted' = [interrupted EXCEPT ![r] = "while closing"]
    BY <1>4 DEF CloseCancelled, LeaseInFinally
  <2>2. /\ Streams(r) /\ status[r] = 200 /\ lease[r] = "held" /\ batch[r] = "none"
        /\ errors[r] = 0 /\ outcome[r] = "none" /\ accounted[r] = 0
    BY <1>4, OpenFacts DEF Unclosed
  <2>3. lease' = [lease EXCEPT ![r] = "released"]
    <3>1. PICK l \in Leases : /\ lease' = [lease EXCEPT ![r] = l]
                              /\ l = IF lease[r] = "held" THEN "released" ELSE lease[r]
      BY <2>1, Releases
    <3>2. l = "released"
      BY <2>2, <3>1
    <3>. QED BY <3>1, <3>2
  <2>4. PICK p, rec : /\ pc' = [pc EXCEPT ![r] = p] /\ recorded' = [recorded EXCEPT ![r] = rec]
                      /\ p \in Places /\ rec \in Seq(Records) /\ Ends(p, rec)
    BY <1>1, <1>2, ResponseEndsFacts
  <2>5. Fits(r, p, "released", batch[r], "closed", status[r], outcome[r], "while closing", rec,
             errors[r], accounted[r])
    <3>1. ClosedWith("none", "while closing", 0, 0)
      BY Zenon DEF ClosedWith
    <3>2. Fits(r, p, "released", "none", "closed", 200, "none", "while closing", rec, 0, 0)
      <4>1. Streams(r) /\ Ends(p, rec)
        BY <2>2, <2>4
      <4>. QED BY <3>1, <4>1, ClosedFits, Zenon
    <3>. QED BY <2>2, <3>2
  <2>6. Becomes(r, p, "released", batch[r], "closed", status[r], outcome[r], "while closing", rec,
                errors[r], accounted[r])
    BY <1>1, <2>1, <2>3, <2>4, RequestFacts, Unchanged DEF Becomes, Leases, Upstreams, Interrupts
  <2>7. "released" \notin Slots
    BY DEF Slots
  <2>. QED BY <2>5, <2>6, <2>7, StepPreserves
\* the event loop's: it goes on
<1>5. CASE upstream[r] = "abandoned"
  <2>1. /\ UNCHANGED <<lease, upstream, interrupted>>
    BY <1>5 DEF CloseCancelled
  <2>2. /\ Streams(r) /\ status[r] = 200 /\ lease[r] = "held" /\ batch[r] = "none"
        /\ errors[r] = 0 /\ outcome[r] = "none" /\ accounted[r] = 0
        /\ interrupted[r] # "while closing"
    BY <1>5, OpenFacts DEF Unclosed
  <2>3. interrupted[r] # "scope"
    BY <1>5, RequestFacts DEF Holds
  <2>4. Finalize(r, "cancelled") /\ pc' = [pc EXCEPT ![r] = "done"]
    BY <1>2, <2>3 DEF ResponseEnds, Goto
  <2>5. /\ recorded' = [recorded EXCEPT ![r] = Once("cancelled")]
        /\ Once("cancelled") \in Seq(Records)
    BY <1>1, <2>4, Finalizes DEF Records
  <2>6. Fits(r, "done", lease[r], batch[r], upstream[r], status[r], outcome[r], interrupted[r],
             Once("cancelled"), errors[r], accounted[r])
    <3>1. Fits(r, "done", "held", "none", "abandoned", 200, "none", interrupted[r],
               Once("cancelled"), 0, 0)
      BY <2>2, <2>3, OpenFits
    <3>. QED BY <1>5, <2>2, <3>1
  <2>7. Becomes(r, "done", lease[r], batch[r], upstream[r], status[r], outcome[r], interrupted[r],
                Once("cancelled"), errors[r], accounted[r])
    BY <1>1, <2>1, <2>4, <2>5, RequestFacts, Unchanged DEF Becomes, Places
  <2>8. lease[r] \in Slots
    BY <2>2 DEF Slots
  <2>. QED BY <2>6, <2>7, <2>8, StepPreserves
\* one that is over
<1>6. CASE upstream[r] = "closed"
  <2>1. UNCHANGED <<lease, upstream, interrupted>>
    BY <1>6 DEF CloseCancelled
  <2>. QED BY <1>1, <1>2, <1>6, <2>1, CloseReturnsPreserves
<1>. QED BY <1>3, <1>4, <1>5, <1>6

-----------------------------------------------------------------------------
(***************************************************************************)
(* The end of the response.                                                *)
(***************************************************************************)
\* The record x agrees with the error counter and the stream.
Agrees(r, x, l, s, o, i, e) ==
  /\ x = "error" => e = 1 \/ (s = 400 /\ l = "none")
  /\ x = "completed"
       => /\ s = 200 /\ e = 0
          /\ Streams(r) => o = "completed" \/ i = "while closing"

\* A response that was sent may have such a record.
LEMMA SentFits ==
  ASSUME NEW r, NEW l, NEW b, NEW u, NEW s, NEW o, NEW i, NEW e, NEW a,
         NEW x \in {"completed", "cancelled", "error"},
         Fits(r, "sending", l, b, u, s, o, i, << >>, e, a),
         Agrees(r, x, l, s, o, i, e)
  PROVE  Fits(r, "returning", l, b, u, s, o, i, Once(x), e, a)
<1>1. Holds(r, "sending", l, b, u, s, i) /\ Recorded(r, "sending", l, b, u, s, o, i, << >>, e)
  BY DEF Fits
<1>2. Holds(r, "returning", l, b, u, s, i)
  BY <1>1, Zenon DEF Holds, Early, Relaying
<1>3. Counted(r, "returning", l, u, s, o, i, e)
  BY Zenon DEF Fits, Counted, Early
<1>4. Recorded(r, "returning", l, b, u, s, o, i, Once(x), e)
  <2>1. b = "dispatched" => l = "held"
    <3>1. << >> # Once("cancelled")
      BY OnceFacts
    <3>. QED BY <1>1, <3>1, Zenon DEF Recorded
  <2>2. "returning" \in Over
    BY DEF Over
  <2>3. CASE x = "completed"
    <3>1. Once("completed") # Once("error")
      BY OnceFacts
    <3>. QED BY <2>1, <2>2, <2>3, <3>1, Zenon DEF Recorded, Agrees
  <2>4. CASE x = "cancelled"
    BY <2>2, <2>4, RecordedFits
  <2>5. CASE x = "error"
    <3>1. Once("completed") # Once("error")
      BY OnceFacts
    <3>. QED BY <2>1, <2>2, <2>5, <3>1, Zenon DEF Recorded, Agrees
  <2>. QED BY <2>3, <2>4, <2>5
<1>. QED BY <1>2, <1>3, <1>4 DEF Fits

\* The last body message is sent: the outcome is what the response was.
LEMMA BodySentPreserves ==
  ASSUME IInv, NEW r \in Reqs, BodySent(r)
  PROVE  IInv'
<1>1. /\ pc[r] = "sending" /\ Finalize(r, OutcomeOf(r)) /\ pc' = [pc EXCEPT ![r] = "returning"]
      /\ UNCHANGED <<lease, batch, upstream, status, outcome, interrupted, errors, accounted, app>>
  BY DEF BodySent, Goto
<1>2. Answer(r, lease[r], status[r], outcome[r], interrupted[r], errors[r]) /\ recorded[r] = << >>
  BY <1>1, RequestFacts DEF Counted, Recorded, Over
<1>3. \E x \in {"completed", "cancelled", "error"} :
        /\ x = OutcomeOf(r)
        /\ Agrees(r, x, lease[r], status[r], outcome[r], interrupted[r], errors[r])
  <2>1. CASE status[r] >= 400 /\ errors[r] = 1 /\ outcome[r] = "none"
    <3>1. OutcomeOf(r) = "error"
      BY <2>1 DEF OutcomeOf
    <3>2. Agrees(r, "error", lease[r], status[r], outcome[r], interrupted[r], errors[r])
      BY <2>1, Zenon DEF Agrees
    <3>. QED BY <3>1, <3>2
  <2>2. CASE status[r] = 400 /\ errors[r] = 0 /\ outcome[r] = "none" /\ lease[r] = "none"
    <3>1. OutcomeOf(r) = "error"
      BY <2>2 DEF OutcomeOf
    <3>2. Agrees(r, "error", lease[r], status[r], outcome[r], interrupted[r], errors[r])
      BY <2>2, Zenon DEF Agrees
    <3>. QED BY <3>1, <3>2
  <2>3. CASE status[r] = 200 /\ ~Streams(r) /\ errors[r] = 0 /\ outcome[r] = "none"
    <3>1. OutcomeOf(r) = "completed"
      BY <2>3 DEF OutcomeOf
    <3>2. Agrees(r, "completed", lease[r], status[r], outcome[r], interrupted[r], errors[r])
      BY <2>3, Zenon DEF Agrees
    <3>. QED BY <3>1, <3>2
  <2>4. CASE status[r] = 200 /\ errors[r] = 0 /\ outcome[r] = "completed"
    <3>1. OutcomeOf(r) = "completed"
      BY <2>4 DEF OutcomeOf
    <3>2. Agrees(r, "completed", lease[r], status[r], outcome[r], interrupted[r], errors[r])
      BY <2>4, Zenon DEF Agrees
    <3>. QED BY <3>1, <3>2
  <2>5. CASE outcome[r] = "cancelled"
    <3>1. OutcomeOf(r) = "cancelled"
      BY <2>5 DEF OutcomeOf
    <3>2. Agrees(r, "cancelled", lease[r], status[r], outcome[r], interrupted[r], errors[r])
      BY <2>5, Zenon DEF Agrees
    <3>. QED BY <3>1, <3>2
  <2>6. CASE status[r] = 200 /\ errors[r] = 1 /\ outcome[r] = "upstream_error"
    <3>1. OutcomeOf(r) = "error"
      BY <2>6 DEF OutcomeOf
    <3>2. Agrees(r, "error", lease[r], status[r], outcome[r], interrupted[r], errors[r])
      BY <2>6, Zenon DEF Agrees
    <3>. QED BY <3>1, <3>2
  <2>7. CASE /\ status[r] = 200 /\ errors[r] = 0 /\ outcome[r] = "none"
             /\ interrupted[r] = "while closing"
    <3>1. OutcomeOf(r) = "completed"
      <4>1. status[r] = 200 /\ outcome[r] = "none"
        BY <2>7
      <4>. QED BY <4>1 DEF OutcomeOf
    <3>2. Agrees(r, "completed", lease[r], status[r], outcome[r], interrupted[r], errors[r])
      BY <2>7, Zenon DEF Agrees
    <3>. QED BY <3>1, <3>2
  <2>. QED BY <1>2, <2>1, <2>2, <2>3, <2>4, <2>5, <2>6, <2>7 DEF Answer
<1>4. PICK x \in {"completed", "cancelled", "error"} :
        /\ x = OutcomeOf(r)
        /\ Agrees(r, x, lease[r], status[r], outcome[r], interrupted[r], errors[r])
  BY <1>3
<1>5. recorded' = [recorded EXCEPT ![r] = Once(x)] /\ Once(x) \in Seq(Records)
  <2>1. Finalize(r, x) /\ pc[r] \notin Over /\ x \in Records
    BY <1>1, <1>4 DEF Over, Records
  <2>. QED BY <2>1, Finalizes
<1>6. Fits(r, "returning", lease[r], batch[r], upstream[r], status[r], outcome[r],
           interrupted[r], Once(x), errors[r], accounted[r])
  <2>1. Fits(r, "sending", lease[r], batch[r], upstream[r], status[r], outcome[r],
             interrupted[r], << >>, errors[r], accounted[r])
    <3>1. Local(r)
      BY DEF IInv
    <3>. QED BY <1>1, <1>2, <3>1 DEF Local
  <2>. QED BY <1>4, <2>1, SentFits
<1>7. Becomes(r, "returning", lease[r], batch[r], upstream[r], status[r], outcome[r],
              interrupted[r], Once(x), errors[r], accounted[r])
  BY <1>1, <1>5, RequestFacts, Unchanged DEF Becomes, Places
<1>. QED BY <1>6, <1>7, StepPreserves

\* A request that was sent may end.
LEMMA EndFits ==
  ASSUME NEW r, NEW p \in {"sending", "returning"}, NEW l, NEW b, NEW u, NEW s, NEW o, NEW i,
         NEW rec, NEW e, NEW a, NEW x, Fits(r, p, l, b, u, s, o, i, rec, e, a),
         x = Once("cancelled") \/ (p = "returning" /\ x = rec)
  PROVE  Fits(r, "done", l, b, u, s, o, i, x, e, a)
<1>1. Holds(r, p, l, b, u, s, i) /\ Recorded(r, p, l, b, u, s, o, i, rec, e)
  BY DEF Fits
<1>2. Holds(r, "done", l, b, u, s, i)
  BY <1>1, Zenon DEF Holds, Early, Relaying
<1>3. Counted(r, "done", l, u, s, o, i, e)
  BY Zenon DEF Fits, Counted, Early
<1>4. Recorded(r, "done", l, b, u, s, o, i, x, e)
  <2>1. "done" \in Over /\ "returning" \in Over
    BY DEF Over
  <2>2. CASE x = Once("cancelled")
    BY <2>1, <2>2, RecordedFits
  <2>3. CASE p = "returning" /\ x = rec
    <3>1. u # "abandoned"
      BY <1>1, <2>3, Zenon DEF Holds
    <3>. QED BY <1>1, <2>1, <2>3, <3>1, Zenon DEF Recorded
  <2>. QED BY <2>2, <2>3
<1>. QED BY <1>2, <1>3, <1>4 DEF Fits

\* The task ends after its last message, or is cancelled before it.
LEMMA EndPreserves ==
  ASSUME IInv, NEW r \in Reqs, Return(r) \/ SendCancelled(r)
  PROVE  IInv'
<1>1. /\ pc[r] \in {"sending", "returning"} /\ pc' = [pc EXCEPT ![r] = "done"]
      /\ UNCHANGED <<lease, batch, upstream, status, outcome, interrupted, errors, accounted, app>>
  BY DEF Return, SendCancelled, Goto, counts
<1>2. PICK rec \in Seq(Records) :
        /\ recorded' = [recorded EXCEPT ![r] = rec]
        /\ rec = Once("cancelled") \/ (pc[r] = "returning" /\ rec = recorded[r])
  <2>1. CASE pc[r] = "sending"
    <3>1. Finalize(r, "cancelled")
      BY <2>1 DEF Return, SendCancelled
    <3>. QED BY <2>1, <3>1, Finalizes DEF Over, Records
  <2>2. CASE pc[r] = "returning"
    <3>1. recorded' = recorded
      BY <2>2, FinalizedBefore DEF Return, SendCancelled, Over, counts
    <3>. QED BY <2>2, <3>1, RequestFacts, Unchanged
  <2>. QED BY <1>1, <2>1, <2>2
<1>3. Fits(r, "done", lease[r], batch[r], upstream[r], status[r], outcome[r], interrupted[r],
           rec, errors[r], accounted[r])
  <2>1. Local(r)
    BY DEF IInv
  <2>. QED BY <1>1, <1>2, <2>1, EndFits DEF Local
<1>4. Becomes(r, "done", lease[r], batch[r], upstream[r], status[r], outcome[r], interrupted[r],
              rec, errors[r], accounted[r])
  BY <1>1, <1>2, RequestFacts, Unchanged DEF Becomes, Places
<1>. QED BY <1>3, <1>4, StepPreserves

-----------------------------------------------------------------------------
(***************************************************************************)
(* The lifespan, and the invariant of the specification.                   *)
(***************************************************************************)
\* The lifespan starts and stops components and leaves requests alone.
LEMMA LifespanPreserves ==
  ASSUME IInv, LifespanStep \/ ShutdownAdmission \/ UNCHANGED vars
  PROVE  IInv'
<1>1. UNCHANGED <<tasks, counts>>
  BY DEF LifespanStep, Serve, ShutdownAdmission, ShutdownBatcher, CloseBackend,
         LifespanEnds, vars
<1>2. lifespan' \in Phases /\ ready' \in BOOLEAN
  <2>1. TypeOK
    BY DEF IInv
  <2>2. lifespan' \in Phases
    BY <2>1 DEF TypeOK, LifespanStep, Serve, ShutdownAdmission, ShutdownBatcher, CloseBackend,
                LifespanEnds, vars, app, Phases
  <2>3. ready' \in BOOLEAN
    BY <2>1 DEF TypeOK, LifespanStep, Serve, ShutdownAdmission, ShutdownBatcher, CloseBackend,
                LifespanEnds, vars, app
  <2>. QED BY <2>2, <2>3
<1>3. TypeOK'
  BY <1>1, <1>2 DEF IInv, TypeOK, tasks, counts
<1>4. ASSUME NEW r \in Reqs PROVE Local(r)'
  BY <1>1 DEF IInv, Local, tasks, counts
<1>5. Bounded'
  BY <1>1 DEF IInv, Bounded, Holding, tasks
<1>. QED BY <1>3, <1>4, <1>5 DEF IInv

\* A request that has not come yet fits.
LEMMA IdleFits ==
  ASSUME NEW r
  PROVE  Fits(r, "idle", "none", "none", "none", 0, "none", "none", << >>, 0, 0)
<1>1. Holds(r, "idle", "none", "none", "none", 0, "none")
  BY Literals, Zenon DEF Holds, TimedOut, Early, Relaying, Unclosed
<1>2. Counted(r, "idle", "none", "none", 0, "none", "none", 0)
  BY Zenon DEF Counted, Unclosed
<1>3. Recorded(r, "idle", "none", "none", "none", 0, "none", "none", << >>, 0)
  BY RecordedFits, Zenon DEF Over
<1>4. Covered(r, "none", 0, "none", 0)
  BY Literals, Zenon DEF Covered
<1>. QED BY <1>1, <1>2, <1>3, <1>4 DEF Fits

\* Before the first request there is nothing to account for.
LEMMA InitIInv ==
  ASSUME Init
  PROVE  IInv
<1> USE DEF Init
<1>1. TypeOK
  <2>1. status \in [Reqs -> {0, 200, 500} \cup {StatusOf[c] : c \in DOMAIN StatusOf}]
    OBVIOUS
  <2>2. recorded \in [Reqs -> Seq({"completed", "cancelled", "error"})]
    OBVIOUS
  <2>3. errors \in [Reqs -> Nat] /\ accounted \in [Reqs -> Nat]
    OBVIOUS
  <2>4. ready \in BOOLEAN
    OBVIOUS
  <2>5. /\ pc \in [Reqs -> Places]
        /\ lease \in [Reqs -> {"none", "held", "orphaned", "released"}]
        /\ batch \in [Reqs -> {"none", "dispatched", "ended"}]
        /\ upstream \in [Reqs -> {"none", "open", "abandoned", "closed"}]
        /\ outcome \in [Reqs -> StreamOutcomes \cup {"none"}]
        /\ interrupted \in [Reqs -> {"none", "cancelled", "disconnect", "scope", "while closing"}]
        /\ lifespan \in Phases
    BY DEF Places, Phases
  <2>. QED BY <2>1, <2>2, <2>3, <2>4, <2>5 DEF TypeOK
<1>2. ASSUME NEW r \in Reqs PROVE Local(r)
  <2>1. /\ pc[r] = "idle" /\ lease[r] = "none" /\ batch[r] = "none" /\ upstream[r] = "none"
        /\ status[r] = 0 /\ outcome[r] = "none" /\ interrupted[r] = "none"
        /\ recorded[r] = << >> /\ errors[r] = 0 /\ accounted[r] = 0
    OBVIOUS
  <2>2. Fits(r, "idle", "none", "none", "none", 0, "none", "none", << >>, 0, 0)
    BY IdleFits
  <2>. QED BY <2>1, <2>2 DEF Local
<1>3. Bounded
  <2>1. Holding = {}
    BY DEF Holding
  <2>. QED BY <2>1, FS_EmptySet, RouteAssumption DEF Bounded
<1>. QED BY <1>1, <1>2, <1>3 DEF IInv

\* Every step of a request and of the lifespan preserves it.
LEMMA NextIInv ==
  ASSUME IInv, [Next]_vars
  PROVE  IInv'
<1>1. ASSUME NEW r \in Reqs, ClientStep(r) PROVE IInv'
  <2>1. CASE Accept(r) \/ AuthenticationFails(r) \/ Reject(r) \/ Unreadable(r)
    BY <2>1, AdmissionPreserves, RefusalPreserves, UnreadablePreserves
  <2>2. CASE CallCancelled(r) \/ SendCancelled(r) \/ CloseCancelled(r) \/ ChunkArrives(r)
    BY <2>2, CallCancelledPreserves, EndPreserves, CloseCancelledPreserves, RelayingPreserves
  <2>3. ASSUME NEW how \in Interruptions,
               PullCancelled(r, how) \/ PullCloses(r, how) \/ PushInterrupted(r, how)
        PROVE  IInv'
    BY <2>3, PullPreserves, RelayingPreserves
  <2>. QED BY <1>1, <2>1, <2>2, <2>3 DEF ClientStep
<1>2. ASSUME NEW r \in Reqs, RequestStep(r) PROVE IInv'
  <2>1. CASE Grant(r) \/ Admit(r) \/ AdmissionFails(r) \/ DispatchBatch(r) \/ BatchEnds(r)
    BY <2>1, AdmissionPreserves, RefusalPreserves, DispatchBatchPreserves, BatchEndsPreserves
  <2>2. CASE CallReturns(r) \/ RenderFails(r) \/ CallFails(r) \/ StreamOpened(r) \/ ChunkSent(r)
    BY <2>2, CallReturnsPreserves, RenderFailsPreserves, CallFailsPreserves,
       StreamOpenedPreserves, RelayingPreserves
  <2>3. ASSUME NEW o \in StreamOutcomes, UpstreamEnds(r, o) \/ RelayCloses(r, o) PROVE IInv'
    BY <2>3, PullPreserves, RelayClosesPreserves
  <2>4. CASE CloseReturns(r)
    BY <2>4, CloseReturnsPreserves DEF CloseReturns
  <2>5. CASE BodySent(r) \/ Return(r)
    BY <2>5, BodySentPreserves, EndPreserves
  <2>. QED BY <1>2, <2>1, <2>2, <2>3, <2>4, <2>5 DEF RequestStep
<1>3. CASE LifespanStep \/ ShutdownAdmission \/ UNCHANGED vars
  BY <1>3, LifespanPreserves
<1>. QED BY <1>1, <1>2, <1>3 DEF Next

\* The inductive invariant holds of every state the gateway reaches.
THEOREM Invariance == Spec => []IInv
BY InitIInv, NextIInv, PTL DEF Spec

-----------------------------------------------------------------------------
(***************************************************************************)
(* What it implies.                                                        *)
(***************************************************************************)
\* Every variable of the route has its type.
THEOREM TypeCorrectness == Spec => []TypeOK
<1>1. IInv => TypeOK
  BY DEF IInv
<1>. QED BY <1>1, Invariance, PTL

\* Whatever fails or is cancelled, and however often, a request at the
\* batcher or the backend has a lease, unless it was cancelled after its batch
\* was dispatched; a lease is held for nothing else, unless a timeout orphaned
\* it; and at most global_max_inflight requests have one.
THEOREM BackendWorkHasALease == Spec => []BackendWorkIsAdmitted
<1>1. ASSUME IInv PROVE BackendWorkIsAdmitted
  <2>1. ASSUME NEW r \in Reqs
        PROVE  /\ AtBackend(r) => lease[r] = "held"
               /\ lease[r] = "held" => AtBackend(r) \/ pc[r] = "admitting"
               /\ lease[r] = "orphaned" => status[r] = 429
               /\ Dispatched(r) => lease[r] = "held" \/ recorded[r] = <<"cancelled">>
               /\ pc[r] = "done" /\ upstream[r] = "abandoned" => recorded[r] = <<"cancelled">>
    <3>1. Holds(r, pc[r], lease[r], batch[r], upstream[r], status[r], interrupted[r])
      BY <1>1, RequestFacts
    <3>2. Recorded(r, pc[r], lease[r], batch[r], upstream[r], status[r], outcome[r],
                   interrupted[r], recorded[r], errors[r])
      BY <1>1, RequestFacts
    <3>3. /\ AtBackend(r) => lease[r] = "held"
          /\ lease[r] = "held" => AtBackend(r) \/ pc[r] = "admitting"
      BY <3>1 DEF Holds, AtBackend, Unclosed
    <3>4. lease[r] = "orphaned" => status[r] = 429
      BY <3>1, Zenon DEF Holds, TimedOut
    <3>5. /\ Dispatched(r) => lease[r] = "held" \/ recorded[r] = <<"cancelled">>
          /\ pc[r] = "done" /\ upstream[r] = "abandoned" => recorded[r] = <<"cancelled">>
      BY <3>2, Zenon DEF Recorded, Dispatched, Once
    <3>. QED BY <3>3, <3>4, <3>5, Zenon
  <2>2. Cardinality(Holding) <= GlobalMaxInflight
    BY <1>1 DEF IInv, Bounded
  <2>. QED BY <2>1, <2>2, Zenon DEF BackendWorkIsAdmitted
<1>. QED BY <1>1, Invariance, PTL

\* On every path through the middleware a request is recorded once, when it
\* is over, and not before.
THEOREM OneRecord == Spec => []RecordedExactlyOnce
<1>1. ASSUME IInv PROVE RecordedExactlyOnce
  <2>1. ASSUME NEW r \in Reqs
        PROVE  Len(recorded[r]) = IF pc[r] \in {"returning", "done"} THEN 1 ELSE 0
    <3>1. Recorded(r, pc[r], lease[r], batch[r], upstream[r], status[r], outcome[r],
                   interrupted[r], recorded[r], errors[r])
      BY <1>1, RequestFacts
    <3>2. CASE pc[r] \in {"returning", "done"}
      <4>1. recorded[r] \in {Once("completed"), Once("cancelled"), Once("error")}
        BY <3>1, <3>2, Zenon DEF Recorded, Over
      <4>. QED BY <3>2, <4>1, OnceFacts
    <3>3. CASE pc[r] \notin {"returning", "done"}
      <4>1. recorded[r] = << >>
        BY <3>1, <3>3, Zenon DEF Recorded, Over
      <4>. QED BY <3>3, <4>1
    <3>. QED BY <3>2, <3>3
  <2>. QED BY <2>1 DEF RecordedExactlyOnce
<1>. QED BY <1>1, Invariance, PTL

\* The request counter and the error counter tell the same story, but for the
\* bodies that the framework refuses.
THEOREM CountersAgree == Spec => []RecordsAgree
<1>1. ASSUME IInv PROVE RecordsAgree
  <2>1. ASSUME NEW r \in Reqs
        PROVE  /\ errors[r] <= 1
               /\ recorded[r] = <<"error">> => errors[r] = 1 \/ (status[r] = 400 /\ lease[r] = "none")
               /\ recorded[r] = <<"completed">>
                    => /\ status[r] = 200 /\ errors[r] = 0
                       /\ Ask[r].stream => outcome[r] = "completed" \/ interrupted[r] = "while closing"
    <3>1. /\ Counted(r, pc[r], lease[r], upstream[r], status[r], outcome[r], interrupted[r],
                     errors[r])
          /\ Recorded(r, pc[r], lease[r], batch[r], upstream[r], status[r], outcome[r],
                      interrupted[r], recorded[r], errors[r])
      BY <1>1, RequestFacts
    <3>2. errors[r] <= 1
      <4>1. errors[r] \in {0, 1}
        BY <3>1 DEF Counted
      <4>. QED BY <4>1
    <3>3. recorded[r] = <<"error">> => errors[r] = 1 \/ (status[r] = 400 /\ lease[r] = "none")
      BY <3>1, Zenon DEF Recorded, Once
    <3>4. recorded[r] = <<"completed">>
            => /\ status[r] = 200 /\ errors[r] = 0
               /\ Ask[r].stream => outcome[r] = "completed" \/ interrupted[r] = "while closing"
      BY <3>1, Zenon DEF Recorded, Once, Streams
    <3>. QED BY <3>2, <3>3, <3>4, Zenon
  <2>. QED BY <2>1, Zenon DEF RecordsAgree
<1>. QED BY <1>1, Invariance, PTL

\* Token coverage is recorded once for a direct response and for a stream,
\* unless the close of the stream was cancelled.
THEOREM CoverageOnce == Spec => []CoverageRecordedOnce
<1>1. ASSUME IInv PROVE CoverageRecordedOnce
  <2>1. ASSUME NEW r \in Reqs
        PROVE  IF Ask[r].stream
               THEN accounted[r] =
                      IF upstream[r] = "closed" /\ interrupted[r] # "while closing" THEN 1 ELSE 0
               ELSE /\ accounted[r] <= 1
                    /\ status[r] = 200 /\ ~Eligible(r) => accounted[r] = 1
                    /\ accounted[r] = 1 => ~Eligible(r) /\ status[r] \in {200, 500}
    <3>1. Covered(r, upstream[r], status[r], interrupted[r], accounted[r])
      BY <1>1, RequestFacts
    <3>2. accounted[r] \in {0, 1}
      BY <3>1, Zenon DEF Covered
    <3>3. accounted[r] <= 1
      BY <3>2
    <3>4. accounted[r] = 0 \/ accounted[r] = 1
      BY <3>2
    <3>5. Ask[r].stream => (accounted[r] = 1 <=> upstream[r] = "closed" /\ interrupted[r] # "while closing")
      BY <3>1, Zenon DEF Covered, Streams
    <3>6. ~Ask[r].stream =>
            /\ status[r] = 200 /\ ~Eligible(r) => accounted[r] = 1
            /\ accounted[r] = 1 => ~Eligible(r) /\ status[r] \in {200, 500}
      BY <3>1, Zenon DEF Covered, Streams
    <3>. QED BY <3>3, <3>4, <3>5, <3>6, Zenon
  <2>. QED BY <2>1, Zenon DEF CoverageRecordedOnce
<1>. QED BY <1>1, Invariance, PTL
=============================================================================
