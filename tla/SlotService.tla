---------------------------- MODULE SlotService ----------------------------
(***************************************************************************)
(* What the admission controller promises its callers, without queues,     *)
(* futures, counters or sections: a request is outside, waits or holds a   *)
(* slot.  Nobody holds a slot beyond the limits, nobody waits while there  *)
(* is room for it when it calls, a caller never passes a waiter that there *)
(* is room for, and after Close nobody gets a slot any more.               *)
(***************************************************************************)
EXTENDS Integers, FiniteSets

CONSTANTS
  Tenants, Requests, TenantOf,
  MaxInflight, MaxQueue, GlobalMaxInflight, GlobalMaxQueue

VARIABLES
  holders,  \* requests that have a slot
  waiters,  \* requests that wait for one
  closed

vars == <<holders, waiters, closed>>

Of(S, t) == {r \in S : TenantOf[r] = t}

Room(t) ==
  /\ Cardinality(Of(holders, t)) < MaxInflight[t]
  /\ Cardinality(holders) < GlobalMaxInflight

Init == holders = {} /\ waiters = {} /\ closed = FALSE

\* A call gets a slot at once; no waiter could have had it.
Admit(r) ==
  /\ ~closed
  /\ r \notin holders \cup waiters
  /\ Room(TenantOf[r])
  /\ \A w \in waiters : ~Room(TenantOf[w])
  /\ holders' = holders \cup {r}
  /\ UNCHANGED <<waiters, closed>>

\* A call that finds no room waits, if there is a place to wait.
Join(r) ==
  /\ ~closed
  /\ r \notin holders \cup waiters
  /\ ~Room(TenantOf[r])
  /\ Cardinality(Of(waiters, TenantOf[r])) < MaxQueue[TenantOf[r]]
  /\ Cardinality(waiters) < GlobalMaxQueue
  /\ waiters' = waiters \cup {r}
  /\ UNCHANGED <<holders, closed>>

Serve(r) ==
  /\ ~closed
  /\ r \in waiters
  /\ Room(TenantOf[r])
  /\ holders' = holders \cup {r}
  /\ waiters' = waiters \ {r}
  /\ UNCHANGED closed

\* A waiter times out, is cancelled or is turned away by Close.
GiveUp(r) ==
  /\ r \in waiters
  /\ waiters' = waiters \ {r}
  /\ UNCHANGED <<holders, closed>>

Leave(r) ==
  /\ r \in holders
  /\ holders' = holders \ {r}
  /\ UNCHANGED <<waiters, closed>>

Close == closed' = TRUE /\ UNCHANGED <<holders, waiters>>

Next ==
  \/ \E r \in Requests : Admit(r) \/ Join(r) \/ Serve(r) \/ GiveUp(r) \/ Leave(r)
  \/ Close

Spec == Init /\ [][Next]_vars
=============================================================================
