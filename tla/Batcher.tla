------------------------------ MODULE Batcher ------------------------------
(***************************************************************************)
(* gateway/batching/dynamic.py: the dynamic batcher.  An admitted request  *)
(* joins the pending batch of its compatibility key and waits for its own  *)
(* result.  A batch is flushed when it is full or when the timer of its    *)
(* first member fires; a flush task then makes one backend call for all    *)
(* members.  Meanwhile callers are cancelled, calls fail, and shutdown     *)
(* stops everything.                                                       *)
(*                                                                         *)
(* The batcher runs on one asyncio event loop and no section under _lock   *)
(* awaits, so every action is what one task does between two awaits.  A    *)
(* task that is cancelled before it resumes gets CancelledError at its     *)
(* await, and one that never started never runs its body.                  *)
(*                                                                         *)
(* Items and batches are identities that are used again once nothing       *)
(* refers to their earlier use; the number of identities is the only bound.*)
(***************************************************************************)
EXTENDS Integers, FiniteSets, Sequences, SequencesExt

CONSTANTS
  Keys,     \* compatibility keys
  Items,    \* identities of submitted requests
  KeyOf,    \* KeyOf[i] is compatibility_key of the request of item i
  Batches,  \* identities of batches, each with its timer and flush task
  MaxSize,  \* _max_size
  NoBatch,  \* a key without a pending batch
  NoItem    \* no answer yet

ASSUME BatcherAssumption ==
  /\ IsFiniteSet(Items)
  /\ IsFiniteSet(Batches)
  /\ KeyOf \in [Items -> Keys]
  /\ MaxSize \in Nat /\ MaxSize >= 2
  /\ NoBatch \notin Batches
  /\ NoItem \notin Items

VARIABLES
  groups,     \* _groups: the pending batch of each key
  members,    \* the items of a batch, and of its flush operation
  timer,      \* its timer task
  flush,      \* its flush task
  sent,       \* the requests its flush task gave to generate_batch
  itemState,  \* _BatchItem.state
  future,     \* _BatchItem.future
  answer,     \* the request that the result in the future answers
  call,       \* the task that awaits the future
  pending,    \* _pending
  inflight,   \* _inflight
  closed,     \* _closed
  stage,      \* where the call of shutdown is
  fault       \* a RuntimeError was raised: the state became inconsistent

batches == <<groups, members, timer, flush, sent>>
results == <<itemState, future, answer>>
counters == <<pending, inflight>>
vars == <<batches, results, call, counters, closed, stage, fault>>

-----------------------------------------------------------------------------
(***************************************************************************)
(* Types and initial state.  A task that has ended is "none".  A flush     *)
(* task is created, runs generate_batch, and is dropped or stopping when   *)
(* shutdown cancelled it before or after it started.                       *)
(***************************************************************************)
TimerStates == {"none", "armed", "cancelled"}
FlushStates == {"none", "created", "running", "dropped", "stopping"}
ItemStates == {"none", "pending", "dispatched", "completed", "cancelled"}
FutureStates == {"none", "pending", "result", "exception", "cancelled"}
CallStates == {"idle", "waiting", "cancelled"}
Stages == {"open", "timers", "flushes", "done", "aborted"}

\* Every variable has its type; the two counters never drop below zero.
TypeOK ==
  /\ groups \in [Keys -> Batches \cup {NoBatch}]
  /\ members \in [Batches -> Seq(Items)]
  /\ timer \in [Batches -> TimerStates]
  /\ flush \in [Batches -> FlushStates]
  /\ sent \in [Batches -> Seq(Items)]
  /\ itemState \in [Items -> ItemStates]
  /\ future \in [Items -> FutureStates]
  /\ answer \in [Items -> Items \cup {NoItem}]
  /\ call \in [Items -> CallStates]
  /\ pending \in Nat
  /\ inflight \in Nat
  /\ closed \in BOOLEAN
  /\ stage \in Stages
  /\ fault \in BOOLEAN

Init ==
  /\ groups = [k \in Keys |-> NoBatch]
  /\ members = [b \in Batches |-> << >>]
  /\ timer = [b \in Batches |-> "none"]
  /\ flush = [b \in Batches |-> "none"]
  /\ sent = [b \in Batches |-> << >>]
  /\ itemState = [i \in Items |-> "none"]
  /\ future = [i \in Items |-> "none"]
  /\ answer = [i \in Items |-> NoItem]
  /\ call = [i \in Items |-> "idle"]
  /\ pending = 0
  /\ inflight = 0
  /\ closed = FALSE
  /\ stage = "open"
  /\ fault = FALSE

-----------------------------------------------------------------------------
Open(b) == \E k \in Keys : groups[k] = b
Fresh(b) == ~Open(b) /\ timer[b] = "none" /\ flush[b] = "none"
Members(b) == ToSet(members[b])
Held(i) == \E b \in Batches : i \in Members(b)

\* Mutation: the batch stays in _groups.
DetachKeepsGroup(b, items, state, count) ==
  /\ fault' = (fault \/ \E i \in ToSet(items) : state[i] # "pending")
  /\ itemState' = [i \in Items |-> IF i \in ToSet(items) THEN "dispatched" ELSE state[i]]
  /\ pending' = count - Len(items)
  /\ inflight' = inflight + 1
  /\ flush' = [flush EXCEPT ![b] = "created"]
  /\ UNCHANGED groups

\* _detach_locked, when the batch is still the pending one of its key: it
\* leaves _groups and its flush task is created.  The arguments give the
\* items, their states and _pending as the section has them by then.
DetachLocked(b, items, state, count) ==
  /\ groups' = [k \in Keys |-> IF groups[k] = b THEN NoBatch ELSE groups[k]]
  /\ fault' = (fault \/ \E i \in ToSet(items) : state[i] # "pending")
  /\ itemState' = [i \in Items |-> IF i \in ToSet(items) THEN "dispatched" ELSE state[i]]
  /\ pending' = count - Len(items)
  /\ inflight' = inflight + 1
  /\ flush' = [flush EXCEPT ![b] = "created"]

-----------------------------------------------------------------------------
(***************************************************************************)
(* submit, up to its await.                                                *)
(***************************************************************************)
\* BatchingUnavailableError.
SubmitRejected(i) ==
  /\ closed
  /\ call[i] = "idle"
  /\ UNCHANGED vars

Submit(i) ==
  LET k == KeyOf[i]
      new == [itemState EXCEPT ![i] = "pending"]
  IN
  /\ ~closed
  /\ call[i] = "idle"
  /\ ~Held(i)
  /\ call' = [call EXCEPT ![i] = "waiting"]
  /\ future' = [future EXCEPT ![i] = "pending"]
  /\ answer' = [answer EXCEPT ![i] = NoItem]
  /\ \E b \in Batches :
       /\ IF groups[k] = NoBatch THEN Fresh(b) ELSE groups[k] = b
       /\ members' = [members EXCEPT ![b] = Append(@, i)]
       /\ IF Len(members'[b]) >= MaxSize
          THEN /\ DetachLocked(b, members'[b], new, pending + 1)
               /\ timer' = [timer EXCEPT ![b] = "cancelled"]
          ELSE /\ groups' = [groups EXCEPT ![k] = b]
               /\ timer' = [timer EXCEPT ![b] = IF groups[k] = NoBatch THEN "armed" ELSE @]
               /\ itemState' = new
               /\ pending' = pending + 1
               /\ UNCHANGED <<flush, inflight, fault>>
  /\ UNCHANGED <<sent, closed, stage>>

\* The future is done and the await of submit returns or raises.
Resume(i) ==
  /\ call[i] = "waiting"
  /\ future[i] \in {"result", "exception"}
  /\ call' = [call EXCEPT ![i] = "idle"]
  /\ UNCHANGED <<batches, results, counters, closed, stage, fault>>

\* The client is gone: the task that awaits shield(item.future) is cancelled.
CancelTask(i) ==
  /\ call[i] = "waiting"
  /\ call' = [call EXCEPT ![i] = "cancelled"]
  /\ UNCHANGED <<batches, results, counters, closed, stage, fault>>

\* Mutation: the timer of an emptied batch is left running.
RemoveItemKeepsTimer(i, b) ==
  /\ members' = [members EXCEPT ![b] = RemoveFirst(@, i)]
  /\ pending' = pending - 1
  /\ groups' = IF members'[b] = << >>
               THEN [groups EXCEPT ![KeyOf[i]] = NoBatch]
               ELSE groups
  /\ UNCHANGED timer

\* Mutation: an emptied batch stays in _groups although its timer is gone.
RemoveItemKeepsGroup(i, b) ==
  /\ members' = [members EXCEPT ![b] = RemoveFirst(@, i)]
  /\ pending' = pending - 1
  /\ timer' = IF members'[b] = << >>
              THEN [timer EXCEPT ![b] = "cancelled"]
              ELSE timer
  /\ UNCHANGED groups

\* The part of _cancel_item that takes a pending item out of its batch.
RemoveItem(i, b) ==
  /\ members' = [members EXCEPT ![b] = RemoveFirst(@, i)]
  /\ pending' = pending - 1
  /\ IF members'[b] = << >>
     THEN /\ groups' = [groups EXCEPT ![KeyOf[i]] = NoBatch]
          /\ timer' = [timer EXCEPT ![b] = "cancelled"]
     ELSE UNCHANGED <<groups, timer>>

\* Mutation: a dispatched item is taken for a pending one and counted off.
CancelItemCountsDispatched(i) ==
  LET b == groups[KeyOf[i]] IN
  /\ call[i] = "cancelled"
  /\ IF itemState[i] = "pending" /\ b # NoBatch /\ i \in Members(b)
     THEN RemoveItem(i, b)
     ELSE /\ pending' = IF itemState[i] = "dispatched" THEN pending - 1 ELSE pending
          /\ UNCHANGED <<groups, members, timer>>
  /\ itemState' = [itemState EXCEPT
                     ![i] = IF @ \in {"pending", "dispatched"} THEN "cancelled" ELSE @]
  /\ future' = [future EXCEPT ![i] = IF @ = "pending" THEN "cancelled" ELSE @]
  /\ call' = [call EXCEPT ![i] = "idle"]
  /\ UNCHANGED <<flush, sent, answer, inflight, closed, stage, fault>>

\* _cancel_item: submit handles CancelledError, whatever became of the item
\* between the cancellation and now.
CancelItem(i) ==
  LET b == groups[KeyOf[i]] IN
  /\ call[i] = "cancelled"
  /\ IF itemState[i] = "pending" /\ b # NoBatch /\ i \in Members(b)
     THEN RemoveItem(i, b)
     ELSE UNCHANGED <<groups, members, timer, pending>>
  /\ itemState' = [itemState EXCEPT
                     ![i] = IF @ \in {"pending", "dispatched"} THEN "cancelled" ELSE @]
  /\ future' = [future EXCEPT ![i] = IF @ = "pending" THEN "cancelled" ELSE @]
  /\ call' = [call EXCEPT ![i] = "idle"]
  /\ UNCHANGED <<flush, sent, answer, inflight, closed, stage, fault>>

-----------------------------------------------------------------------------
(***************************************************************************)
(* The timer task: _timer_expired.                                         *)
(***************************************************************************)
TimerExpires(b) ==
  /\ timer[b] = "armed"
  /\ timer' = [timer EXCEPT ![b] = "none"]
  /\ IF Open(b) /\ members[b] # << >>
     THEN DetachLocked(b, members[b], itemState, pending)
     ELSE UNCHANGED <<groups, flush, itemState, counters, fault>>
  /\ UNCHANGED <<members, sent, future, answer, call, closed, stage>>

\* A cancelled timer task ends.
TimerEnds(b) ==
  /\ timer[b] = "cancelled"
  /\ timer' = [timer EXCEPT ![b] = "none"]
  /\ UNCHANGED <<groups, members, flush, sent, results, call, counters, closed, stage, fault>>

-----------------------------------------------------------------------------
(***************************************************************************)
(* The flush task: _execute_batch.                                         *)
(***************************************************************************)
Running(b) == flush[b] \in {"running", "stopping"}
Survivors(b) == {i \in Members(b) : itemState[i] # "cancelled"}

FlushStarts(b) ==
  /\ flush[b] = "created"
  /\ flush' = [flush EXCEPT ![b] = "running"]
  /\ sent' = [sent EXCEPT ![b] = members[b]]
  /\ UNCHANGED <<groups, members, timer, results, call, counters, closed, stage, fault>>

\* The finally clause, and the end of the task and of its operation.  A
\* RuntimeError is raised for an item that is neither dispatched nor
\* cancelled, or for an inflight count of zero.
EndOperation(b) ==
  /\ fault' = \/ fault
              \/ \E i \in Survivors(b) : itemState[i] # "dispatched"
              \/ inflight <= 0
  /\ inflight' = IF inflight <= 0 THEN inflight ELSE inflight - 1
  /\ flush' = [flush EXCEPT ![b] = "none"]
  /\ members' = [members EXCEPT ![b] = << >>]
  /\ sent' = [sent EXCEPT ![b] = << >>]
  /\ UNCHANGED <<groups, timer, call, pending, closed, stage>>

\* Mutation: the responses are dealt out to the members that are left.
CompleteSuccessBySurvivor(b) ==
  LET left == SelectSeq(members[b], LAMBDA i : i \in Survivors(b)) IN
  /\ itemState' = [i \in Items |-> IF i \in Survivors(b) THEN "completed" ELSE itemState[i]]
  /\ future' = [i \in Items |->
                  IF i \in Survivors(b) /\ future[i] = "pending" THEN "result" ELSE future[i]]
  /\ answer' = [i \in Items |->
                  IF i \in Survivors(b) /\ future[i] = "pending"
                  THEN sent[b][CHOOSE n \in DOMAIN left : left[n] = i]
                  ELSE answer[i]]

\* _complete_success: the backend's n-th response answers the n-th request
\* it was sent, and goes to the future of the n-th member.
CompleteSuccess(b) ==
  /\ itemState' = [i \in Items |-> IF i \in Survivors(b) THEN "completed" ELSE itemState[i]]
  /\ future' = [i \in Items |->
                  IF i \in Survivors(b) /\ future[i] = "pending" THEN "result" ELSE future[i]]
  /\ answer' = [i \in Items |->
                  IF i \in Survivors(b) /\ future[i] = "pending"
                  THEN sent[b][CHOOSE n \in DOMAIN members[b] : members[b][n] = i]
                  ELSE answer[i]]

\* Mutation: only the first member that is left is failed.
FailItemsFirst(b) ==
  LET first == SelectSeq(members[b], LAMBDA i : i \in Survivors(b))
      S == IF first = << >> THEN {} ELSE {Head(first)}
  IN
  /\ itemState' = [i \in Items |-> IF i \in S THEN "completed" ELSE itemState[i]]
  /\ future' = [i \in Items |->
                  IF i \in S /\ future[i] = "pending" THEN "exception" ELSE future[i]]
  /\ UNCHANGED answer

\* _fail_items.
FailItems(b) ==
  /\ itemState' = [i \in Items |-> IF i \in Survivors(b) THEN "completed" ELSE itemState[i]]
  /\ future' = [i \in Items |->
                  IF i \in Survivors(b) /\ future[i] = "pending" THEN "exception" ELSE future[i]]
  /\ UNCHANGED answer

\* generate_batch returned one response per member.
FlushSucceeds(b) ==
  /\ flush[b] = "running"
  /\ Len(sent[b]) = Len(members[b])
  /\ CompleteSuccess(b)
  /\ EndOperation(b)

\* generate_batch raised, returned something malformed, or was cancelled by
\* shutdown: the members share the exception.
FlushFails(b) ==
  /\ Running(b)
  /\ FailItems(b)
  /\ EndOperation(b)

\* A flush task that was cancelled before it started ends without running.
FlushDropped(b) ==
  /\ flush[b] = "dropped"
  /\ flush' = [flush EXCEPT ![b] = "none"]
  /\ members' = [members EXCEPT ![b] = << >>]
  /\ UNCHANGED <<groups, timer, sent, results, call, counters, closed, stage, fault>>

-----------------------------------------------------------------------------
(***************************************************************************)
(* shutdown.                                                               *)
(***************************************************************************)
\* Mutation: every operation is taken for one that never started.
NeverStartedAll == {b \in Batches : flush[b] \in {"created", "running"}}

\* Mutation: the operations that never started are left to their tasks.
NeverStartedNone == {b \in Batches : FALSE}

\* The operations that no step of their task has run yet.
NeverStarted == {b \in Batches : flush[b] = "created"}

\* Mutation: the flush tasks are not cancelled.
StopFlushNever(state) == IF state = "created" THEN "dropped" ELSE state

\* task.cancel() on a flush task.
StopFlush(state) ==
  CASE state = "created" -> "dropped"
    [] state = "running" -> "stopping"
    [] OTHER -> state

\* The section under _lock: pending items and those of operations that
\* never started get BatchingUnavailableError; every task is cancelled.
Shutdown ==
  LET waiting == {i \in Items : \E b \in Batches :
                    Open(b) /\ i \in Members(b) /\ itemState[i] = "pending"}
      dispatched == {i \in Items : \E b \in NeverStarted :
                       i \in Members(b) /\ itemState[i] = "dispatched"}
      failed == waiting \cup dispatched
      dropped == Cardinality(NeverStarted)
  IN
  /\ ~closed
  /\ closed' = TRUE
  /\ stage' = "timers"
  /\ groups' = [k \in Keys |-> NoBatch]
  /\ members' = [b \in Batches |-> IF Open(b) THEN << >> ELSE members[b]]
  /\ timer' = [b \in Batches |-> IF Open(b) THEN "cancelled" ELSE timer[b]]
  /\ flush' = [b \in Batches |-> StopFlush(flush[b])]
  /\ itemState' = [i \in Items |-> IF i \in failed THEN "completed" ELSE itemState[i]]
  /\ future' = [i \in Items |->
                  IF i \in failed /\ future[i] = "pending" THEN "exception" ELSE future[i]]
  /\ pending' = pending - Cardinality(waiting)
  /\ inflight' = inflight - dropped
  /\ fault' = (fault \/ inflight < dropped)
  /\ UNCHANGED <<sent, answer, call>>

NoTimers == \A b \in Batches : timer[b] = "none"
NoFlushes == \A b \in Batches : flush[b] = "none"

\* gather(*timer_tasks) returns.
TimersGathered ==
  /\ stage = "timers"
  /\ NoTimers
  /\ stage' = "flushes"
  /\ UNCHANGED <<batches, results, call, counters, closed, fault>>

\* gather(*flush_tasks) returns, and shutdown does.
FlushesGathered ==
  /\ stage = "flushes"
  /\ NoFlushes
  /\ stage' = "done"
  /\ UNCHANGED <<batches, results, call, counters, closed, fault>>

\* shutdown itself is cancelled: the gather it is at raises, once its tasks
\* have ended.
ShutdownCancelled ==
  /\ (stage = "timers" /\ NoTimers) \/ (stage = "flushes" /\ NoFlushes)
  /\ stage' = "aborted"
  /\ UNCHANGED <<batches, results, call, counters, closed, fault>>

\* A later call of shutdown gets _shutdown_lock and returns at once.
ShutdownAgain ==
  /\ stage \in {"done", "aborted"}
  /\ UNCHANGED vars

-----------------------------------------------------------------------------
CallStep(i) ==
  \/ Submit(i)
  \/ SubmitRejected(i)
  \/ Resume(i)
  \/ CancelTask(i)
  \/ CancelItem(i)

FlushEnds(b) == FlushSucceeds(b) \/ FlushFails(b) \/ FlushDropped(b)

BatchStep(b) ==
  \/ TimerExpires(b)
  \/ TimerEnds(b)
  \/ FlushStarts(b)
  \/ FlushEnds(b)

Gathering == TimersGathered \/ FlushesGathered

Next ==
  \/ \E i \in Items : CallStep(i)
  \/ \E b \in Batches : BatchStep(b)
  \/ Shutdown
  \/ Gathering
  \/ ShutdownCancelled
  \/ ShutdownAgain

Spec == Init /\ [][Next]_vars

(***************************************************************************)
(* Fairness.  The event loop runs every task that can run, a sleep of      *)
(* max_wait_seconds elapses, and a cancelled backend call ends.  Nothing   *)
(* is assumed of submissions, cancellations or shutdown, nor that the      *)
(* backend ever answers.                                                   *)
(***************************************************************************)
Fairness ==
  /\ \A i \in Items : WF_vars(Resume(i)) /\ WF_vars(CancelItem(i))
  /\ \A b \in Batches :
       /\ WF_vars(TimerExpires(b))
       /\ WF_vars(TimerEnds(b))
       /\ WF_vars(FlushStarts(b))
       /\ WF_vars(flush[b] = "stopping" /\ FlushFails(b))
       /\ WF_vars(FlushDropped(b))
  /\ WF_vars(Gathering)

FairSpec == Spec /\ Fairness

-----------------------------------------------------------------------------
(***************************************************************************)
(* Safety.                                                                 *)
(***************************************************************************)
Grouped == {i \in Items : \E k \in Keys : groups[k] # NoBatch /\ i \in Members(groups[k])}
Operations == {b \in Batches : flush[b] \in {"created", "running", "stopping"}}

\* _pending is the number of items in pending batches and _inflight the
\* number of operations that will still decrement it, although items leave
\* by size, by timer, by cancellation and by shutdown, and operations end in
\* their task or, when that never started, in shutdown.
Accounting ==
  /\ pending = Cardinality(Grouped)
  /\ inflight = Cardinality(Operations)

\* No RuntimeError of _detach_locked, _complete_success, _fail_items,
\* _execute_batch or shutdown is ever raised.
NoInternalError == ~fault

\* Every pending batch has a running timer, so that it is flushed even if it
\* never fills up; and a timer that runs belongs to the pending batch of its
\* key, so the identity check of _detach_locked never meets a later batch.
TimersMatchGroups == \A b \in Batches : timer[b] = "armed" <=> Open(b)

\* A pending batch is neither empty nor full, a dispatched one is not larger
\* than _max_size, no batch mixes keys (so no tenant shares one with
\* another), and no item is in a batch twice or in two batches.
BatchesWellFormed ==
  /\ \A b \in Batches : Open(b) => Len(members[b]) \in 1..(MaxSize - 1)
  /\ \A b \in Batches : flush[b] # "none" => ~Open(b) /\ Len(members[b]) \in 1..MaxSize
  /\ \A b, c \in Batches : \A m \in DOMAIN members[b], n \in DOMAIN members[c] :
       members[b][m] = members[c][n] => b = c /\ m = n
  /\ \A b \in Batches : \A i, j \in Members(b) : KeyOf[i] = KeyOf[j]

\* Whoever waits for an unresolved future is a pending item of a pending
\* batch or a dispatched item of an operation that will resolve it: no call
\* hangs because its item fell between timer, flush, cancel and shutdown.
NobodyForgotten ==
  \A i \in Items : future[i] = "pending" =>
    \/ itemState[i] = "pending" /\ i \in Grouped
    \/ itemState[i] = "dispatched" /\ \E b \in Operations : i \in Members(b)

\* A member gets the response to its own request, also when other members
\* of its batch were cancelled after the dispatch.
AnswersOwnRequest == \A i \in Items : future[i] = "result" => answer[i] = i

\* From the moment shutdown has the lock, nothing is pending and no backend
\* call begins; when shutdown returns no task is left and every future is
\* resolved.
QuietAfterShutdown ==
  /\ closed => /\ pending = 0
               /\ \A b \in Batches : timer[b] # "armed" /\ flush[b] \notin {"created", "running"}
  /\ stage = "done" => /\ inflight = 0
                       /\ NoTimers /\ NoFlushes
                       /\ \A i \in Items : future[i] # "pending"

-----------------------------------------------------------------------------
(***************************************************************************)
(* Liveness.                                                               *)
(***************************************************************************)
\* If every backend call ends, every submit does: no member waits for ever
\* for a batch to fill up or for companions that were cancelled.
EveryCallEnds ==
  (\A b \in Batches : []<>(flush[b] # "running")) =>
    \A i \in Items : call[i] # "idle" ~> call[i] = "idle"

\* After shutdown every call ends and shutdown returns (or raises, when it
\* is cancelled itself), even if the backend never answers.
ShutdownEnds ==
  closed ~> stage \in {"done", "aborted"} /\ \A i \in Items : call[i] = "idle"
=============================================================================
