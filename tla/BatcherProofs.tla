--------------------------- MODULE BatcherProofs ---------------------------
(***************************************************************************)
(* Proofs about the dynamic batcher, for every number of keys, items and   *)
(* batches and every maximum size.                                         *)
(*                                                                         *)
(* The inductive invariant IInv has these parts:                           *)
(*   Shape      the types, with counters in Int                            *)
(*   Groups     the members of a pending batch have the key it is under    *)
(*   BatchOK    what timer, flush task, members and their states say of    *)
(*              each other, batch by batch                                 *)
(*   Disjoint   no item is in two batches                                  *)
(*   ItemOK     who holds an unresolved item, and what its answer is       *)
(*   Down       what is over once shutdown has the lock, or has returned   *)
(*   Accounting the counters are numbers of items and operations           *)
(***************************************************************************)
EXTENDS Batcher, DistinctSequences, TLAPS, FiniteSetTheorems

Shape ==
  /\ groups \in [Keys -> Batches \cup {NoBatch}]
  /\ members \in [Batches -> Seq(Items)]
  /\ timer \in [Batches -> TimerStates]
  /\ flush \in [Batches -> FlushStates]
  /\ sent \in [Batches -> Seq(Items)]
  /\ itemState \in [Items -> ItemStates]
  /\ future \in [Items -> FutureStates]
  /\ answer \in [Items -> Items \cup {NoItem}]
  /\ call \in [Items -> CallStates]
  /\ pending \in Int
  /\ inflight \in Int
  /\ closed \in BOOLEAN
  /\ stage \in Stages
  /\ fault = FALSE

Groups == \A k \in Keys, b \in Batches : groups[k] = b =>
            \A i \in Members(b) : KeyOf[i] = k

BatchOK(b) ==
  /\ Distinct(members[b])
  /\ timer[b] = "armed" <=> Open(b)
  /\ Open(b) => /\ flush[b] = "none"
                /\ Len(members[b]) \in 1..(MaxSize - 1)
                /\ \A i \in Members(b) : itemState[i] = "pending"
  /\ flush[b] # "none" => Len(members[b]) \in 1..MaxSize
  /\ ~Open(b) /\ flush[b] = "none" => members[b] = << >>
  /\ b \in Operations => \A i \in Members(b) : itemState[i] \in {"dispatched", "cancelled"}
  /\ Running(b) => sent[b] = members[b]
  /\ \A i, j \in Members(b) : KeyOf[i] = KeyOf[j]

Disjoint == \A b, c \in Batches : \A i \in Items :
              i \in Members(b) /\ i \in Members(c) => b = c

InOperation(i) == \E b \in Batches : b \in Operations /\ i \in Members(b)

ItemOK(i) ==
  /\ itemState[i] = "pending" => i \in Grouped
  /\ itemState[i] = "dispatched" => InOperation(i)
  /\ future[i] = "pending" => itemState[i] \in {"pending", "dispatched"}
  /\ future[i] = "result" => answer[i] = i

Down ==
  /\ closed <=> stage # "open"
  /\ closed => \A k \in Keys : groups[k] = NoBatch
  /\ closed => \A b \in Batches : flush[b] \notin {"created", "running"}
  /\ stage \in {"flushes", "done"} => NoTimers
  /\ stage = "done" => NoFlushes

IInv ==
  /\ Shape
  /\ Groups
  /\ \A b \in Batches : BatchOK(b)
  /\ Disjoint
  /\ \A i \in Items : ItemOK(i)
  /\ Down
  /\ Accounting

-----------------------------------------------------------------------------
(***************************************************************************)
(* What the parts of the state say of each other.                          *)
(***************************************************************************)
\* Members and groups, without the sequences.
LEMMA MemberFacts ==
  ASSUME Shape
  PROVE  /\ \A b \in Batches : Members(b) \subseteq Items
         /\ \A b \in Batches : members[b] = << >> => Members(b) = {}
         /\ \A b \in Batches : Len(members[b]) # 0 => Members(b) # {}
         /\ \A b \in Batches : Open(b) <=> \E k \in Keys : groups[k] = b
         /\ \A i \in Items : i \in Grouped <=> \E b \in Batches : Open(b) /\ i \in Members(b)
<1>1. ASSUME NEW b \in Batches
      PROVE  /\ Members(b) \subseteq Items
             /\ members[b] = << >> => Members(b) = {}
             /\ Len(members[b]) # 0 => Members(b) # {}
  <2>1. members[b] \in Seq(Items)
    BY DEF Shape
  <2>. QED BY <2>1, ElementFacts, NoElements DEF Members
<1>2. ASSUME NEW i \in Items
      PROVE  i \in Grouped <=> \E b \in Batches : Open(b) /\ i \in Members(b)
  <2>1. \A k \in Keys : groups[k] \in Batches \cup {NoBatch}
    BY DEF Shape
  <2>. QED BY <2>1, BatcherAssumption DEF Grouped, Open
<1>. QED BY <1>1, <1>2 DEF Open

\* The same after a step.
LEMMA MemberFactsNext ==
  ASSUME Shape'
  PROVE  /\ \A b \in Batches : Members(b)' \subseteq Items
         /\ \A b \in Batches : members'[b] = << >> => Members(b)' = {}
         /\ \A b \in Batches : Len(members'[b]) # 0 => Members(b)' # {}
         /\ \A b \in Batches : Open(b)' <=> \E k \in Keys : groups'[k] = b
         /\ \A i \in Items : i \in Grouped' <=> \E b \in Batches : Open(b)' /\ i \in Members(b)'
<1>1. ASSUME NEW b \in Batches
      PROVE  /\ Members(b)' \subseteq Items
             /\ members'[b] = << >> => Members(b)' = {}
             /\ Len(members'[b]) # 0 => Members(b)' # {}
  <2>1. members'[b] \in Seq(Items)
    BY DEF Shape
  <2>. QED BY <2>1, ElementFacts, NoElements DEF Members
<1>2. ASSUME NEW i \in Items
      PROVE  i \in Grouped' <=> \E b \in Batches : Open(b)' /\ i \in Members(b)'
  <2>1. \A k \in Keys : groups'[k] \in Batches \cup {NoBatch}
    BY DEF Shape
  <2>. QED BY <2>1, BatcherAssumption DEF Grouped, Open
<1>. QED BY <1>1, <1>2 DEF Open

\* A batch is pending under one key only.
LEMMA OneKey ==
  ASSUME IInv, NEW b \in Batches, NEW k \in Keys, NEW l \in Keys,
         groups[k] = b, groups[l] = b
  PROVE  k = l
<1>1. Open(b) /\ b # NoBatch
  BY BatcherAssumption DEF Open
<1>2. Len(members[b]) \in 1..(MaxSize - 1)
  BY <1>1 DEF IInv, BatchOK
<1>3. PICK i \in Members(b) : TRUE
  BY <1>2, MemberFacts, BatcherAssumption DEF IInv
<1>. QED BY <1>1, <1>3 DEF IInv, Groups

\* A batch that no step of the action concerns is as before, although its
\* dispatched members may be cancelled.
LEMMA BatchFrame ==
  ASSUME NEW c \in Batches, BatchOK(c),
         members'[c] = members[c], timer'[c] = timer[c],
         flush'[c] = flush[c], sent'[c] = sent[c],
         Open(c)' <=> Open(c),
         \A i \in Members(c) : \/ itemState'[i] = itemState[i]
                               \/ ~Open(c) /\ itemState'[i] \in {"dispatched", "cancelled"}
  PROVE  BatchOK(c)'
<1> DEFINE M == ToSet(members[c])
<1>1. Members(c) = M /\ Members(c)' = M
  BY DEF Members
<1>2. (c \in Operations)' <=> c \in Operations
  BY DEF Operations
<1>3. Running(c)' <=> Running(c)
  BY DEF Running
<1> HIDE DEF M
<1>. QED BY <1>1, <1>2, <1>3 DEF BatchOK

\* So is an item that nothing happened to.
LEMMA ItemFrame ==
  ASSUME NEW i \in Items, ItemOK(i),
         itemState'[i] = itemState[i], future'[i] = future[i], answer'[i] = answer[i],
         i \in Grouped => (i \in Grouped)',
         InOperation(i) => InOperation(i)'
  PROVE  ItemOK(i)'
BY DEF ItemOK

\* The sets that are counted are finite.
LEMMA FiniteCounts ==
  /\ IsFiniteSet(Grouped) /\ Cardinality(Grouped) \in Nat
  /\ IsFiniteSet(Operations) /\ Cardinality(Operations) \in Nat
  /\ IsFiniteSet(Grouped') /\ Cardinality(Grouped') \in Nat
  /\ IsFiniteSet(Operations') /\ Cardinality(Operations') \in Nat
<1>1. Grouped \in SUBSET Items /\ Operations \in SUBSET Batches
  BY DEF Grouped, Operations
<1>2. Grouped' \in SUBSET Items /\ Operations' \in SUBSET Batches
  BY DEF Grouped, Operations
<1>. QED BY <1>1, <1>2, BatcherAssumption, FS_Subset, FS_CardinalityType

-----------------------------------------------------------------------------
(***************************************************************************)
(* Steps that move only tasks.                                             *)
(***************************************************************************)
\* A caller resumes or is cancelled.
LEMMA CallPreserves ==
  ASSUME IInv, call' \in [Items -> CallStates],
         UNCHANGED <<batches, results, counters, closed, stage, fault>>
  PROVE  IInv'
<1> USE DEF batches, results, counters
<1>1. \A b \in Batches : Open(b)' <=> Open(b)
  BY DEF Open
<1>2. /\ \A b \in Batches : Members(b)' = Members(b)
      /\ Grouped' = Grouped /\ Operations' = Operations
  BY DEF Members, Grouped, Operations
<1>3. Shape' /\ Groups' /\ Disjoint'
  BY <1>2 DEF IInv, Shape, Groups, Disjoint
<1>4. \A b \in Batches : BatchOK(b)'
  BY <1>1, BatchFrame DEF IInv
<1>5. \A i \in Items : ItemOK(i)'
  BY <1>2 DEF IInv, ItemOK, InOperation
<1>6. Down' /\ Accounting'
  BY <1>2 DEF IInv, Down, Accounting, NoTimers, NoFlushes
<1>. QED BY <1>3, <1>4, <1>5, <1>6 DEF IInv

\* shutdown goes on, or is cancelled itself.
LEMMA StagePreserves ==
  ASSUME IInv, TimersGathered \/ FlushesGathered \/ ShutdownCancelled
  PROVE  IInv'
<1> USE DEF batches, results, counters, TimersGathered, FlushesGathered, ShutdownCancelled
<1>1. \A b \in Batches : Open(b)' <=> Open(b)
  BY DEF Open
<1>2. /\ \A b \in Batches : Members(b)' = Members(b)
      /\ Grouped' = Grouped /\ Operations' = Operations
  BY DEF Members, Grouped, Operations
<1>3. Shape' /\ Groups' /\ Disjoint'
  BY <1>2 DEF IInv, Shape, Groups, Disjoint, Stages
<1>4. \A b \in Batches : BatchOK(b)'
  BY <1>1, BatchFrame DEF IInv
<1>5. \A i \in Items : ItemOK(i)'
  BY <1>2 DEF IInv, ItemOK, InOperation
<1>6. Down' /\ Accounting'
  BY <1>2 DEF IInv, Down, Accounting, NoTimers, NoFlushes
<1>. QED BY <1>3, <1>4, <1>5, <1>6 DEF IInv

\* A cancelled timer task ends: its batch is not pending.
LEMMA TimerEndsPreserves ==
  ASSUME IInv, NEW b \in Batches, TimerEnds(b)
  PROVE  IInv'
<1> USE DEF TimerEnds, results, counters
<1>1. \A c \in Batches : Open(c)' <=> Open(c)
  BY DEF Open
<1>2. /\ \A c \in Batches : Members(c)' = Members(c)
      /\ Grouped' = Grouped /\ Operations' = Operations
  BY DEF Members, Grouped, Operations
<1>3. Shape' /\ Groups' /\ Disjoint'
  BY <1>2 DEF IInv, Shape, Groups, Disjoint, TimerStates
<1>4. ASSUME NEW c \in Batches PROVE BatchOK(c)'
  <2>1. CASE c # b
    BY <1>1, <2>1, BatchFrame DEF IInv, Shape
  <2>2. CASE c = b
    <3>1. BatchOK(b) /\ ~Open(b)
      BY DEF IInv, BatchOK
    <3>2. timer'[b] = "none"
      BY DEF IInv, Shape
    <3>. QED BY <1>1, <1>2, <2>2, <3>1, <3>2 DEF BatchOK, Operations, Running
  <2>. QED BY <2>1, <2>2
<1>5. \A i \in Items : ItemOK(i)'
  BY <1>2 DEF IInv, ItemOK, InOperation
<1>6. Down' /\ Accounting'
  <2>1. NoTimers => NoTimers'
    BY DEF NoTimers, IInv, Shape
  <2>. QED BY <1>2, <2>1 DEF IInv, Down, Accounting, NoFlushes
<1>. QED BY <1>3, <1>4, <1>5, <1>6 DEF IInv

\* The flush task starts and gives the members to the backend.
LEMMA FlushStartsPreserves ==
  ASSUME IInv, NEW b \in Batches, FlushStarts(b)
  PROVE  IInv'
<1> USE DEF FlushStarts, results, counters
<1>1. \A c \in Batches : Open(c)' <=> Open(c)
  BY DEF Open
<1>2. flush' = [flush EXCEPT ![b] = "running"] /\ flush[b] = "created" /\ ~closed
  BY DEF IInv, Down
<1>3. /\ \A c \in Batches : Members(c)' = Members(c)
      /\ Grouped' = Grouped /\ Operations' = Operations
  BY <1>2 DEF Members, Grouped, Operations, IInv, Shape
<1>4. Shape' /\ Groups' /\ Disjoint'
  BY <1>3 DEF IInv, Shape, Groups, Disjoint, FlushStates
<1>5. ASSUME NEW c \in Batches PROVE BatchOK(c)'
  <2>1. CASE c # b
    BY <1>1, <2>1, BatchFrame DEF IInv, Shape
  <2>2. CASE c = b
    <3>1. BatchOK(b) /\ ~Open(b) /\ b \in Operations
      BY DEF IInv, BatchOK, Operations
    <3>2. flush'[b] = "running" /\ sent'[b] = members[b] /\ members'[b] = members[b]
          /\ timer'[b] = timer[b] /\ itemState' = itemState
      BY DEF IInv, Shape
    <3>. QED BY <1>1, <1>3, <2>2, <3>1, <3>2 DEF BatchOK, Running
  <2>. QED BY <2>1, <2>2
<1>6. \A i \in Items : ItemOK(i)'
  BY <1>3 DEF IInv, ItemOK, InOperation
<1>7. Down' /\ Accounting'
  BY <1>2, <1>3 DEF IInv, Down, Accounting, NoTimers, NoFlushes
<1>. QED BY <1>3, <1>4, <1>5, <1>6, <1>7 DEF IInv

-----------------------------------------------------------------------------
(***************************************************************************)
(* The end of an operation.                                                *)
(***************************************************************************)
\* The members of an operation that ends are let go.
LEMMA OperationEnds ==
  ASSUME IInv, NEW b \in Batches, flush[b] # "none",
         flush' = [flush EXCEPT ![b] = "none"],
         members' = [members EXCEPT ![b] = << >>],
         sent' \in [Batches -> Seq(Items)],
         \A c \in Batches \ {b} : sent'[c] = sent[c],
         UNCHANGED <<groups, timer>>,
         \A i \in Items \ Members(b) : itemState'[i] = itemState[i]
  PROVE  /\ Members(b)' = {} /\ \A c \in Batches \ {b} : Members(c)' = Members(c)
         /\ Groups' /\ Disjoint'
         /\ \A c \in Batches : BatchOK(c)'
         /\ Grouped' = Grouped /\ Operations' = Operations \ {b}
         /\ \A i \in Items \ Members(b) : InOperation(i) => InOperation(i)'
<1> USE DEF IInv
<1>1. Shape /\ BatchOK(b)
  OBVIOUS
<1>2. ~Open(b) /\ \A c \in Batches : Open(c)' <=> Open(c)
  BY <1>1 DEF BatchOK, Open
<1>3. /\ flush'[b] = "none" /\ members'[b] = << >> /\ timer'[b] = timer[b]
      /\ \A c \in Batches \ {b} : /\ flush'[c] = flush[c] /\ members'[c] = members[c]
                                  /\ timer'[c] = timer[c]
  BY <1>1 DEF Shape
<1>4. Members(b)' = {} /\ \A c \in Batches \ {b} : Members(c)' = Members(c)
  BY <1>3, NoElements DEF Members
<1>5. Groups' /\ Disjoint'
  BY <1>4 DEF Groups, Disjoint
<1>6. ASSUME NEW c \in Batches PROVE BatchOK(c)'
  <2>1. CASE c # b
    <3>1. \A i \in Members(c) : i \in Items \ Members(b)
      BY <1>1, <2>1, MemberFacts DEF Disjoint
    <3>. QED BY <1>2, <1>3, <2>1, <3>1, BatchFrame
  <2>2. CASE c = b
    BY <1>1, <1>2, <1>3, <1>4, <2>2, NoElements DEF BatchOK, Operations, Running
  <2>. QED BY <2>1, <2>2
<1>7. Operations' = Operations \ {b}
  BY <1>3 DEF Operations
<1>8. Grouped' = Grouped
  <2>1. Grouped \subseteq Items /\ Grouped' \subseteq Items
    BY DEF Grouped
  <2>2. ASSUME NEW k \in Keys, groups[k] # NoBatch
        PROVE  ToSet(members'[groups[k]]) = ToSet(members[groups[k]])
    <3>1. groups[k] \in Batches /\ groups[k] # b
      BY <1>1, <1>2, <2>2 DEF Shape, Open
    <3>. QED BY <1>3, <3>1
  <2>. QED BY <2>2 DEF Grouped, Members
<1>9. ASSUME NEW i \in Items \ Members(b), InOperation(i) PROVE InOperation(i)'
  <2>1. PICK c \in Batches : c \in Operations /\ i \in Members(c)
    BY <1>9 DEF InOperation
  <2>2. c # b
    BY <1>9, <2>1
  <2>3. c \in Operations' /\ i \in Members(c)'
    BY <1>4, <1>7, <2>1, <2>2
  <2>. QED BY <2>3 DEF InOperation
<1>. QED BY <1>4, <1>5, <1>6, <1>7, <1>8, <1>9

\* A flush task that never started has ended.
LEMMA FlushDroppedPreserves ==
  ASSUME IInv, NEW b \in Batches, FlushDropped(b)
  PROVE  IInv'
<1> USE DEF FlushDropped, results, counters
<1>1. Shape' /\ Shape
  BY NoElements DEF IInv, Shape, FlushStates
<1>2. /\ Groups' /\ Disjoint'
      /\ \A c \in Batches : BatchOK(c)'
      /\ Grouped' = Grouped /\ Operations' = Operations \ {b}
      /\ \A i \in Items \ Members(b) : InOperation(i) => InOperation(i)'
  BY <1>1, OperationEnds DEF Shape
<1>3. b \notin Operations
  BY DEF Operations
<1>4. ASSUME NEW i \in Items PROVE ItemOK(i)'
  <2>1. CASE i \notin Members(b)
    BY <1>2, <2>1, ItemFrame DEF IInv
  <2>2. CASE i \in Members(b)
    <3>1. ~InOperation(i)
      BY <1>3, <2>2 DEF InOperation, IInv, Disjoint
    <3>. QED BY <1>2, <3>1, ItemFrame DEF IInv
  <2>. QED BY <2>1, <2>2
<1>5. Down'
  <2>1. NoFlushes => NoFlushes'
    BY <1>1 DEF NoFlushes, Shape
  <2>2. closed => \A c \in Batches : flush'[c] \notin {"created", "running"}
    BY <1>1 DEF IInv, Down, Shape
  <2>. QED BY <2>1, <2>2 DEF IInv, Down, NoTimers
<1>6. Accounting'
  BY <1>2, <1>3 DEF IInv, Accounting
<1>. QED BY <1>1, <1>2, <1>4, <1>5, <1>6 DEF IInv

\* An operation that ran has ended; every member that was not cancelled gets
\* its result or the exception.
LEMMA EndPreserves ==
  ASSUME IInv, NEW b \in Batches, Running(b), EndOperation(b),
         itemState' = [i \in Items |-> IF i \in Survivors(b) THEN "completed" ELSE itemState[i]],
         future' \in [Items -> FutureStates],
         answer' \in [Items -> Items \cup {NoItem}],
         \A i \in Items \ Survivors(b) : future'[i] = future[i] /\ answer'[i] = answer[i],
         \A i \in Survivors(b) : future'[i] # "pending" /\ (future'[i] = "result" => answer'[i] = i)
  PROVE  IInv'
<1> USE DEF EndOperation
<1>1. Shape /\ BatchOK(b) /\ flush[b] \in {"running", "stopping"}
  BY DEF IInv, Running
<1>2. b \in Operations /\ inflight = Cardinality(Operations)
  BY <1>1 DEF Operations, IInv, Accounting
<1>3. inflight > 0 /\ inflight \in Nat
  BY <1>2, FiniteCounts, FS_EmptySet
<1>4. \A i \in Survivors(b) : itemState[i] = "dispatched"
  BY <1>1, <1>2 DEF BatchOK, Survivors
<1>5. fault' = FALSE /\ inflight' = inflight - 1
  BY <1>1, <1>3, <1>4 DEF Shape
<1>6. Survivors(b) \subseteq Members(b)
  BY DEF Survivors
<1>7. Shape'
  BY <1>1, <1>3, <1>5, NoElements DEF Shape, FlushStates, ItemStates
<1>8. /\ Members(b)' = {} /\ \A c \in Batches \ {b} : Members(c)' = Members(c)
      /\ Groups' /\ Disjoint'
      /\ \A c \in Batches : BatchOK(c)'
      /\ Grouped' = Grouped /\ Operations' = Operations \ {b}
      /\ \A i \in Items \ Members(b) : InOperation(i) => InOperation(i)'
  <2>1. \A i \in Items \ Members(b) : itemState'[i] = itemState[i]
    BY <1>6
  <2>2. /\ sent' \in [Batches -> Seq(Items)]
        /\ \A c \in Batches \ {b} : sent'[c] = sent[c]
    BY <1>1, <1>7 DEF Shape
  <2>. QED BY <1>1, <2>1, <2>2, OperationEnds
<1>9. ASSUME NEW i \in Items PROVE ItemOK(i)'
  <2>1. CASE i \notin Members(b)
    BY <1>6, <1>8, <2>1, ItemFrame DEF IInv
  <2>2. CASE i \in Survivors(b)
    BY <2>2 DEF ItemOK
  <2>3. CASE i \in Members(b) /\ i \notin Survivors(b)
    <3>1. itemState[i] = "cancelled" /\ itemState'[i] = "cancelled"
      BY <2>3 DEF Survivors
    <3>2. ItemOK(i) /\ future'[i] = future[i] /\ answer'[i] = answer[i]
      BY <2>3 DEF IInv
    <3>. QED BY <3>1, <3>2 DEF ItemOK
  <2>. QED BY <2>1, <2>2, <2>3
<1>10. Down'
  <2>1. NoFlushes => NoFlushes'
    BY <1>1 DEF NoFlushes, Shape
  <2>2. closed => \A c \in Batches : flush'[c] \notin {"created", "running"}
    BY <1>1 DEF IInv, Down, Shape
  <2>. QED BY <2>1, <2>2 DEF IInv, Down, NoTimers
<1>11. Accounting'
  <2>1. Cardinality(Operations') = Cardinality(Operations) - 1
    BY <1>2, <1>8, FiniteCounts, FS_RemoveElement
  <2>. QED BY <1>2, <1>5, <1>8, <2>1 DEF IInv, Accounting
<1>. QED BY <1>7, <1>8, <1>9, <1>10, <1>11 DEF IInv

\* generate_batch returned one response per member.
LEMMA FlushSucceedsPreserves ==
  ASSUME IInv, NEW b \in Batches, FlushSucceeds(b)
  PROVE  IInv'
<1> USE DEF FlushSucceeds, CompleteSuccess
<1>1. Running(b) /\ Shape /\ BatchOK(b)
  BY DEF Running, IInv
<1>2. Survivors(b) \subseteq Members(b) /\ Members(b) \subseteq Items
  BY <1>1, MemberFacts DEF Survivors
<1>3. ASSUME NEW i \in Survivors(b)
      PROVE  sent[b][CHOOSE n \in DOMAIN members[b] : members[b][n] = i] = i
  <2>1. i \in ToSet(members[b])
    BY <1>2 DEF Members
  <2>2. \E n \in DOMAIN members[b] : members[b][n] = i
    BY <2>1 DEF ToSet
  <2>3. sent[b] = members[b]
    BY <1>1 DEF BatchOK
  <2>. QED BY <2>2, <2>3
<1>4. ASSUME NEW i \in Items
      PROVE  answer'[i] = IF i \in Survivors(b) /\ future[i] = "pending" THEN i ELSE answer[i]
  BY <1>3
<1>5. answer' \in [Items -> Items \cup {NoItem}]
  <2>1. \A i \in Items : answer'[i] \in Items \cup {NoItem}
    BY <1>1, <1>4 DEF Shape
  <2>. QED BY <2>1
<1>6. future' \in [Items -> FutureStates]
  BY <1>1 DEF Shape, FutureStates
<1>7. ASSUME NEW i \in Items \ Survivors(b)
      PROVE  future'[i] = future[i] /\ answer'[i] = answer[i]
  BY <1>4
<1>8. ASSUME NEW i \in Survivors(b)
      PROVE  future'[i] # "pending" /\ (future'[i] = "result" => answer'[i] = i)
  <2>1. i \in Items /\ ItemOK(i)
    BY <1>2 DEF IInv
  <2>. QED BY <1>4, <2>1 DEF ItemOK
<1>. QED BY <1>1, <1>5, <1>6, <1>7, <1>8, EndPreserves

\* generate_batch raised or was cancelled.
LEMMA FlushFailsPreserves ==
  ASSUME IInv, NEW b \in Batches, FlushFails(b)
  PROVE  IInv'
<1> USE DEF FlushFails, FailItems
<1>1. Running(b) /\ Shape
  BY DEF IInv
<1>2. Survivors(b) \subseteq Items
  BY <1>1, MemberFacts DEF Survivors
<1>3. future' \in [Items -> FutureStates] /\ answer' \in [Items -> Items \cup {NoItem}]
  BY <1>1 DEF Shape, FutureStates
<1>4. ASSUME NEW i \in Survivors(b)
      PROVE  future'[i] # "pending" /\ (future'[i] = "result" => answer'[i] = i)
  BY <1>2 DEF IInv, ItemOK
<1>5. \A i \in Items \ Survivors(b) : future'[i] = future[i] /\ answer'[i] = answer[i]
  OBVIOUS
<1>. QED BY <1>1, <1>3, <1>4, <1>5, EndPreserves

-----------------------------------------------------------------------------
(***************************************************************************)
(* The cancellation of a caller.                                           *)
(***************************************************************************)
\* A pending item is in the batch that _cancel_item looks at.
LEMMA PendingIsGrouped ==
  ASSUME IInv, NEW i \in Items, itemState[i] = "pending"
  PROVE  groups[KeyOf[i]] \in Batches /\ i \in Members(groups[KeyOf[i]])
<1>1. PICK b \in Batches : Open(b) /\ i \in Members(b)
  BY MemberFacts DEF IInv, ItemOK
<1>2. PICK k \in Keys : groups[k] = b
  BY <1>1 DEF Open
<1>. QED BY <1>1, <1>2 DEF IInv, Groups

\* A pending item leaves its batch, which leaves the groups when it is empty.
LEMMA RemoveItemPreserves ==
  ASSUME IInv, NEW i \in Items, CancelItem(i), itemState[i] = "pending"
  PROVE  IInv'
<1> DEFINE k == KeyOf[i]
<1> USE DEF CancelItem, RemoveItem
<1>0. PICK b \in Batches : b = groups[k]
  BY PendingIsGrouped
<1>1. Shape /\ k \in Keys /\ i \in Members(b) /\ b # NoBatch
  BY <1>0, PendingIsGrouped, BatcherAssumption DEF IInv
<1>2. Open(b) /\ BatchOK(b)
  BY <1>0, <1>1 DEF Open, IInv
<1>3. RemoveItem(i, b) /\ itemState' = [itemState EXCEPT ![i] = "cancelled"]
  BY <1>0, <1>1 DEF IInv, Shape
<1>4. /\ members' = [members EXCEPT ![b] = RemoveFirst(members[b], i)]
      /\ pending' = pending - 1
      /\ IF members'[b] = << >>
         THEN groups' = [groups EXCEPT ![k] = NoBatch] /\ timer' = [timer EXCEPT ![b] = "cancelled"]
         ELSE groups' = groups /\ timer' = timer
  BY <1>3
<1> HIDE DEF k
<1>5. /\ members'[b] \in Seq(Items) /\ Len(members'[b]) = Len(members[b]) - 1
      /\ Distinct(members'[b]) /\ Members(b)' = Members(b) \ {i}
  <2>1. members[b] \in Seq(Items) /\ Distinct(members[b]) /\ i \in ToSet(members[b])
    BY <1>1, <1>2 DEF Shape, BatchOK, Members
  <2>2. /\ RemoveFirst(members[b], i) \in Seq(Items)
        /\ Len(RemoveFirst(members[b], i)) = Len(members[b]) - 1
        /\ Distinct(RemoveFirst(members[b], i))
        /\ ToSet(RemoveFirst(members[b], i)) = ToSet(members[b]) \ {i}
    BY <2>1, RemoveElements
  <2>3. members'[b] = RemoveFirst(members[b], i)
    BY <1>1, <1>4 DEF Shape
  <2>. QED BY <2>2, <2>3 DEF Members
<1>6. /\ groups' \in [Keys -> Batches \cup {NoBatch}]
      /\ \A l \in Keys : groups'[l] = IF l = k /\ members'[b] = << >> THEN NoBatch ELSE groups[l]
      /\ timer' \in [Batches -> TimerStates]
  <2>1. CASE members'[b] = << >>
    BY <1>1, <1>4, <2>1 DEF Shape, TimerStates
  <2>2. CASE members'[b] # << >>
    BY <1>1, <1>4, <2>2 DEF Shape
  <2>. QED BY <2>1, <2>2
<1>7. Shape'
  <2>1. members' \in [Batches -> Seq(Items)]
    BY <1>1, <1>4, <1>5 DEF Shape
  <2>2. /\ itemState' \in [Items -> ItemStates]
        /\ future' \in [Items -> FutureStates]
        /\ call' \in [Items -> CallStates]
    BY <1>1, <1>3 DEF Shape, ItemStates, FutureStates, CallStates
  <2>. QED BY <1>1, <1>4, <1>6, <2>1, <2>2 DEF Shape
<1>8. \A c \in Batches \ {b} : /\ members'[c] = members[c] /\ timer'[c] = timer[c]
                               /\ Members(c)' = Members(c)
  BY <1>1, <1>4 DEF Shape, Members
<1>9. \A c \in Batches : Open(c)' <=> Open(c) /\ (c # b \/ members'[b] # << >>)
  <2>1. \A l \in Keys : groups[l] = b => l = k
    BY <1>0, <1>1, OneKey
  <2>2. groups[k] = b
    BY <1>0
  <2>. QED BY <1>1, <1>6, <2>1, <2>2, BatcherAssumption DEF Open
<1>10. members'[b] = << >> <=> Len(members'[b]) = 0
  BY <1>5, ElementFacts
<1>11. Groups' /\ Disjoint'
  <2>1. \A l \in Keys, c \in Batches : groups'[l] = c => groups[l] = c
    BY <1>6, BatcherAssumption
  <2>2. \A c \in Batches : Members(c)' \subseteq Members(c)
    BY <1>5, <1>8
  <2>. QED BY <2>1, <2>2 DEF IInv, Groups, Disjoint
<1>12. Operations' = Operations
  BY DEF Operations
<1>13. ASSUME NEW c \in Batches PROVE BatchOK(c)'
  <2>1. CASE c # b
    <3>1. \A j \in Members(c) : itemState'[j] = itemState[j]
      <4>1. i \notin Members(c)
        BY <1>1, <2>1 DEF IInv, Disjoint
      <4>. QED BY <1>1, <1>3, <4>1, MemberFacts DEF Shape
    <3>2. BatchOK(c)
      BY DEF IInv
    <3>. QED BY <1>8, <1>9, <2>1, <3>1, <3>2, BatchFrame
  <2>2. CASE c = b
    <3>1. /\ flush'[b] = "none" /\ Len(members[b]) \in 1..(MaxSize - 1)
          /\ \A j \in Members(b) : itemState[j] = "pending"
      BY <1>2 DEF BatchOK
    <3>2. \A j \in Members(b)' : itemState'[j] = "pending"
      BY <1>1, <1>3, <1>5, <3>1, MemberFacts DEF Shape
    <3>3. timer'[b] = "armed" <=> Open(b)'
      BY <1>1, <1>2, <1>4, <1>9 DEF BatchOK, Shape
    <3>4. Open(b)' => Len(members'[b]) \in 1..(MaxSize - 1)
      BY <1>5, <1>9, <1>10, <3>1, BatcherAssumption
    <3>5. \A j, l \in Members(b)' : KeyOf[j] = KeyOf[l]
      BY <1>2, <1>5 DEF BatchOK
    <3>6. b \notin Operations' /\ ~Running(b)'
      BY <3>1 DEF Operations, Running
    <3>. QED BY <1>2, <1>5, <1>9, <2>2, <3>1, <3>2, <3>3, <3>4, <3>5, <3>6 DEF BatchOK
  <2>. QED BY <2>1, <2>2
<1>14. Grouped' = Grouped \ {i} /\ i \in Grouped
  <2>1. Grouped \subseteq Items /\ Grouped' \subseteq Items
    BY DEF Grouped
  <2>2. ASSUME NEW j \in Items PROVE j \in Grouped' <=> j \in Grouped /\ j # i
    <3>1. j \in Grouped' <=> \E c \in Batches : Open(c)' /\ j \in Members(c)'
      BY <1>7, MemberFactsNext
    <3>2. j \in Grouped <=> \E c \in Batches : Open(c) /\ j \in Members(c)
      BY <1>1, MemberFacts
    <3>3. \A c \in Batches : i \in Members(c) => c = b
      BY <1>1 DEF IInv, Disjoint
    <3>4. j \in Members(b)' => Open(b)'
      BY <1>1, <1>2, <1>7, <1>9, MemberFactsNext
    <3>. QED BY <1>1, <1>2, <1>5, <1>8, <1>9, <3>1, <3>2, <3>3, <3>4
  <2>3. i \in Grouped
    BY DEF IInv, ItemOK
  <2>. QED BY <2>1, <2>2, <2>3
<1>15. ASSUME NEW j \in Items PROVE ItemOK(j)'
  <2>1. CASE j = i
    BY <1>1, <1>3, <2>1 DEF IInv, ItemOK, Shape
  <2>2. CASE j # i
    <3>1. /\ itemState'[j] = itemState[j] /\ future'[j] = future[j] /\ answer'[j] = answer[j]
      BY <1>1, <1>3, <2>2 DEF Shape
    <3>2. InOperation(j) => InOperation(j)'
      BY <1>5, <1>8, <1>12, <2>2 DEF InOperation
    <3>. QED BY <1>14, <2>2, <3>1, <3>2, ItemFrame DEF IInv
  <2>. QED BY <2>1, <2>2
<1>16. Down'
  <2>1. ~closed
    BY <1>0, <1>1 DEF IInv, Down
  <2>. QED BY <2>1 DEF IInv, Down
<1>17. Accounting'
  <2>1. Cardinality(Grouped') = Cardinality(Grouped) - 1
    BY <1>14, FiniteCounts, FS_RemoveElement
  <2>. QED BY <1>4, <1>12, <2>1 DEF IInv, Accounting
<1>. QED BY <1>7, <1>11, <1>13, <1>15, <1>16, <1>17 DEF IInv

\* An item that was dispatched, or is over, stays where it is.
LEMMA DispatchedCancelPreserves ==
  ASSUME IInv, NEW i \in Items, CancelItem(i), itemState[i] # "pending"
  PROVE  IInv'
<1> USE DEF CancelItem
<1>1. Shape /\ UNCHANGED <<groups, members, timer, pending>>
  BY DEF IInv
<1>2. /\ itemState' = [itemState EXCEPT ![i] = IF @ = "dispatched" THEN "cancelled" ELSE @]
  BY <1>1 DEF Shape
<1>3. Shape'
  BY <1>1, <1>2 DEF Shape, ItemStates, FutureStates, CallStates
<1>4. /\ \A c \in Batches : (Open(c)' <=> Open(c)) /\ Members(c)' = Members(c)
      /\ Grouped' = Grouped /\ Operations' = Operations
  BY <1>1 DEF Open, Members, Grouped, Operations
<1>5. Groups' /\ Disjoint'
  BY <1>1, <1>4 DEF IInv, Groups, Disjoint
<1>6. ASSUME NEW c \in Batches PROVE BatchOK(c)'
  <2>1. BatchOK(c)
    BY DEF IInv
  <2>2. ASSUME NEW j \in Members(c)
        PROVE  \/ itemState'[j] = itemState[j]
               \/ ~Open(c) /\ itemState'[j] \in {"dispatched", "cancelled"}
    <3>1. j \in Items
      BY <1>1, MemberFacts
    <3>. QED BY <1>1, <1>2, <2>1, <3>1 DEF BatchOK, Shape
  <2>. QED BY <1>1, <1>4, <2>1, <2>2, BatchFrame
<1>7. ASSUME NEW j \in Items PROVE ItemOK(j)'
  <2>1. InOperation(j)' <=> InOperation(j)
    BY <1>4 DEF InOperation
  <2>2. CASE j # i
    BY <1>1, <1>2, <1>4, <2>1, <2>2, ItemFrame DEF IInv, Shape
  <2>3. CASE j = i
    BY <1>1, <1>2, <1>4, <2>1, <2>3 DEF IInv, ItemOK, Shape
  <2>. QED BY <2>2, <2>3
<1>8. Down' /\ Accounting'
  BY <1>1, <1>4 DEF IInv, Down, Accounting, NoTimers, NoFlushes
<1>. QED BY <1>3, <1>5, <1>6, <1>7, <1>8 DEF IInv

-----------------------------------------------------------------------------
(***************************************************************************)
(* Dispatch.                                                               *)
(***************************************************************************)
\* A pending batch leaves the groups and becomes an operation, with an item
\* that has just joined it or without.
LEMMA DetachPreserves ==
  ASSUME IInv, Shape', NEW b \in Batches, Open(b),
         groups' = [k \in Keys |-> IF groups[k] = b THEN NoBatch ELSE groups[k]],
         flush' = [flush EXCEPT ![b] = "created"],
         timer'[b] # "armed", \A c \in Batches \ {b} : timer'[c] = timer[c],
         \A c \in Batches \ {b} : members'[c] = members[c],
         Distinct(members'[b]), Len(members'[b]) \in 1..MaxSize,
         Members(b) \subseteq Members(b)',
         \A i \in Members(b)' : \A c \in Batches \ {b} : i \notin Members(c),
         \A i, j \in Members(b)' : KeyOf[i] = KeyOf[j],
         itemState' = [i \in Items |-> IF i \in Members(b)' THEN "dispatched" ELSE itemState[i]],
         \A i \in Items \ Members(b)' : future'[i] = future[i] /\ answer'[i] = answer[i],
         \A i \in Members(b)' : future'[i] = "result" => answer'[i] = i,
         pending' = pending - Len(members[b]), inflight' = inflight + 1,
         UNCHANGED <<sent, closed, stage>>
  PROVE  IInv'
<1>1. Shape /\ BatchOK(b) /\ flush[b] = "none" /\ ~closed /\ stage = "open"
  BY BatcherAssumption DEF IInv, BatchOK, Open, Down
<1>2. /\ flush'[b] = "created"
      /\ \A c \in Batches \ {b} : flush'[c] = flush[c] /\ Members(c)' = Members(c)
  BY <1>1 DEF Shape, Members
<1>3. \A c \in Batches : Open(c)' <=> Open(c) /\ c # b
  BY BatcherAssumption DEF Open
<1>4. Operations' = Operations \cup {b} /\ b \notin Operations
  BY <1>1, <1>2 DEF Operations
<1>5. Grouped' = Grouped \ Members(b) /\ Members(b) \subseteq Grouped
  <2>1. Grouped \subseteq Items /\ Grouped' \subseteq Items
    BY DEF Grouped
  <2>2. ASSUME NEW j \in Items PROVE j \in Grouped' <=> j \in Grouped /\ j \notin Members(b)
    <3>1. j \in Grouped' <=> \E c \in Batches : Open(c)' /\ j \in Members(c)'
      BY MemberFactsNext
    <3>2. j \in Grouped <=> \E c \in Batches : Open(c) /\ j \in Members(c)
      BY <1>1, MemberFacts
    <3>3. \A c \in Batches : j \in Members(b) /\ j \in Members(c) => b = c
      BY DEF IInv, Disjoint
    <3>. QED BY <1>2, <1>3, <3>1, <3>2, <3>3
  <2>3. Members(b) \subseteq Grouped
    BY <1>1, MemberFacts
  <2>. QED BY <2>1, <2>2, <2>3
<1>6. Groups' /\ Disjoint'
  <2>1. ASSUME NEW k \in Keys, NEW c \in Batches, groups'[k] = c
        PROVE  c # b /\ groups[k] = c
    BY <2>1, BatcherAssumption
  <2>2. Groups'
    BY <1>2, <2>1 DEF IInv, Groups
  <2>3. Disjoint'
    BY <1>2 DEF IInv, Disjoint
  <2>. QED BY <2>2, <2>3
<1>7. ASSUME NEW c \in Batches PROVE BatchOK(c)'
  <2>1. CASE c # b
    <3>1. \A j \in Members(c) : itemState'[j] = itemState[j]
      BY <1>1, <2>1, MemberFacts
    <3>2. BatchOK(c)
      BY DEF IInv
    <3>. QED BY <1>2, <1>3, <2>1, <3>1, <3>2, BatchFrame
  <2>2. CASE c = b
    <3>1. \A j \in Members(b)' : itemState'[j] = "dispatched"
      BY MemberFactsNext
    <3>2. ~Running(b)'
      BY <1>2 DEF Running
    <3>. QED BY <1>2, <1>3, <2>2, <3>1, <3>2 DEF BatchOK
  <2>. QED BY <2>1, <2>2
<1>8. ASSUME NEW i \in Items PROVE ItemOK(i)'
  <2>1. CASE i \in Members(b)'
    <3>1. InOperation(i)'
      BY <1>4, <2>1 DEF InOperation
    <3>. QED BY <2>1, <3>1 DEF ItemOK
  <2>2. CASE i \notin Members(b)'
    <3>1. InOperation(i) => InOperation(i)'
      BY <1>2, <1>4, <2>2 DEF InOperation
    <3>2. i \in Grouped => i \in Grouped'
      BY <1>5, <2>2
    <3>3. ItemOK(i) /\ itemState'[i] = itemState[i]
      BY <2>2 DEF IInv
    <3>. QED BY <2>2, <3>1, <3>2, <3>3, ItemFrame
  <2>. QED BY <2>1, <2>2
<1>9. Down'
  BY <1>1 DEF IInv, Down
<1>10. Accounting'
  <2>1. IsFiniteSet(Members(b)) /\ Cardinality(Members(b)) = Len(members[b])
    BY <1>1, DistinctCardinality DEF Shape, BatchOK, Members
  <2>2. Grouped \cap Members(b) = Members(b)
    BY <1>5
  <2>3. Cardinality(Grouped') = Cardinality(Grouped) - Len(members[b])
    <3>1. Cardinality(Grouped \ Members(b))
            = Cardinality(Grouped) - Cardinality(Grouped \cap Members(b))
      BY <2>1, FiniteCounts, FS_Difference
    <3>. QED BY <1>5, <2>1, <2>2, <3>1
  <2>4. Cardinality(Operations') = Cardinality(Operations) + 1
    BY <1>4, FiniteCounts, FS_AddElement
  <2>. QED BY <2>3, <2>4 DEF IInv, Accounting
<1>. QED BY <1>6, <1>7, <1>8, <1>9, <1>10 DEF IInv

\* A timer that runs belongs to a pending batch, which it dispatches.
LEMMA TimerExpiresPreserves ==
  ASSUME IInv, NEW b \in Batches, TimerExpires(b)
  PROVE  IInv'
<1> USE DEF TimerExpires
<1>1. Shape /\ BatchOK(b) /\ Open(b) /\ Len(members[b]) \in 1..(MaxSize - 1)
  BY DEF IInv, BatchOK
<1>2. members[b] \in Seq(Items) /\ members[b] # << >>
  BY <1>1 DEF Shape
<1>3. DetachLocked(b, members[b], itemState, pending)
  BY <1>1, <1>2
<1>4. ToSet(members[b]) = Members(b) /\ Members(b)' = Members(b) /\ Members(b) \subseteq Items
  BY <1>1, MemberFacts DEF Members
<1>5. /\ groups' = [k \in Keys |-> IF groups[k] = b THEN NoBatch ELSE groups[k]]
      /\ fault' = FALSE
      /\ itemState' = [i \in Items |-> IF i \in Members(b)' THEN "dispatched" ELSE itemState[i]]
      /\ pending' = pending - Len(members[b])
      /\ inflight' = inflight + 1
      /\ flush' = [flush EXCEPT ![b] = "created"]
  <2>1. \A i \in Members(b) : itemState[i] = "pending"
    BY <1>1 DEF BatchOK
  <2>2. fault' = FALSE
    BY <1>1, <1>3, <1>4, <2>1 DEF DetachLocked, Shape
  <2>. QED BY <1>3, <1>4, <2>2 DEF DetachLocked
<1>6. Shape'
  BY <1>1, <1>5 DEF Shape, TimerStates, FlushStates, ItemStates
<1>7. timer'[b] # "armed" /\ \A c \in Batches \ {b} : timer'[c] = timer[c]
  BY <1>1 DEF Shape
<1>8. /\ Distinct(members'[b]) /\ Len(members'[b]) \in 1..MaxSize
      /\ \A i, j \in Members(b)' : KeyOf[i] = KeyOf[j]
      /\ \A i \in Members(b)' : \A c \in Batches \ {b} : i \notin Members(c)
      /\ \A i \in Members(b)' : future'[i] = "result" => answer'[i] = i
  BY <1>1, <1>4, BatcherAssumption DEF BatchOK, IInv, Disjoint, ItemOK
<1>. QED BY <1>1, <1>4, <1>5, <1>6, <1>7, <1>8, DetachPreserves

-----------------------------------------------------------------------------
(***************************************************************************)
(* submit.                                                                 *)
(***************************************************************************)
\* The batch that a new item joins, or opens.
LEMMA JoinedBatch ==
  ASSUME IInv, NEW i \in Items, NEW b \in Batches, ~Held(i),
         IF groups[KeyOf[i]] = NoBatch THEN Fresh(b) ELSE groups[KeyOf[i]] = b,
         members' = [members EXCEPT ![b] = Append(@, i)]
  PROVE  /\ members' \in [Batches -> Seq(Items)]
         /\ \A c \in Batches \ {b} : members'[c] = members[c] /\ Members(c)' = Members(c)
         /\ members[b] \in Seq(Items) /\ Len(members[b]) \in Nat
         /\ Len(members'[b]) = Len(members[b]) + 1
         /\ Distinct(members'[b])
         /\ Members(b)' = Members(b) \cup {i}
         /\ \A c \in Batches : i \notin Members(c)
         /\ flush[b] = "none"
         /\ \A j \in Members(b) : KeyOf[j] = KeyOf[i] /\ itemState[j] = "pending"
         /\ ~Open(b) => members[b] = << >> /\ Fresh(b)
         /\ Open(b) => groups[KeyOf[i]] = b
         /\ \A c \in Batches \ {b} : \A j \in Members(b)' : j \notin Members(c)
<1>1. Shape /\ BatchOK(b) /\ KeyOf[i] \in Keys
  BY BatcherAssumption DEF IInv
<1>2. \A c \in Batches : i \notin Members(c)
  BY DEF Held
<1>3. /\ ~Open(b) => members[b] = << >> /\ Fresh(b) /\ flush[b] = "none"
      /\ Open(b) => groups[KeyOf[i]] = b /\ flush[b] = "none"
  BY <1>1 DEF BatchOK, Fresh, Open
<1>4. \A j \in Members(b) : KeyOf[j] = KeyOf[i] /\ itemState[j] = "pending"
  <2>1. CASE Open(b)
    BY <1>1, <1>3, <2>1 DEF IInv, Groups, BatchOK
  <2>2. CASE ~Open(b)
    BY <1>1, <1>3, <2>2, MemberFacts
  <2>. QED BY <2>1, <2>2
<1>5. members[b] \in Seq(Items) /\ Distinct(members[b]) /\ Len(members[b]) \in Nat
  BY <1>1, ElementFacts DEF Shape, BatchOK
<1>6. i \notin ToSet(members[b])
  BY <1>2 DEF Members
<1>7. /\ Append(members[b], i) \in Seq(Items)
      /\ Len(Append(members[b], i)) = Len(members[b]) + 1
      /\ Distinct(Append(members[b], i))
      /\ ToSet(Append(members[b], i)) = ToSet(members[b]) \cup {i}
  BY <1>5, <1>6, PushElements
<1>8. members'[b] = Append(members[b], i)
  BY <1>1 DEF Shape
<1>9. members' \in [Batches -> Seq(Items)]
  BY <1>1, <1>7 DEF Shape
<1>10. \A c \in Batches \ {b} : members'[c] = members[c] /\ Members(c)' = Members(c)
  BY <1>1 DEF Shape, Members
<1>11. Members(b)' = Members(b) \cup {i}
  BY <1>7, <1>8 DEF Members
<1>12. \A c \in Batches \ {b} : \A j \in Members(b)' : j \notin Members(c)
  BY <1>1, <1>2, <1>11, MemberFacts DEF IInv, Disjoint
<1>. QED BY <1>2, <1>3, <1>4, <1>5, <1>7, <1>8, <1>9, <1>10, <1>11, <1>12

\* The item fills its batch, which is dispatched.
LEMMA SubmitFullPreserves ==
  ASSUME IInv, NEW i \in Items, NEW b \in Batches, ~Held(i), ~closed,
         IF groups[KeyOf[i]] = NoBatch THEN Fresh(b) ELSE groups[KeyOf[i]] = b,
         members' = [members EXCEPT ![b] = Append(@, i)],
         Len(members'[b]) >= MaxSize,
         DetachLocked(b, members'[b], [itemState EXCEPT ![i] = "pending"], pending + 1),
         timer' = [timer EXCEPT ![b] = "cancelled"],
         call' = [call EXCEPT ![i] = "waiting"],
         future' = [future EXCEPT ![i] = "pending"],
         answer' = [answer EXCEPT ![i] = NoItem],
         UNCHANGED <<sent, closed, stage>>
  PROVE  IInv'
<1>1. Shape /\ BatchOK(b)
  BY DEF IInv
<1>2. /\ members' \in [Batches -> Seq(Items)]
      /\ \A c \in Batches \ {b} : members'[c] = members[c] /\ Members(c)' = Members(c)
      /\ members[b] \in Seq(Items) /\ Len(members[b]) \in Nat
      /\ Len(members'[b]) = Len(members[b]) + 1
      /\ Distinct(members'[b])
      /\ Members(b)' = Members(b) \cup {i}
      /\ \A c \in Batches : i \notin Members(c)
      /\ flush[b] = "none"
      /\ \A j \in Members(b) : KeyOf[j] = KeyOf[i] /\ itemState[j] = "pending"
      /\ ~Open(b) => members[b] = << >> /\ Fresh(b)
      /\ \A c \in Batches \ {b} : \A j \in Members(b)' : j \notin Members(c)
  BY JoinedBatch
<1>3. Open(b) /\ Len(members[b]) \in 1..(MaxSize - 1)
  <2>1. ~Open(b) => Len(members[b]) = 0
    BY <1>2, NoElements
  <2>. QED BY <1>1, <1>2, <2>1, BatcherAssumption DEF BatchOK
<1>4. Members(b) \subseteq Items /\ ToSet(members'[b]) = Members(b)'
  BY <1>1, MemberFacts DEF Members
<1>5. \A j \in Members(b)' : [itemState EXCEPT ![i] = "pending"][j] = "pending"
  BY <1>1, <1>2, <1>4 DEF Shape
<1>6. /\ groups' = [k \in Keys |-> IF groups[k] = b THEN NoBatch ELSE groups[k]]
      /\ fault' = FALSE
      /\ pending' = pending - Len(members[b])
      /\ inflight' = inflight + 1
      /\ flush' = [flush EXCEPT ![b] = "created"]
  BY <1>1, <1>2, <1>4, <1>5 DEF DetachLocked, Shape
<1>7. itemState' = [j \in Items |-> IF j \in Members(b)' THEN "dispatched" ELSE itemState[j]]
  BY <1>1, <1>2, <1>4 DEF DetachLocked, Shape
<1>8. Shape'
  BY <1>1, <1>2, <1>6, <1>7
     DEF Shape, TimerStates, FlushStates, ItemStates, FutureStates, CallStates
<1>9. timer'[b] # "armed" /\ \A c \in Batches \ {b} : timer'[c] = timer[c]
  BY <1>1 DEF Shape
<1>10. Len(members'[b]) \in 1..MaxSize
  BY <1>2, <1>3, BatcherAssumption
<1>11. \A j, l \in Members(b)' : KeyOf[j] = KeyOf[l]
  BY <1>2
<1>12. \A j \in Items \ Members(b)' : future'[j] = future[j] /\ answer'[j] = answer[j]
  BY <1>1, <1>2 DEF Shape
<1>13. \A j \in Members(b)' : future'[j] = "result" => answer'[j] = j
  BY <1>1, <1>2, <1>4 DEF Shape, IInv, ItemOK
<1>14. Members(b) \subseteq Members(b)'
  BY <1>2
<1>. QED
  BY <1>2, <1>3, <1>6, <1>7, <1>8, <1>9, <1>10, <1>11, <1>12, <1>13, <1>14, DetachPreserves

\* The item waits in its batch, whose timer runs.
LEMMA SubmitWaitsPreserves ==
  ASSUME IInv, NEW i \in Items, NEW b \in Batches, ~Held(i), ~closed,
         IF groups[KeyOf[i]] = NoBatch THEN Fresh(b) ELSE groups[KeyOf[i]] = b,
         members' = [members EXCEPT ![b] = Append(@, i)],
         ~(Len(members'[b]) >= MaxSize),
         groups' = [groups EXCEPT ![KeyOf[i]] = b],
         timer' = [timer EXCEPT ![b] = IF groups[KeyOf[i]] = NoBatch THEN "armed" ELSE @],
         itemState' = [itemState EXCEPT ![i] = "pending"],
         pending' = pending + 1,
         call' = [call EXCEPT ![i] = "waiting"],
         future' = [future EXCEPT ![i] = "pending"],
         answer' = [answer EXCEPT ![i] = NoItem],
         UNCHANGED <<flush, inflight, fault, sent, closed, stage>>
  PROVE  IInv'
<1>1. Shape /\ BatchOK(b) /\ KeyOf[i] \in Keys /\ b # NoBatch
  BY BatcherAssumption DEF IInv
<1>2. /\ members' \in [Batches -> Seq(Items)]
      /\ \A c \in Batches \ {b} : members'[c] = members[c] /\ Members(c)' = Members(c)
      /\ members[b] \in Seq(Items) /\ Len(members[b]) \in Nat
      /\ Len(members'[b]) = Len(members[b]) + 1
      /\ Distinct(members'[b])
      /\ Members(b)' = Members(b) \cup {i}
      /\ \A c \in Batches : i \notin Members(c)
      /\ flush[b] = "none"
      /\ \A j \in Members(b) : KeyOf[j] = KeyOf[i] /\ itemState[j] = "pending"
      /\ ~Open(b) => members[b] = << >> /\ Fresh(b)
      /\ Open(b) => groups[KeyOf[i]] = b
      /\ \A c \in Batches \ {b} : \A j \in Members(b)' : j \notin Members(c)
  BY JoinedBatch
<1>3. Shape'
  BY <1>1, <1>2 DEF Shape, TimerStates, ItemStates, FutureStates, CallStates
<1>4. \A c \in Batches : Open(c)' <=> Open(c) \/ c = b
  <2>1. groups'[KeyOf[i]] = b /\ \A k \in Keys : k # KeyOf[i] => groups'[k] = groups[k]
    BY <1>1 DEF Shape
  <2>2. groups[KeyOf[i]] \in {NoBatch, b}
    BY DEF Open
  <2>. QED BY <1>1, <2>1, <2>2, BatcherAssumption DEF Open
<1>5. timer'[b] = "armed" /\ \A c \in Batches \ {b} : timer'[c] = timer[c]
  <2>1. groups[KeyOf[i]] # NoBatch => timer[b] = "armed"
    BY <1>1 DEF BatchOK, Open
  <2>. QED BY <1>1, <2>1 DEF Shape
<1>6. Operations' = Operations
  BY DEF Operations
<1>7. Groups' /\ Disjoint'
  <2>1. ASSUME NEW k \in Keys, NEW c \in Batches, groups'[k] = c, NEW j \in Members(c)'
        PROVE  KeyOf[j] = k
    <3>1. CASE k = KeyOf[i]
      <4>1. c = b
        BY <1>1, <2>1, <3>1 DEF Shape
      <4>. QED BY <1>2, <2>1, <3>1, <4>1
    <3>2. CASE k # KeyOf[i]
      <4>1. groups[k] = c
        BY <1>1, <2>1, <3>2 DEF Shape
      <4>2. c # b
        BY <1>1, <1>2, <3>2, <4>1, OneKey DEF Open
      <4>3. j \in Members(c)
        BY <1>2, <2>1, <4>2
      <4>. QED BY <4>1, <4>3 DEF IInv, Groups
    <3>. QED BY <3>1, <3>2
  <2>2. Disjoint'
    BY <1>2 DEF IInv, Disjoint
  <2>. QED BY <2>1, <2>2 DEF Groups
<1>8. \A j \in Items \ {i} : /\ itemState'[j] = itemState[j] /\ future'[j] = future[j]
                             /\ answer'[j] = answer[j]
  BY <1>1 DEF Shape
<1>9. itemState'[i] = "pending" /\ future'[i] = "pending"
  BY <1>1 DEF Shape
<1>10. ASSUME NEW c \in Batches PROVE BatchOK(c)'
  <2>1. CASE c # b
    <3>1. \A j \in Members(c) : itemState'[j] = itemState[j]
      BY <1>1, <1>2, <1>8, MemberFacts
    <3>2. BatchOK(c)
      BY DEF IInv
    <3>. QED BY <1>2, <1>4, <1>5, <2>1, <3>1, <3>2, BatchFrame
  <2>2. CASE c = b
    <3>1. \A j \in Members(b)' : itemState'[j] = "pending" /\ KeyOf[j] = KeyOf[i]
      BY <1>1, <1>2, <1>8, <1>9, MemberFacts
    <3>2. Len(members'[b]) \in 1..(MaxSize - 1)
      BY <1>2, BatcherAssumption
    <3>3. b \notin Operations' /\ ~Running(b)' /\ flush'[b] = "none"
      BY <1>2 DEF Operations, Running
    <3>. QED BY <1>2, <1>4, <1>5, <2>2, <3>1, <3>2, <3>3 DEF BatchOK
  <2>. QED BY <2>1, <2>2
<1>11. Grouped' = Grouped \cup {i} /\ i \notin Grouped
  <2>1. Grouped \subseteq Items /\ Grouped' \subseteq Items
    BY DEF Grouped
  <2>2. ASSUME NEW j \in Items PROVE j \in Grouped' <=> j \in Grouped \/ j = i
    <3>1. j \in Grouped' <=> \E c \in Batches : Open(c)' /\ j \in Members(c)'
      BY <1>3, MemberFactsNext
    <3>2. j \in Grouped <=> \E c \in Batches : Open(c) /\ j \in Members(c)
      BY <1>1, MemberFacts
    <3>3. ~Open(b) => Members(b) = {}
      BY <1>1, <1>2, MemberFacts
    <3>. QED BY <1>2, <1>4, <3>1, <3>2, <3>3
  <2>3. i \notin Grouped
    BY <1>1, <1>2, MemberFacts
  <2>. QED BY <2>1, <2>2, <2>3
<1>12. ASSUME NEW j \in Items PROVE ItemOK(j)'
  <2>1. CASE j = i
    BY <1>9, <1>11, <2>1 DEF ItemOK
  <2>2. CASE j # i
    <3>1. InOperation(j) => InOperation(j)'
      BY <1>2, <1>6 DEF InOperation
    <3>. QED BY <1>8, <1>11, <2>2, <3>1, ItemFrame DEF IInv
  <2>. QED BY <2>1, <2>2
<1>13. Down'
  BY DEF IInv, Down
<1>14. Accounting'
  <2>1. Cardinality(Grouped') = Cardinality(Grouped) + 1
    BY <1>11, FiniteCounts, FS_AddElement
  <2>. QED BY <1>6, <2>1 DEF IInv, Accounting
<1>. QED BY <1>3, <1>7, <1>10, <1>12, <1>13, <1>14 DEF IInv

\* submit, either way.
LEMMA SubmitPreserves ==
  ASSUME IInv, NEW i \in Items, Submit(i)
  PROVE  IInv'
<1>1. PICK b \in Batches :
        /\ IF groups[KeyOf[i]] = NoBatch THEN Fresh(b) ELSE groups[KeyOf[i]] = b
        /\ members' = [members EXCEPT ![b] = Append(@, i)]
        /\ IF Len(members'[b]) >= MaxSize
           THEN /\ DetachLocked(b, members'[b], [itemState EXCEPT ![i] = "pending"], pending + 1)
                /\ timer' = [timer EXCEPT ![b] = "cancelled"]
           ELSE /\ groups' = [groups EXCEPT ![KeyOf[i]] = b]
                /\ timer' = [timer EXCEPT ![b] =
                               IF groups[KeyOf[i]] = NoBatch THEN "armed" ELSE @]
                /\ itemState' = [itemState EXCEPT ![i] = "pending"]
                /\ pending' = pending + 1
                /\ UNCHANGED <<flush, inflight, fault>>
  BY DEF Submit
<1>2. /\ ~Held(i) /\ ~closed
      /\ call' = [call EXCEPT ![i] = "waiting"]
      /\ future' = [future EXCEPT ![i] = "pending"]
      /\ answer' = [answer EXCEPT ![i] = NoItem]
      /\ UNCHANGED <<sent, closed, stage>>
  BY DEF Submit
<1>3. CASE Len(members'[b]) >= MaxSize
  BY <1>1, <1>2, <1>3, SubmitFullPreserves
<1>4. CASE ~(Len(members'[b]) >= MaxSize)
  BY <1>1, <1>2, <1>4, SubmitWaitsPreserves
<1>. QED BY <1>3, <1>4


-----------------------------------------------------------------------------
(***************************************************************************)
(* shutdown.                                                               *)
(***************************************************************************)
\* shutdown empties the pending batches, drops the operations that never
\* started, and fails the items of both.
LEMMA ShutdownPreserves ==
  ASSUME IInv, Shutdown
  PROVE  IInv'
<1> DEFINE dispatched == {i \in Items : \E b \in NeverStarted :
                            i \in Members(b) /\ itemState[i] = "dispatched"}
           failed == Grouped \cup dispatched
<1>1. Shape /\ ~closed /\ stage = "open"
  BY DEF IInv, Down, Shutdown
<1>2. \A i \in Items : i \in Grouped <=>
        \E b \in Batches : Open(b) /\ i \in Members(b) /\ itemState[i] = "pending"
  <2>1. \A b \in Batches : Open(b) => \A i \in Members(b) : itemState[i] = "pending"
    BY DEF IInv, BatchOK
  <2>. QED BY <1>1, <2>1, MemberFacts
<1>3. Grouped = {i \in Items : \E b \in Batches :
                   Open(b) /\ i \in Members(b) /\ itemState[i] = "pending"}
  <2>1. Grouped \subseteq Items
    BY DEF Grouped
  <2>. QED BY <1>2, <2>1
<1>4. /\ closed' = TRUE /\ stage' = "timers"
      /\ groups' = [k \in Keys |-> NoBatch]
      /\ members' = [b \in Batches |-> IF Open(b) THEN << >> ELSE members[b]]
      /\ timer' = [b \in Batches |-> IF Open(b) THEN "cancelled" ELSE timer[b]]
      /\ flush' = [b \in Batches |-> StopFlush(flush[b])]
      /\ itemState' = [i \in Items |-> IF i \in failed THEN "completed" ELSE itemState[i]]
      /\ future' = [i \in Items |->
                      IF i \in failed /\ future[i] = "pending" THEN "exception" ELSE future[i]]
      /\ pending' = pending - Cardinality(Grouped)
      /\ inflight' = inflight - Cardinality(NeverStarted)
      /\ fault' = (fault \/ inflight < Cardinality(NeverStarted))
      /\ sent' = sent /\ answer' = answer /\ call' = call
  BY <1>3 DEF Shutdown
<1> HIDE DEF dispatched, failed
<1>5. /\ NeverStarted \subseteq Operations
      /\ IsFiniteSet(NeverStarted) /\ Cardinality(NeverStarted) \in Nat
      /\ Cardinality(NeverStarted) <= Cardinality(Operations)
      /\ Cardinality(Operations \ NeverStarted)
           = Cardinality(Operations) - Cardinality(NeverStarted)
  <2>1. NeverStarted \subseteq Operations
    BY DEF NeverStarted, Operations
  <2>2. IsFiniteSet(NeverStarted) /\ Cardinality(NeverStarted) <= Cardinality(Operations)
    BY <2>1, FiniteCounts, FS_Subset
  <2>3. Cardinality(NeverStarted) \in Nat
    BY <2>2, FS_CardinalityType
  <2>4. Operations \cap NeverStarted = NeverStarted
    BY <2>1
  <2>5. Cardinality(Operations \ NeverStarted)
          = Cardinality(Operations) - Cardinality(Operations \cap NeverStarted)
    BY FiniteCounts, FS_Difference
  <2>. QED BY <2>1, <2>2, <2>3, <2>4, <2>5
<1>6. pending' = 0 /\ inflight' = Cardinality(Operations \ NeverStarted) /\ fault' = FALSE
  BY <1>1, <1>4, <1>5, FiniteCounts DEF IInv, Accounting, Shape
<1>7. ASSUME NEW b \in Batches
      PROVE  /\ flush'[b] \in FlushStates
             /\ flush[b] \in {"none", "dropped", "stopping"} => flush'[b] = flush[b]
             /\ flush[b] = "created" => flush'[b] = "dropped"
             /\ flush[b] = "running" => flush'[b] = "stopping"
             /\ flush[b] \in FlushStates
  BY <1>1, <1>4 DEF Shape, StopFlush, FlushStates
<1>8. Shape'
  <2>1. flush' \in [Batches -> FlushStates]
    BY <1>4, <1>7
  <2>2. members' \in [Batches -> Seq(Items)]
    BY <1>1, <1>4, NoElements DEF Shape
  <2>3. pending' \in Int /\ inflight' \in Int
    BY <1>1, <1>4, <1>5, <1>6 DEF Shape
  <2>. QED BY <1>1, <1>4, <1>6, <2>1, <2>2, <2>3
           DEF Shape, TimerStates, ItemStates, FutureStates, Stages
<1>9. /\ \A c \in Batches : ~Open(c)'
      /\ \A c \in Batches : Open(c) => members'[c] = << >> /\ Members(c)' = {}
      /\ \A c \in Batches : ~Open(c) => members'[c] = members[c] /\ Members(c)' = Members(c)
  <2>1. \A c \in Batches : ~Open(c)'
    BY <1>4, BatcherAssumption DEF Open
  <2>2. \A c \in Batches : Open(c) => members'[c] = << >> /\ Members(c)' = {}
    BY <1>4, <1>8, MemberFactsNext
  <2>3. \A c \in Batches : ~Open(c) => members'[c] = members[c] /\ Members(c)' = Members(c)
    BY <1>4 DEF Members
  <2>. QED BY <2>1, <2>2, <2>3
<1>10. Operations' = Operations \ NeverStarted
  <2>1. Operations \subseteq Batches /\ Operations' \subseteq Batches
    BY DEF Operations
  <2>2. ASSUME NEW c \in Batches
        PROVE  c \in Operations' <=> c \in Operations /\ c \notin NeverStarted
    BY <1>7 DEF Operations, NeverStarted, FlushStates
  <2>. QED BY <2>1, <2>2
<1>11. Grouped' = {}
  <2>1. Grouped' \subseteq Items
    BY DEF Grouped
  <2>. QED BY <1>8, <1>9, <2>1, MemberFactsNext
<1>12. Groups' /\ Disjoint'
  <2>1. Groups'
    BY <1>4, BatcherAssumption DEF Groups
  <2>2. \A c \in Batches : Members(c)' \subseteq Members(c)
    BY <1>9
  <2>. QED BY <2>1, <2>2 DEF IInv, Disjoint
<1>13. ASSUME NEW i \in Items, NEW c \in Batches, i \in Members(c),
              c \in Operations, c \notin NeverStarted
       PROVE  itemState'[i] = itemState[i] /\ future'[i] = future[i]
  <2>1. i \notin Grouped
    <3>1. ~Open(c)
      BY <1>13 DEF IInv, BatchOK, Operations
    <3>2. \A d \in Batches : i \in Members(d) => d = c
      BY <1>13 DEF IInv, Disjoint
    <3>. QED BY <1>1, <3>1, <3>2, MemberFacts
  <2>2. i \notin dispatched
    BY <1>13 DEF dispatched, IInv, Disjoint, NeverStarted
  <2>. QED BY <1>4, <2>1, <2>2 DEF failed
<1>14. ASSUME NEW c \in Batches PROVE BatchOK(c)'
  <2>1. BatchOK(c) /\ timer[c] \in TimerStates
    BY <1>1 DEF IInv, Shape
  <2>2. CASE Open(c)
    <3>1. flush'[c] = "none" /\ timer'[c] = "cancelled"
      BY <1>4, <1>7, <2>1, <2>2 DEF BatchOK
    <3>. QED BY <1>9, <2>2, <3>1, EmptyFacts DEF BatchOK, Operations, Running
  <2>3. CASE ~Open(c)
    <3>1. timer'[c] = timer[c] /\ sent'[c] = sent[c] /\ timer[c] # "armed"
      BY <1>4, <2>1, <2>3 DEF BatchOK
    <3>2. ASSUME c \in Operations', NEW i \in Members(c)
          PROVE  itemState'[i] \in {"dispatched", "cancelled"}
      <4>1. i \in Items
        BY <1>1, MemberFacts
      <4>2. c \in Operations /\ c \notin NeverStarted
        BY <1>10, <3>2
      <4>. QED BY <1>13, <2>1, <3>2, <4>1, <4>2 DEF BatchOK
    <3>3. Running(c)' => sent'[c] = members'[c]
      BY <1>7, <1>9, <2>1, <2>3, <3>1 DEF BatchOK, Running, FlushStates
    <3>4. /\ flush'[c] # "none" => Len(members'[c]) \in 1..MaxSize
          /\ flush'[c] = "none" => members'[c] = << >>
      BY <1>7, <1>9, <2>1, <2>3 DEF BatchOK, FlushStates
    <3>5. Distinct(members'[c]) /\ \A i, j \in Members(c)' : KeyOf[i] = KeyOf[j]
      BY <1>9, <2>1, <2>3 DEF BatchOK
    <3>. QED BY <1>9, <2>3, <3>1, <3>2, <3>3, <3>4, <3>5 DEF BatchOK
  <2>. QED BY <2>2, <2>3
<1>15. ASSUME NEW i \in Items PROVE ItemOK(i)'
  <2>1. ItemOK(i) /\ answer'[i] = answer[i]
    BY <1>4 DEF IInv
  <2>2. CASE i \in failed
    BY <1>4, <2>1, <2>2 DEF ItemOK
  <2>3. CASE i \notin failed
    <3>1. itemState'[i] = itemState[i] /\ future'[i] = future[i]
      BY <1>4, <2>3
    <3>2. itemState[i] # "pending"
      BY <2>1, <2>3 DEF ItemOK, failed
    <3>3. ASSUME itemState[i] = "dispatched" PROVE InOperation(i)'
      <4>1. PICK c \in Batches : c \in Operations /\ i \in Members(c)
        BY <2>1, <3>3 DEF ItemOK, InOperation
      <4>2. c \notin NeverStarted
        BY <2>3, <3>3, <4>1 DEF failed, dispatched
      <4>3. ~Open(c)
        BY <4>1 DEF IInv, BatchOK, Operations
      <4>. QED BY <1>9, <1>10, <4>1, <4>2, <4>3 DEF InOperation
    <3>. QED BY <2>1, <3>1, <3>2, <3>3 DEF ItemOK
  <2>. QED BY <2>2, <2>3
<1>16. Down'
  <2>1. \A b \in Batches : flush'[b] \notin {"created", "running"}
    BY <1>7 DEF FlushStates
  <2>. QED BY <1>4, <2>1 DEF Down
<1>17. Accounting'
  BY <1>6, <1>10, <1>11, FS_EmptySet DEF Accounting
<1>. QED BY <1>8, <1>12, <1>14, <1>15, <1>16, <1>17 DEF IInv

-----------------------------------------------------------------------------
(***************************************************************************)
(* The invariant of the specification.                                     *)
(***************************************************************************)
\* A batcher that was just constructed satisfies it.
LEMMA InitIInv ==
  ASSUME Init
  PROVE  IInv
<1> USE DEF Init
<1>1. Shape
  <2>1. << >> \in Seq(Items)
    OBVIOUS
  <2>2. members \in [Batches -> Seq(Items)] /\ sent \in [Batches -> Seq(Items)]
    BY <2>1
  <2>3. /\ groups \in [Keys -> Batches \cup {NoBatch}]
        /\ answer \in [Items -> Items \cup {NoItem}]
        /\ pending \in Int /\ inflight \in Int
    OBVIOUS
  <2>4. closed \in BOOLEAN /\ fault = FALSE
    OBVIOUS
  <2>. QED
    BY <2>2, <2>3, <2>4 DEF Shape, TimerStates, FlushStates, ItemStates, FutureStates, CallStates, Stages
<1>2. \A b \in Batches : ~Open(b) /\ members[b] = << >> /\ Members(b) = {}
  BY <1>1, MemberFacts, BatcherAssumption DEF Open
<1>3. Groups /\ Disjoint
  BY <1>2 DEF Groups, Disjoint
<1>4. \A b \in Batches : BatchOK(b)
  BY <1>2, EmptyFacts DEF BatchOK, Operations, Running
<1>5. \A i \in Items : ItemOK(i)
  BY DEF ItemOK
<1>6. Grouped = {} /\ Operations = {}
  BY DEF Grouped, Operations
<1>7. Down
  BY DEF Down
<1>8. Accounting
  BY <1>6, FS_EmptySet DEF Accounting
<1>. QED BY <1>1, <1>3, <1>4, <1>5, <1>7, <1>8 DEF IInv

\* Every step of a submit, a batch or shutdown preserves it.
LEMMA NextIInv ==
  ASSUME IInv, [Next]_vars
  PROVE  IInv'
<1>0. call \in [Items -> CallStates]
  BY DEF IInv, Shape
<1>1. CASE UNCHANGED vars
  BY <1>0, <1>1, CallPreserves DEF vars
<1>2. ASSUME NEW i \in Items, CallStep(i) PROVE IInv'
  <2>1. CASE Submit(i)
    BY <2>1, SubmitPreserves
  <2>2. CASE SubmitRejected(i)
    BY <1>1, <2>2 DEF SubmitRejected
  <2>3. CASE Resume(i) \/ CancelTask(i)
    <3>1. call' \in [Items -> CallStates]
      BY <1>0, <2>3 DEF Resume, CancelTask, CallStates
    <3>2. UNCHANGED <<batches, results, counters, closed, stage, fault>>
      BY <2>3 DEF Resume, CancelTask
    <3>. QED BY <3>1, <3>2, CallPreserves
  <2>4. CASE CancelItem(i)
    BY <2>4, RemoveItemPreserves, DispatchedCancelPreserves
  <2>. QED BY <1>2, <2>1, <2>2, <2>3, <2>4 DEF CallStep
<1>3. ASSUME NEW b \in Batches, BatchStep(b) PROVE IInv'
  BY <1>3, TimerExpiresPreserves, TimerEndsPreserves, FlushStartsPreserves,
     FlushSucceedsPreserves, FlushFailsPreserves, FlushDroppedPreserves
     DEF BatchStep, FlushEnds
<1>4. CASE Shutdown
  BY <1>4, ShutdownPreserves
<1>5. CASE Gathering \/ ShutdownCancelled
  BY <1>5, StagePreserves DEF Gathering
<1>6. CASE ShutdownAgain
  BY <1>1, <1>6 DEF ShutdownAgain
<1>. QED BY <1>1, <1>2, <1>3, <1>4, <1>5, <1>6 DEF Next

\* The inductive invariant holds of every state the batcher reaches.
THEOREM Invariance == Spec => []IInv
BY InitIInv, NextIInv, PTL DEF Spec

-----------------------------------------------------------------------------
(***************************************************************************)
(* What it implies.                                                        *)
(***************************************************************************)
\* Every variable has its type, and _pending and _inflight are never
\* negative, whatever the order of flushes, cancellations and shutdown.
THEOREM TypeCorrectness == Spec => []TypeOK
<1>1. IInv => TypeOK
  BY FiniteCounts DEF IInv, Shape, Accounting, TypeOK
<1>. QED BY <1>1, Invariance, PTL

\* _pending and _inflight count the items that wait in a group and the
\* operations that will still decrement.
THEOREM CountersAreExact == Spec => []Accounting
<1>1. IInv => Accounting
  BY DEF IInv
<1>. QED BY <1>1, Invariance, PTL

\* No consistency check of the batcher (of _detach_locked, _complete_success,
\* _fail_items, _execute_batch or shutdown) ever raises RuntimeError.
THEOREM NoRuntimeError == Spec => []NoInternalError
<1>1. IInv => NoInternalError
  BY DEF IInv, Shape, NoInternalError
<1>. QED BY <1>1, Invariance, PTL

\* A timer runs for exactly the pending batches.
THEOREM TimersAreForGroups == Spec => []TimersMatchGroups
<1>1. IInv => TimersMatchGroups
  BY DEF IInv, BatchOK, TimersMatchGroups
<1>. QED BY <1>1, Invariance, PTL

\* Batches keep to _max_size and to one compatibility key, and no item is
\* sent to the backend twice.
THEOREM WellFormedBatches == Spec => []BatchesWellFormed
<1>1. ASSUME IInv PROVE BatchesWellFormed
  <2>1. Shape /\ Disjoint /\ \A b \in Batches : BatchOK(b)
    BY <1>1 DEF IInv
  <2>2. ASSUME NEW b \in Batches, NEW c \in Batches,
               NEW m \in DOMAIN members[b], NEW n \in DOMAIN members[c],
               members[b][m] = members[c][n]
        PROVE  b = c /\ m = n
    <3>1. members[b][m] \in Members(b) /\ members[c][n] \in Members(c)
      BY DEF Members, ToSet
    <3>2. b = c
      BY <2>1, <2>2, <3>1, MemberFacts DEF Disjoint
    <3>. QED BY <2>1, <2>2, <3>2 DEF BatchOK, Distinct
  <2>3. /\ \A b \in Batches : Open(b) => Len(members[b]) \in 1..(MaxSize - 1)
        /\ \A b \in Batches : flush[b] # "none" => ~Open(b) /\ Len(members[b]) \in 1..MaxSize
        /\ \A b \in Batches : \A i, j \in Members(b) : KeyOf[i] = KeyOf[j]
    BY <2>1 DEF BatchOK
  <2>. QED BY <2>2, <2>3 DEF BatchesWellFormed
<1>. QED BY <1>1, Invariance, PTL

\* Whoever waits is held by a pending batch or by an operation that will
\* resolve its future.
THEOREM WaitersAreHeld == Spec => []NobodyForgotten
<1>1. IInv => NobodyForgotten
  BY DEF IInv, ItemOK, InOperation, NobodyForgotten
<1>. QED BY <1>1, Invariance, PTL

\* A response answers the request of the future it is set on.
THEOREM OwnAnswers == Spec => []AnswersOwnRequest
<1>1. IInv => AnswersOwnRequest
  BY DEF IInv, ItemOK, AnswersOwnRequest
<1>. QED BY <1>1, Invariance, PTL

\* After shutdown nothing is pending and no backend call begins, and when it
\* has returned no task and no unresolved future is left.
THEOREM ShutdownIsQuiet == Spec => []QuietAfterShutdown
<1>1. ASSUME IInv PROVE QuietAfterShutdown
  <2>1. Shape /\ Down /\ Accounting
    BY <1>1 DEF IInv
  <2>2. ASSUME closed
        PROVE  Grouped = {} /\ \A b \in Batches : ~Open(b)
    BY <2>1, <2>2, BatcherAssumption DEF Down, Grouped, Open
  <2>3. ASSUME closed
        PROVE  /\ pending = 0
               /\ \A b \in Batches : timer[b] # "armed" /\ flush[b] \notin {"created", "running"}
    BY <1>1, <2>1, <2>2, <2>3, FS_EmptySet DEF Accounting, IInv, BatchOK, Down
  <2>4. ASSUME stage = "done"
        PROVE  /\ inflight = 0
               /\ NoTimers /\ NoFlushes
               /\ \A i \in Items : future[i] # "pending"
    <3>1. closed /\ NoTimers /\ NoFlushes
      BY <2>1, <2>4 DEF Down
    <3>2. Operations = {}
      BY <3>1 DEF NoFlushes, Operations
    <3>3. inflight = 0
      BY <2>1, <3>2, FS_EmptySet DEF Accounting
    <3>4. \A i \in Items : future[i] # "pending"
      BY <1>1, <2>2, <3>1, <3>2 DEF IInv, ItemOK, InOperation
    <3>. QED BY <3>1, <3>3, <3>4
  <2>. QED BY <2>3, <2>4 DEF QuietAfterShutdown
<1>. QED BY <1>1, Invariance, PTL
=============================================================================
