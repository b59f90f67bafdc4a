-------------------------- MODULE VLLMClientProofs --------------------------
(***************************************************************************)
(* What VLLMClient promises of batches of every size, of the streaming     *)
(* responses it opens, and of what the observer makes of their chunks,     *)
(* which rests on the lemmas of SSEObserverProofs.                         *)
(***************************************************************************)
EXTENDS VLLMClient, SSEObserverProofs

-----------------------------------------------------------------------------
(***************************************************************************)
(* The loop over the choices of an answer, for answers of every length.    *)
(***************************************************************************)
\* by_index, or << >> once a choice was refused.
Tables(size) == [1..size -> Nat] \cup {<< >>}

\* The states of by_index while the loop runs: the function that the loop
\* defines exists, and is determined turn by turn.
LEMMA LoopRuns ==
  ASSUME NEW size \in Nat \ {0}, NEW indices, Len(indices) \in Nat
  PROVE  \E f : /\ f[0] = [i \in 1..size |-> 0]
                /\ \A k \in 1..Len(indices) : f[k] = Place(f[k - 1], indices, k, size)
                /\ ByIndex(indices, size) = f[Len(indices)]
<1> DEFINE S == Tables(size)
           Turn(f, k) == IF k = 0 THEN [i \in 1..size |-> 0]
                         ELSE Place(f[k - 1], indices, k, size)
           h == CHOOSE f : f = [k \in 0..Len(indices) |-> Turn(f, k)]
<1>1. PICK n \in Nat : n = Len(indices)
  OBVIOUS
<1>2. ByIndex(indices, size) = h[n]
  BY <1>1 DEF ByIndex
<1>3. PICK x \in S : x = [i \in 1..size |-> 0]
  BY DEF Tables
<1>4. ASSUME NEW b \in S, NEW k \in Nat
      PROVE  Place(b, indices, k, size) \in S
  <2>1. CASE Len(b) # size
    BY <2>1 DEF Place, Tables
  <2>2. CASE Len(b) = size
    <3>1. b \in [1..size -> Nat]
      <4>1. Len(<< >>) = 0
        OBVIOUS
      <4> QED
        BY <2>2, <4>1 DEF Tables
    <3>2. \A j : [b EXCEPT ![j] = k] \in [1..size -> Nat]
      BY <3>1
    <3> QED
      BY <3>2 DEF Place, Tables
  <2> QED
    BY <2>1, <2>2
<1> HIDE DEF S
<1>5. PICK g \in [Nat -> [S -> S]] :
        \A k \in Nat, b \in S : g[k][b] = Place(b, indices, k, size)
  <2>1. [k \in Nat |-> [b \in S |-> Place(b, indices, k, size)]] \in [Nat -> [S -> S]]
    BY <1>4
  <2> QED
    BY <2>1
<1>6. PICK f \in [0..n -> S] : f[0] = x /\ \A k \in 1..n : f[k] = g[k][f[k - 1]]
  <2>1. \E f : Turns(f, S, g, x, n)
    BY <1>5, Iteration
  <2> QED
    BY <2>1 DEF Turns
<1>7. ASSUME NEW k \in 1..n
      PROVE  f[k] = Place(f[k - 1], indices, k, size)
  <2>1. k \in Nat /\ k - 1 \in 0..n
    BY <1>1
  <2>2. f[k - 1] \in S
    BY <2>1
  <2>3. f[k] = g[k][f[k - 1]]
    BY <1>6
  <2> QED
    BY <1>5, <2>1, <2>2, <2>3
<1>8. f = [k \in 0..n |-> Turn(f, k)]
  <2>1. ASSUME NEW k \in 0..n PROVE f[k] = Turn(f, k)
    <3>1. CASE k = 0
      BY <1>3, <1>6, <3>1
    <3>2. CASE k # 0
      <4>1. k \in 1..n
        BY <1>1, <3>2
      <4> QED
        BY <1>7, <3>2, <4>1
    <3> QED
      BY <3>1, <3>2
  <2> HIDE DEF Turn
  <2> QED
    BY <2>1
<1>9. h = [k \in 0..n |-> Turn(h, k)]
  BY <1>1, <1>8
<1>10. h[n] = f[n]
  <2>1. \A k \in 0..n : h[k] = Turn(h, k)
    <3> HIDE DEF h, Turn
    <3> QED
      BY <1>9
  <2> HIDE DEF h
  <2>2. 0 \in 0..n /\ \A k \in 1..n : k \in 0..n /\ k # 0
    BY <1>1
  <2>3. h[0] = f[0]
    BY <1>3, <1>6, <2>1, <2>2
  <2>4. \A k \in 1..n : h[k] = Place(h[k - 1], indices, k, size)
    BY <2>1, <2>2
  <2>5. \A k \in 1..n : h[k - 1] = f[k - 1] => h[k] = f[k]
    BY <1>7, <2>4
  <2> QED
    BY <1>1, <2>3, <2>5, SameTurns
<1> HIDE DEF h
<1> QED
  BY <1>1, <1>2, <1>3, <1>6, <1>7, <1>10

\* The index of a choice, as the server gave it.
Given == Int \cup {NotAnIndex}

\* by_index after the first k choices: refused, or each of them at its index.
Placed(b, indices, k, size) ==
  /\ b \in [1..size -> 0..k]
  /\ \A i \in 1..size : b[i] # 0 => indices[b[i]] = i - 1
  /\ \A j \in 1..k : indices[j] \in 0..(size - 1) /\ b[indices[j] + 1] = j

\* One turn of the loop places one more choice, or refuses the answer.
LEMMA PlaceOne ==
  ASSUME NEW size \in Nat \ {0}, NEW indices \in Seq(Given), NEW k \in 1..Len(indices), NEW b,
         b = << >> \/ Placed(b, indices, k - 1, size)
  PROVE  \/ Place(b, indices, k, size) = << >>
         \/ Placed(Place(b, indices, k, size), indices, k, size)
<1>1. CASE b = << >>
  <2>1. Len(b) # size
    BY <1>1
  <2> QED
    BY <2>1 DEF Place
<1>2. CASE Placed(b, indices, k - 1, size)
  <2> SUFFICES ASSUME Place(b, indices, k, size) # << >>
               PROVE  Placed(Place(b, indices, k, size), indices, k, size)
    OBVIOUS
  <2>1. /\ indices[k] # NotAnIndex /\ indices[k] \in 0..(size - 1)
        /\ b[indices[k] + 1] = 0
        /\ Place(b, indices, k, size) = [b EXCEPT ![indices[k] + 1] = k]
    BY DEF Place
  <2>2. PICK p \in 1..size : p = indices[k] + 1
    BY <2>1
  <2> DEFINE c == [b EXCEPT ![p] = k]
  <2>3. k \in Nat /\ b \in [1..size -> 0..(k - 1)]
    BY <1>2 DEF Placed
  <2>4. c[p] = k /\ \A i \in 1..size : i # p => c[i] = b[i]
    BY <2>3
  <2>5. c \in [1..size -> 0..k]
    BY <2>3
  <2> HIDE DEF c
  <2>6. ASSUME NEW i \in 1..size, c[i] # 0
        PROVE  indices[c[i]] = i - 1
    <3>1. CASE i = p
      BY <2>1, <2>2, <2>4, <3>1
    <3>2. CASE i # p
      BY <1>2, <2>4, <2>6, <3>2 DEF Placed
    <3> QED
      BY <3>1, <3>2
  <2>7. ASSUME NEW j \in 1..k
        PROVE  indices[j] \in 0..(size - 1) /\ c[indices[j] + 1] = j
    <3>1. CASE j = k
      BY <2>1, <2>2, <2>4, <3>1
    <3>2. CASE j # k
      <4>1. j \in 1..(k - 1)
        BY <2>3, <3>2
      <4>2. indices[j] \in 0..(size - 1) /\ b[indices[j] + 1] = j
        BY <1>2, <4>1 DEF Placed
      <4>3. indices[j] + 1 \in 1..size /\ indices[j] + 1 # p
        BY <2>1, <2>2, <4>1, <4>2
      <4> QED
        BY <2>4, <4>2, <4>3
    <3> QED
      BY <3>1, <3>2
  <2>8. Place(b, indices, k, size) = c
    BY <2>1, <2>2 DEF c
  <2> QED
    BY <2>5, <2>6, <2>7, <2>8 DEF Placed
<1> QED
  BY <1>1, <1>2

\* The loop refuses the answer, or places every choice at its index.
LEMMA LoopPlaces ==
  ASSUME NEW size \in Nat \ {0}, NEW indices \in Seq(Given)
  PROVE  \/ ByIndex(indices, size) = << >>
         \/ Placed(ByIndex(indices, size), indices, Len(indices), size)
<1>1. Len(indices) \in Nat
  OBVIOUS
<1>2. PICK f : /\ f[0] = [i \in 1..size |-> 0]
               /\ \A k \in 1..Len(indices) : f[k] = Place(f[k - 1], indices, k, size)
               /\ ByIndex(indices, size) = f[Len(indices)]
  BY <1>1, LoopRuns
<1> DEFINE P(k) == f[k] = << >> \/ Placed(f[k], indices, k, size)
           T == {k \in Nat : k <= Len(indices) => P(k)}
<1>3. 0 \in T
  <2>1. Placed(f[0], indices, 0, size)
    BY <1>2 DEF Placed
  <2> QED
    BY <2>1
<1>4. ASSUME NEW k \in T
      PROVE  k + 1 \in T
  <2>1. k \in Nat /\ k + 1 \in Nat /\ (k + 1) - 1 = k
    OBVIOUS
  <2>2. ASSUME k + 1 <= Len(indices)
        PROVE  P(k + 1)
    <3>1. k + 1 \in 1..Len(indices)
      BY <1>1, <2>1, <2>2
    <3>2. P(k)
      BY <1>1, <2>1, <2>2
    <3>3. f[k + 1] = Place(f[k], indices, k + 1, size)
      BY <1>2, <2>1, <3>1
    <3>4. \/ Place(f[k], indices, k + 1, size) = << >>
          \/ Placed(Place(f[k], indices, k + 1, size), indices, k + 1, size)
      BY <2>1, <3>1, <3>2, PlaceOne
    <3> QED
      BY <3>3, <3>4
  <2> QED
    BY <2>1, <2>2
<1>5. T = Nat
  <2>1. T \subseteq Nat
    OBVIOUS
  <2> HIDE DEF T
  <2> QED
    BY <1>3, <1>4, <2>1, SetInduction
<1>6. P(Len(indices))
  BY <1>1, <1>5
<1> QED
  BY <1>2, <1>6

\* A batch that succeeds has every choice at the member that it names.
LEMMA DemultiplexAnswers ==
  ASSUME NEW size \in Nat \ {0}, NEW indices \in Seq(Given), NEW usage,
         Demultiplex(indices, usage, size).choices # << >>
  PROVE  /\ Len(indices) = size
         /\ \A i \in 0..(size - 1) : \E k \in DOMAIN indices : indices[k] = i
         /\ \A k \in DOMAIN indices :
              Demultiplex(indices, usage, size).choices[indices[k] + 1] = k
<1>1. PICK b : b = ByIndex(indices, size)
  OBVIOUS
<1>2. Len(indices) = size /\ Len(b) = size /\ 0 \notin Range(b)
      /\ Demultiplex(indices, usage, size).choices = b
  BY <1>1 DEF Demultiplex, Raised, Pending
<1>3. Placed(b, indices, size, size)
  <2>1. b # << >>
    BY <1>2
  <2> QED
    BY <1>1, <1>2, <2>1, LoopPlaces
<1>4. \A i \in 1..size : b[i] \in 1..size /\ indices[b[i]] = i - 1
  <2>1. \A i \in 1..size : b[i] # 0 /\ b[i] \in 0..size
    BY <1>2, <1>3 DEF Placed, Range
  <2> QED
    BY <1>3, <2>1 DEF Placed
<1>5. DOMAIN indices = 1..size
  BY <1>2
<1>6. ASSUME NEW i \in 0..(size - 1)
      PROVE  \E k \in DOMAIN indices : indices[k] = i
  <2>1. i + 1 \in 1..size /\ (i + 1) - 1 = i
    OBVIOUS
  <2> QED
    BY <1>4, <1>5, <2>1
<1>7. \A k \in DOMAIN indices : b[indices[k] + 1] = k
  BY <1>3, <1>5 DEF Placed
<1> QED
  BY <1>2, <1>6, <1>7

-----------------------------------------------------------------------------
(***************************************************************************)
(* The inductive invariant.                                                *)
(***************************************************************************)
Phases == {"idle", "sent", "refusing", "streaming", "closing", "ended"}

Types ==
  /\ phase \in Phases
  /\ call \in [kind : Kinds \cup {"none"}, requests : Seq(Members)]
  /\ response \in {"none", "open", "closed"}
  /\ active \in BOOLEAN
  /\ closer \in {"none", "consumer", "client"}
  /\ client \in {"open", "closing", "closed", "failed"}

\* A batch that was sent is not empty, and only a call that is over has
\* choices, which are those of the answer to it.
Batch ==
  /\ phase = "sent" /\ call.kind = "batch" => call.requests # << >>
  /\ phase # "ended" => result.choices = << >>
  /\ AnswersByIndex

\* Who has to close the response when the call is at each phase.
Owner ==
  /\ phase \in {"idle", "sent"} => response = "none" /\ ~active /\ closer = "none"
  /\ phase = "refusing" => response = "open" /\ ~active /\ closer = "none"
  /\ phase \in {"streaming", "closing"} =>
       response # "none" /\ (active <=> response = "open") /\ (closer = "none" => active)
  /\ phase = "closing" => closer # "none"
  /\ phase = "ended" =>
       /\ active <=> response = "open"
       /\ closer # "client" => ~active
       /\ closer # "none" => response # "none"
  /\ client \in {"closed", "failed"} /\ closer = "client" => ~active

IInv == Types /\ Batch /\ Owner

\* Initially there is no call and no response.
LEMMA InitHolds == Init => IInv
<1> SUFFICES ASSUME Init PROVE IInv
  OBVIOUS
<1>1. call \in [kind : Kinds \cup {"none"}, requests : Seq(Members)]
  <2>1. << >> \in Seq(Members)
    OBVIOUS
  <2> QED
    BY <2>1 DEF Init
<1>2. Types
  BY <1>1 DEF Init, Types, Phases
<1>3. Batch
  BY DEF Init, Batch, AnswersByIndex, Pending
<1>4. Owner
  BY DEF Init, Owner
<1> QED
  BY <1>2, <1>3, <1>4 DEF IInv

\* A step that leaves the call and has no answer to a batch keeps Batch.
LEMMA NoAnswer ==
  ASSUME IInv, phase # "ended",
         result' = result \/ result'.choices = << >>,
         phase' = "sent" /\ call'.kind = "batch" => call'.requests # << >>
  PROVE  Batch'
<1>1. result'.choices = << >>
  BY DEF IInv, Batch
<1> QED
  BY <1>1 DEF Batch, AnswersByIndex

\* An error has no choices.
LEMMA RaisedHasNone == \A e : Raised(e).choices = << >> /\ Pending.choices = << >>
BY DEF Raised, Pending

\* generate, stream, check_health and generate_batch send their request, or
\* refuse it.
LEMMA CallKeeps ==
  ASSUME IInv, \/ \E k \in Kinds : Send(k)
               \/ \E b \in UNION {[1..n -> Members] : n \in 0..MaxBatch} : GenerateBatch(b)
  PROVE  IInv'
<1>1. /\ phase = "idle" /\ phase' \in {"sent", "ended"}
      /\ UNCHANGED <<observer, answer, response, active, closer, client>>
      /\ result' = result \/ result'.choices = << >>
  BY RaisedHasNone DEF Send, GenerateBatch, Post
<1>2. call \in [kind : Kinds \cup {"none"}, requests : Seq(Members)]
  BY DEF IInv, Types
<1>3. /\ call' \in [kind : Kinds \cup {"none"}, requests : Seq(Members)]
      /\ phase' = "sent" /\ call'.kind = "batch" => call'.requests # << >>
  <2>1. ASSUME NEW k \in Kinds, Send(k)
        PROVE  /\ call' \in [kind : Kinds \cup {"none"}, requests : Seq(Members)]
               /\ call'.kind # "batch"
    <3>1. call' = [call EXCEPT !.kind = k] /\ k # "batch"
      BY <2>1 DEF Send
    <3> QED
      BY <1>2, <3>1
  <2>2. ASSUME NEW b \in UNION {[1..n -> Members] : n \in 0..MaxBatch}, GenerateBatch(b)
        PROVE  /\ call' \in [kind : Kinds \cup {"none"}, requests : Seq(Members)]
               /\ phase' = "sent" => call'.requests # << >>
    <3>1. PICK n \in 0..MaxBatch : b \in [1..n -> Members]
      OBVIOUS
    <3>2. n \in Nat
      BY ClientAssumption
    <3>3. b \in Seq(Members)
      BY <3>1, <3>2
    <3>4. call' = [kind |-> "batch", requests |-> b] /\ (phase' = "sent" => Compatible(b))
      BY <2>2 DEF GenerateBatch
    <3> QED
      BY <3>3, <3>4 DEF Kinds, Compatible
  <2> QED
    BY <2>1, <2>2
<1>4. Types'
  BY <1>1, <1>3 DEF IInv, Types, Phases
<1>5. Batch'
  BY <1>1, <1>3, NoAnswer
<1>6. Owner'
  BY <1>1 DEF IInv, Owner
<1> QED
  BY <1>4, <1>5, <1>6 DEF IInv

\* The answer to a batch, or to generate.
LEMMA AnsweredKeeps ==
  ASSUME IInv, NEW status, NEW json \in BOOLEAN, NEW usage,
         NEW indices \in Seq(Given), Answered(status, json, indices, usage)
  PROVE  IInv'
<1>1. /\ phase = "sent" /\ phase' = "ended" /\ answer' = indices
      /\ UNCHANGED <<observer, call, response, active, closer, client>>
  BY DEF Answered
<1>2. Types'
  BY <1>1 DEF IInv, Types, Phases
<1>3. Owner'
  BY <1>1 DEF IInv, Owner
<1>4. PICK size : size = Len(call.requests)
  OBVIOUS
<1>5. \/ result'.choices = << >>
      \/ call.kind = "batch" /\ result' = Demultiplex(indices, usage, size)
  BY <1>4, RaisedHasNone DEF Answered
<1>6. ASSUME result'.choices = << >>
      PROVE  Batch'
  BY <1>1, <1>6, NoAnswer
<1>7. ASSUME result'.choices # << >>,
             call.kind = "batch", result' = Demultiplex(indices, usage, size)
      PROVE  Batch'
  <2>1. size \in Nat \ {0}
    <3>1. call.requests \in Seq(Members) /\ call.requests # << >>
      BY <1>1, <1>7 DEF IInv, Types, Batch
    <3> QED
      BY <1>4, <3>1
  <2>2. /\ Len(indices) = size
        /\ \A i \in 0..(size - 1) : \E k \in DOMAIN indices : indices[k] = i
        /\ \A k \in DOMAIN indices : result'.choices[indices[k] + 1] = k
    BY <1>7, <2>1, DemultiplexAnswers
  <2>3. {i \in 0..(size - 1) : \E k \in DOMAIN indices : indices[k] = i} = 0..(size - 1)
    BY <2>2
  <2>4. AnswersByIndex'
    BY <1>1, <1>4, <2>2, <2>3 DEF AnswersByIndex
  <2> QED
    BY <1>1, <2>4 DEF Batch
<1>8. Batch'
  BY <1>5, <1>6, <1>7
<1> QED
  BY <1>2, <1>3, <1>8 DEF IInv

\* The other answers, and the failures, to a request that was sent.
LEMMA HeadKeeps ==
  ASSUME IInv, \/ \E f \in Failures : TransportFails(f)
               \/ \E s \in Statuses : HealthAnswered(s)
               \/ \E s \in Statuses, json \in BOOLEAN : StreamAnswered(s, json)
               \/ RefusalClosed
  PROVE  IInv'
<1>1. CASE \/ \E f \in Failures : TransportFails(f)
           \/ \E s \in Statuses : HealthAnswered(s)
  <2>1. /\ phase = "sent" /\ phase' = "ended" /\ result'.choices = << >>
        /\ UNCHANGED <<call, response, active, closer, client>>
    BY <1>1, RaisedHasNone DEF TransportFails, HealthAnswered
  <2> QED
    BY <2>1, NoAnswer DEF IInv, Types, Owner, Phases
<1>2. ASSUME NEW s \in Statuses, NEW json \in BOOLEAN, StreamAnswered(s, json)
      PROVE  IInv'
  <2>1. /\ phase = "sent" /\ response' = "open"
        /\ \/ phase' = "refusing" /\ active' = active
           \/ phase' = "streaming" /\ active' = TRUE
        /\ result' = result \/ result'.choices = << >>
        /\ UNCHANGED <<call, closer, client>>
    BY <1>2, RaisedHasNone DEF StreamAnswered, Refuse
  <2>2. Types' /\ Batch'
    BY <2>1, NoAnswer DEF IInv, Types, Phases
  <2>3. Owner'
    BY <2>1 DEF IInv, Owner
  <2> QED
    BY <2>2, <2>3 DEF IInv
<1>3. CASE RefusalClosed
  <2>1. /\ phase = "refusing" /\ phase' = "ended" /\ response' = "closed"
        /\ UNCHANGED <<call, result, active, closer, client>>
    BY <1>3 DEF RefusalClosed
  <2>2. Types' /\ Batch'
    BY <2>1, NoAnswer DEF IInv, Types, Phases
  <2>3. Owner'
    BY <2>1 DEF IInv, Owner
  <2> QED
    BY <2>2, <2>3 DEF IInv
<1> QED
  BY <1>1, <1>2, <1>3

\* A step that leaves the call, its answer and its result keeps Batch.
LEMMA SameAnswer ==
  ASSUME IInv, UNCHANGED <<call, phase, result, answer>>
  PROVE  Batch'
BY DEF IInv, Batch, AnswersByIndex

\* The body of a stream, and the steps that close it.
LEMMA StreamKeeps ==
  ASSUME IInv, \/ ChunkRelayed \/ ResponseClosed \/ StreamEnds
               \/ BodyEnds("none") \/ \E f \in Failures \ {"connect"} : BodyEnds(IterationError(f))
  PROVE  IInv'
<1>1. CASE ChunkRelayed
  <2>1. UNCHANGED <<call, phase, result, answer, response, active, closer, client>>
    BY <1>1 DEF ChunkRelayed, clientVars
  <2> QED
    BY <2>1, SameAnswer DEF IInv, Types, Owner
<1>2. CASE ResponseClosed
  <2>1. /\ closer # "none" /\ active /\ response' = "closed" /\ active' = FALSE
        /\ UNCHANGED <<call, phase, result, answer, closer, client>>
    BY <1>2 DEF ResponseClosed
  <2>2. Types' /\ Batch'
    BY <2>1, SameAnswer DEF IInv, Types
  <2>3. Owner'
    BY <2>1 DEF IInv, Owner, Types, Phases
  <2> QED
    BY <2>2, <2>3 DEF IInv
<1>3. CASE StreamEnds
  <2>1. /\ phase = "closing" /\ (closer = "consumer" => ~active) /\ phase' = "ended"
        /\ UNCHANGED <<call, result, answer, response, active, closer, client>>
    BY <1>3 DEF StreamEnds
  <2>2. Types' /\ Batch'
    BY <2>1, NoAnswer DEF IInv, Types, Phases
  <2>3. Owner'
    BY <2>1 DEF IInv, Owner, Types
  <2> QED
    BY <2>2, <2>3 DEF IInv
<1>4. CASE BodyEnds("none") \/ \E f \in Failures \ {"connect"} : BodyEnds(IterationError(f))
  <2>1. /\ phase = "streaming" /\ phase' = "closing" /\ result'.choices = << >>
        /\ closer' = (IF closer = "none" THEN "consumer" ELSE closer)
        /\ UNCHANGED <<call, answer, response, active, client>>
    BY <1>4, RaisedHasNone DEF BodyEnds
  <2>2. Types' /\ Batch'
    BY <2>1, NoAnswer DEF IInv, Types, Phases
  <2>3. Owner'
    BY <2>1 DEF IInv, Owner, Types
  <2> QED
    BY <2>2, <2>3 DEF IInv
<1> QED
  BY <1>1, <1>2, <1>3, <1>4

\* close() closes the stream that is active, and then the client.
LEMMA CloseKeeps ==
  ASSUME IInv, Close \/ ClientClosed \/ CloseRaises
  PROVE  IInv'
<1>1. UNCHANGED <<call, phase, result, answer, response, active>>
  BY DEF Close, ClientClosed, CloseRaises
<1>2. Types'
  BY <1>1 DEF IInv, Types, Close, ClientClosed, CloseRaises
<1>3. Batch'
  BY <1>1, SameAnswer
<1>4. Owner'
  <2>1. CASE Close
    BY <1>1, <2>1 DEF IInv, Owner, Types, Phases, Close
  <2>2. CASE ClientClosed \/ CloseRaises
    BY <1>1, <2>2 DEF IInv, Owner, Types, Phases, ClientClosed, CloseRaises
  <2> QED
    BY <2>1, <2>2
<1> QED
  BY <1>2, <1>3, <1>4 DEF IInv

\* Every step of the client keeps the invariant.
LEMMA NextKeeps == IInv /\ [Next]_vars => IInv'
<1> SUFFICES ASSUME IInv, [Next]_vars PROVE IInv'
  OBVIOUS
<1>1. ASSUME NEW s \in Statuses, NEW json \in BOOLEAN, Answered(s, json, << >>, "missing")
      PROVE  IInv'
  <2>1. << >> \in Seq(Given)
    OBVIOUS
  <2> QED
    BY <1>1, <2>1, AnsweredKeeps
<1>2. ASSUME NEW s \in Statuses, NEW json \in BOOLEAN, NEW i \in Indices,
             NEW u \in {"missing", "invalid", "observed"}, Answered(s, json, i, u)
      PROVE  IInv'
  <2>1. PICK n \in 0..MaxBatch : i \in [1..n -> (-1..MaxBatch) \cup {NotAnIndex}]
    BY DEF Indices
  <2>2. n \in Nat /\ MaxBatch \in Nat
    BY ClientAssumption
  <2>3. i \in [1..n -> Given]
    BY <2>1, <2>2 DEF Given
  <2>4. i \in Seq(Given)
    BY <2>2, <2>3
  <2> QED
    BY <1>2, <2>4, AnsweredKeeps
<1>3. CASE UNCHANGED vars
  <2>1. UNCHANGED <<call, phase, result, answer, response, active, closer, client>>
    BY <1>3 DEF vars, clientVars
  <2> QED
    BY <2>1, SameAnswer DEF IInv, Types, Owner
<1>4. CASE \/ \E k \in Kinds : Send(k)
           \/ \E b \in UNION {[1..n -> Members] : n \in 0..MaxBatch} : GenerateBatch(b)
  BY <1>4, CallKeeps
<1>5. CASE \/ \E f \in Failures : TransportFails(f)
           \/ \E s \in Statuses : HealthAnswered(s)
           \/ \E s \in Statuses, json \in BOOLEAN : StreamAnswered(s, json)
           \/ RefusalClosed
  BY <1>5, HeadKeeps
<1>6. CASE \/ ChunkRelayed \/ ResponseClosed \/ StreamEnds
           \/ BodyEnds("none") \/ \E f \in Failures \ {"connect"} : BodyEnds(IterationError(f))
  BY <1>6, StreamKeeps
<1>7. CASE Close \/ ClientClosed \/ CloseRaises
  BY <1>7, CloseKeeps
<1> QED
  BY <1>1, <1>2, <1>3, <1>4, <1>5, <1>6, <1>7 DEF Next

-----------------------------------------------------------------------------
(***************************************************************************)
(* The observer of the stream, on which no other step depends.             *)
(***************************************************************************)
\* The relay finalizes the observer when the stream has ended, and shows it
\* nothing afterwards.
ObserverInv == Watched /\ (finalized => phase = "ended")

\* Every step keeps the observer in agreement with the reader.
LEMMA ObserverKeeps == ObserverInv /\ [Next]_vars => ObserverInv'
<1> SUFFICES ASSUME ObserverInv, [Next]_vars PROVE ObserverInv'
  OBVIOUS
<1>1. CASE ChunkRelayed
  <2>1. ~finalized /\ ObserveBytes /\ finalized' = finalized /\ Watched
    BY <1>1 DEF ChunkRelayed, ObserveBytes, ObserverInv
  <2>2. Watched'
    BY <2>1, ObserveBytesKeeps
  <2> QED
    BY <2>1, <2>2 DEF ObserverInv
<1>2. CASE StreamEnds
  <2>1. ~finalized /\ FinalizeObserver /\ phase' = "ended" /\ Watched
    BY <1>2 DEF StreamEnds, ObserverInv
  <2>2. Watched'
    BY <2>1, FinalizeKeeps
  <2> QED
    BY <2>1, <2>2 DEF ObserverInv
<1>3. ASSUME UNCHANGED observer, phase' = phase \/ phase # "ended"
      PROVE  ObserverInv'
  BY <1>3, WatchedStays DEF ObserverInv, observer
<1>4. CASE \/ \E k \in Kinds : Send(k)
           \/ \E b \in UNION {[1..n -> Members] : n \in 0..MaxBatch} : GenerateBatch(b)
  BY <1>3, <1>4 DEF Send, GenerateBatch
<1>5. CASE \/ \E f \in Failures : TransportFails(f)
           \/ \E s \in Statuses : HealthAnswered(s)
           \/ \E s \in Statuses, json \in BOOLEAN : StreamAnswered(s, json)
           \/ RefusalClosed
  BY <1>3, <1>5 DEF TransportFails, HealthAnswered, StreamAnswered, RefusalClosed
<1>6. ASSUME NEW s, NEW json, NEW i, NEW u, Answered(s, json, i, u)
      PROVE  ObserverInv'
  BY <1>3, <1>6 DEF Answered
<1>7. CASE BodyEnds("none") \/ \E f \in Failures \ {"connect"} : BodyEnds(IterationError(f))
  BY <1>3, <1>7 DEF BodyEnds
<1>8. CASE ResponseClosed \/ Close \/ ClientClosed \/ CloseRaises
  BY <1>3, <1>8 DEF ResponseClosed, Close, ClientClosed, CloseRaises
<1>9. CASE UNCHANGED vars
  <2>1. UNCHANGED observer /\ phase' = phase
    BY <1>9 DEF vars, clientVars
  <2> QED
    BY <1>3, <2>1
<1> QED
  BY <1>1, <1>2, <1>4, <1>5, <1>6, <1>7, <1>8, <1>9 DEF Next

\* The observer agrees with the reader throughout.
LEMMA ObserverInvariance == Spec => []ObserverInv
<1>1. Init => ObserverInv
  <2> SUFFICES ASSUME Init PROVE ObserverInv
    OBVIOUS
  <2>1. Watched
    BY WatchedInit DEF Init
  <2>2. finalized = FALSE
    BY DEF Init, ObserverInit
  <2> QED
    BY <2>1, <2>2 DEF ObserverInv
<1> QED
  BY <1>1, ObserverKeeps, PTL DEF Spec

-----------------------------------------------------------------------------
\* The inductive invariant holds throughout.
THEOREM Invariance == Spec => []IInv
BY InitHolds, NextKeeps, PTL DEF Spec

\* A batch of any size that succeeds answers each member with the choice that
\* names it (vllm.py _demultiplex_batch_response), in whatever order, with
\* whatever repetitions and omissions the server answers.
THEOREM MembersGetTheirChoices == Spec => []AnswersByIndex
<1>1. IInv => AnswersByIndex
  BY DEF IInv, Batch
<1> QED
  BY <1>1, Invariance, PTL

\* An open streaming response always has somebody who will close it, and is
\* closed when they are done (vllm.py stream, aclose and close).
THEOREM NoResponseIsLost == Spec => []ResponsesOwned
<1>1. IInv => ResponsesOwned
  BY DEF IInv, Types, Phases, Owner, ResponsesOwned
<1> QED
  BY <1>1, Invariance, PTL

\* What the observer sees of a stream (sse.py observe_bytes, _drain_events)
\* does not depend on how the stream is cut into chunks, for every stream,
\* every way to cut it and every max_event_bytes.
THEOREM ChunksDoNotMatter == Spec => []ChunkingIsInvisible
<1>1. ObserverInv => ChunkingIsInvisible
  BY DEF ObserverInv, Watched
<1> QED
  BY <1>1, ObserverInvariance, PTL

\* Every stream is counted once, as what it showed (sse.py finalize).
THEOREM StreamsAreCounted == Spec => []StreamCountedOnce
<1>1. ObserverInv => StreamCountedOnce
  BY WatchedCounts DEF ObserverInv
<1> QED
  BY <1>1, ObserverInvariance, PTL
=============================================================================
