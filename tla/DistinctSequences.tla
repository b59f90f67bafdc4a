------------------------- MODULE DistinctSequences -------------------------
(***************************************************************************)
(* Facts about sequences without repetitions: the queues of the admission  *)
(* controller and the member lists of the batcher.                         *)
(***************************************************************************)
EXTENDS Integers, FiniteSets, Sequences, SequencesExt, TLAPS,
        FiniteSetTheorems, FunctionTheorems, SequenceTheorems

Distinct(s) == \A i, j \in 1..Len(s) : s[i] = s[j] => i = j

-----------------------------------------------------------------------------
\* deque.popleft takes the first element and shifts the others.
LEMMA TailFacts ==
  ASSUME NEW S, NEW s \in Seq(S), s # << >>
  PROVE  /\ Tail(s) \in Seq(S)
         /\ Len(s) \in Nat \ {0}
         /\ Len(Tail(s)) = Len(s) - 1
         /\ Head(s) \in S
         /\ Head(s) = s[1]
         /\ \A i \in 1..Len(s) - 1 : Tail(s)[i] = s[i + 1]
OBVIOUS

\* The length and the elements of a sequence with a new last element.
LEMMA AppendFacts ==
  ASSUME NEW S, NEW s \in Seq(S), NEW e \in S
  PROVE  /\ Append(s, e) \in Seq(S)
         /\ Len(Append(s, e)) = Len(s) + 1
         /\ Append(s, e) # << >>
         /\ \A i \in 1..Len(s) : Append(s, e)[i] = s[i]
         /\ Append(s, e)[Len(s) + 1] = e
OBVIOUS

\* remove of an element that occurs at the one position k.
LEMMA RemoveFirstFacts ==
  ASSUME NEW S, NEW s \in Seq(S), NEW k \in 1..Len(s), Distinct(s)
  PROVE  /\ RemoveFirst(s, s[k]) \in Seq(S)
         /\ Len(RemoveFirst(s, s[k])) = Len(s) - 1
         /\ \A i \in 1..Len(s) - 1 :
              RemoveFirst(s, s[k])[i] = IF i < k THEN s[i] ELSE s[i + 1]
<1> DEFINE I == {i \in 1..Len(s) : s[i] = s[k]}
<1>1. I = {k}
  BY DEF Distinct
<1>2. Min({k}) = k
  BY DEF Min
<1>3. SelectInSeq(s, LAMBDA v : v = s[k]) = k
  BY <1>1, <1>2 DEF SelectInSeq
<1>4. RemoveFirst(s, s[k]) = SubSeq(s, 1, k - 1) \o SubSeq(s, k + 1, Len(s))
  BY <1>3 DEF RemoveFirst, RemoveAt
<1>5. /\ SubSeq(s, 1, k - 1) \in Seq(S)
      /\ SubSeq(s, k + 1, Len(s)) \in Seq(S)
      /\ Len(SubSeq(s, 1, k - 1)) = k - 1
      /\ Len(SubSeq(s, k + 1, Len(s))) = Len(s) - k
      /\ \A i \in 1..k - 1 : SubSeq(s, 1, k - 1)[i] = s[i]
      /\ \A i \in 1..Len(s) - k : SubSeq(s, k + 1, Len(s))[i] = s[k + i]
  OBVIOUS
<1> DEFINE u == SubSeq(s, 1, k - 1)
           v == SubSeq(s, k + 1, Len(s))
<1>6. /\ u \in Seq(S) /\ v \in Seq(S)
      /\ Len(u) = k - 1 /\ Len(v) = Len(s) - k
      /\ \A i \in 1..k - 1 : u[i] = s[i]
      /\ \A i \in 1..Len(s) - k : v[i] = s[k + i]
  BY <1>5
<1> HIDE DEF u, v
<1>7. /\ u \o v \in Seq(S)
      /\ Len(u \o v) = Len(s) - 1
      /\ \A i \in 1..Len(s) - 1 :
           (u \o v)[i] = IF i <= k - 1 THEN u[i] ELSE v[i - (k - 1)]
  <2>1. /\ u \o v \in Seq(S)
        /\ Len(u \o v) = Len(u) + Len(v)
        /\ \A i \in 1..Len(u) + Len(v) :
             (u \o v)[i] = IF i <= Len(u) THEN u[i] ELSE v[i - Len(u)]
    BY <1>6, ConcatProperties
  <2>2. Len(u) + Len(v) = Len(s) - 1
    BY <1>6
  <2>. QED BY <1>6, <2>1, <2>2
<1>8. ASSUME NEW i \in 1..Len(s) - 1
      PROVE  (u \o v)[i] = IF i < k THEN s[i] ELSE s[i + 1]
  <2>1. CASE i < k
    BY <1>6, <1>7, <2>1
  <2>2. CASE ~(i < k)
    <3>0. ~(i <= k - 1)
      BY <2>2
    <3>1. (u \o v)[i] = v[i - (k - 1)]
      BY <1>7, <3>0
    <3>2. i - (k - 1) \in 1..Len(s) - k /\ k + (i - (k - 1)) = i + 1
      BY <2>2
    <3>. QED BY <1>6, <2>2, <3>1, <3>2
  <2>. QED BY <2>1, <2>2
<1>9. RemoveFirst(s, s[k]) = u \o v
  BY <1>4 DEF u, v
<1>. QED
  BY <1>7, <1>8, <1>9

\* Leaving out position k of a sequence without duplicates removes that
\* element and nothing else.
LEMMA SkipFacts ==
  ASSUME NEW S, NEW s \in Seq(S), Distinct(s), NEW k \in 1..Len(s),
         NEW u \in Seq(S), Len(u) = Len(s) - 1,
         \A i \in 1..Len(s) - 1 : u[i] = IF i < k THEN s[i] ELSE s[i + 1]
  PROVE  /\ Distinct(u)
         /\ \A e : Contains(u, e) <=> Contains(s, e) /\ e # s[k]
<1>1. Distinct(u)
  <2>1. SUFFICES ASSUME NEW i \in 1..Len(u), NEW j \in 1..Len(u), u[i] = u[j]
                 PROVE  i = j
    BY DEF Distinct
  <2> DEFINE at(n) == IF n < k THEN n ELSE n + 1
  <2>2. /\ at(i) \in 1..Len(s) /\ at(j) \in 1..Len(s)
        /\ at(i) = at(j) => i = j
    OBVIOUS
  <2>3. u[i] = s[at(i)] /\ u[j] = s[at(j)]
    OBVIOUS
  <2> HIDE DEF at
  <2>4. at(i) = at(j)
    BY <2>1, <2>2, <2>3 DEF Distinct
  <2>. QED BY <2>2, <2>4
<1>2. ASSUME NEW e, Contains(u, e)
      PROVE  Contains(s, e) /\ e # s[k]
  <2>1. PICK i \in 1..Len(u) : u[i] = e
    BY <1>2 DEF Contains
  <2>2. PICK j \in 1..Len(s) : s[j] = e /\ j # k
    <3>1. CASE i < k
      BY <2>1, <3>1
    <3>2. CASE ~(i < k)
      BY <2>1, <3>2
    <3>. QED BY <3>1, <3>2
  <2>. QED BY <2>2 DEF Contains, Distinct
<1>3. ASSUME NEW e, Contains(s, e), e # s[k]
      PROVE  Contains(u, e)
  <2>1. PICK j \in 1..Len(s) : s[j] = e
    BY <1>3 DEF Contains
  <2>2. CASE j < k
    BY <2>1, <2>2 DEF Contains
  <2>3. CASE j > k
    <3>1. j - 1 \in 1..Len(s) - 1 /\ ~(j - 1 < k) /\ (j - 1) + 1 = j
      BY <2>3
    <3>2. u[j - 1] = e
      BY <2>1, <3>1
    <3>. QED BY <3>1, <3>2 DEF Contains
  <2>. QED BY <1>3, <2>1, <2>2, <2>3
<1>. QED BY <1>1, <1>2, <1>3

\* The tail of a sequence without repetitions loses its head and nothing else.
LEMMA PopFacts ==
  ASSUME NEW S, NEW s \in Seq(S), Distinct(s), s # << >>
  PROVE  /\ Tail(s) \in Seq(S)
         /\ Len(Tail(s)) = Len(s) - 1
         /\ Head(s) \in S
         /\ Contains(s, Head(s))
         /\ Distinct(Tail(s))
         /\ \A e : Contains(Tail(s), e) <=> Contains(s, e) /\ e # Head(s)
<1>1. 1 \in 1..Len(s)
  BY TailFacts
<1>2. Contains(s, Head(s))
  BY <1>1, TailFacts DEF Contains
<1>3. \A i \in 1..Len(s) - 1 : Tail(s)[i] = IF i < 1 THEN s[i] ELSE s[i + 1]
  BY TailFacts
<1>4. /\ Distinct(Tail(s))
      /\ \A e : Contains(Tail(s), e) <=> Contains(s, e) /\ e # s[1]
  <2> DEFINE u == Tail(s)
  <2>1. u \in Seq(S) /\ Len(u) = Len(s) - 1
    BY TailFacts
  <2>2. \A i \in 1..Len(s) - 1 : u[i] = IF i < 1 THEN s[i] ELSE s[i + 1]
    BY <1>3
  <2> HIDE DEF u
  <2>3. Distinct(u) /\ \A e : Contains(u, e) <=> Contains(s, e) /\ e # s[1]
    BY <1>1, <2>1, <2>2, SkipFacts
  <2>. QED BY <2>3 DEF u
<1>. QED BY <1>2, <1>4, TailFacts

\* Removing an element of a sequence without repetitions.
LEMMA RemoveFacts ==
  ASSUME NEW S, NEW s \in Seq(S), Distinct(s), NEW x, Contains(s, x)
  PROVE  /\ RemoveFirst(s, x) \in Seq(S)
         /\ Len(RemoveFirst(s, x)) = Len(s) - 1
         /\ Distinct(RemoveFirst(s, x))
         /\ \A e : Contains(RemoveFirst(s, x), e) <=> Contains(s, e) /\ e # x
<1>1. PICK k \in 1..Len(s) : s[k] = x
  BY DEF Contains
<1>. QED BY <1>1, RemoveFirstFacts, SkipFacts

\* Appending an element that is not in the sequence yet.
LEMMA PushFacts ==
  ASSUME NEW S, NEW s \in Seq(S), Distinct(s), NEW x \in S, ~Contains(s, x)
  PROVE  /\ Append(s, x) \in Seq(S)
         /\ Append(s, x) # << >>
         /\ Len(Append(s, x)) = Len(s) + 1
         /\ Distinct(Append(s, x))
         /\ \A e : Contains(Append(s, x), e) <=> Contains(s, e) \/ e = x
<1>1. Distinct(Append(s, x))
  BY AppendFacts DEF Distinct, Contains
<1>2. \A e : Contains(Append(s, x), e) => Contains(s, e) \/ e = x
  BY AppendFacts DEF Contains
<1>3. \A e : Contains(s, e) => Contains(Append(s, x), e)
  BY AppendFacts DEF Contains
<1>4. Contains(Append(s, x), x)
  BY AppendFacts DEF Contains
<1>. QED BY <1>1, <1>2, <1>3, <1>4, AppendFacts

\* The empty sequence.
LEMMA EmptyFacts ==
  /\ \A e : ~Contains(<< >>, e)
  /\ Distinct(<< >>)
BY DEF Contains, Distinct

-----------------------------------------------------------------------------
(***************************************************************************)
(* The same facts in terms of the set of elements.                         *)
(***************************************************************************)
\* A sequence and the set of its elements are over the same set, and empty
\* together.
LEMMA ElementFacts ==
  ASSUME NEW S, NEW s \in Seq(S)
  PROVE  /\ \A e : e \in ToSet(s) <=> Contains(s, e)
         /\ ToSet(s) \subseteq S
         /\ Len(s) \in Nat
         /\ ToSet(s) = {} <=> Len(s) = 0
         /\ s = << >> <=> Len(s) = 0
<1>1. DOMAIN s = 1..Len(s) /\ Len(s) \in Nat
  OBVIOUS
<1>2. \A e : e \in ToSet(s) <=> Contains(s, e)
  BY <1>1 DEF ToSet, Contains
<1>3. ToSet(s) \subseteq S
  BY <1>1 DEF ToSet
<1>4. ToSet(s) = {} <=> Len(s) = 0
  <2>1. Len(s) # 0 => s[1] \in ToSet(s)
    BY <1>1 DEF ToSet
  <2>2. Len(s) = 0 => 1..Len(s) = {}
    BY <1>1
  <2>. QED BY <1>1, <2>1, <2>2 DEF ToSet
<1>5. s = << >> <=> Len(s) = 0
  OBVIOUS
<1>. QED BY <1>1, <1>2, <1>3, <1>4, <1>5

\* The empty sequence has no elements.
LEMMA NoElements == ToSet(<< >>) = {} /\ Len(<< >>) = 0 /\ Distinct(<< >>)
BY DEF ToSet, Distinct

\* The number of indices of a sequence is its length.
LEMMA FromOne ==
  ASSUME NEW n \in Nat
  PROVE  IsFiniteSet(1..n) /\ Cardinality(1..n) = n
<1>1. 1 \in Int /\ n \in Int
  OBVIOUS
<1>2. IsFiniteSet(1..n) /\ Cardinality(1..n) = IF 1 > n THEN 0 ELSE n - 1 + 1
  BY ONLY <1>1, FS_Interval, Zenon
<1>. QED BY <1>2

\* A sequence without repetitions is as long as it has elements.
LEMMA DistinctCardinality ==
  ASSUME NEW S, NEW s \in Seq(S), Distinct(s)
  PROVE  IsFiniteSet(ToSet(s)) /\ Cardinality(ToSet(s)) = Len(s)
<1>1. /\ Len(s) \in Nat
      /\ s \in [1..Len(s) -> ToSet(s)]
      /\ \A e \in ToSet(s) : \E i \in 1..Len(s) : s[i] = e
  BY DEF ToSet
<1>2. s \in Bijection(1..Len(s), ToSet(s))
  <2>1. s \in Injection(1..Len(s), ToSet(s))
    BY <1>1, Fun_IsInj DEF Distinct
  <2>2. s \in Surjection(1..Len(s), ToSet(s))
    BY <1>1, Fun_IsSurj
  <2>. QED BY <2>1, <2>2 DEF Bijection
<1>3. ExistsBijection(1..Len(s), ToSet(s))
  BY <1>2 DEF ExistsBijection
<1>4. IsFiniteSet(1..Len(s)) /\ Cardinality(1..Len(s)) = Len(s)
  BY <1>1, FromOne
<1>. QED BY <1>3, <1>4, FS_Bijection

\* The elements after an element is appended, or removed.
LEMMA PushElements ==
  ASSUME NEW S, NEW s \in Seq(S), Distinct(s), NEW x \in S, x \notin ToSet(s)
  PROVE  /\ Append(s, x) \in Seq(S)
         /\ Len(Append(s, x)) = Len(s) + 1
         /\ Distinct(Append(s, x))
         /\ ToSet(Append(s, x)) = ToSet(s) \cup {x}
<1>1. ~Contains(s, x)
  BY ElementFacts
<1>2. /\ Append(s, x) \in Seq(S)
      /\ Len(Append(s, x)) = Len(s) + 1
      /\ Distinct(Append(s, x))
      /\ \A e : Contains(Append(s, x), e) <=> Contains(s, e) \/ e = x
  BY <1>1, PushFacts
<1>3. \A e : e \in ToSet(s) <=> Contains(s, e)
  BY ElementFacts
<1>4. \A e : e \in ToSet(Append(s, x)) <=> Contains(Append(s, x), e)
  BY <1>2, ElementFacts
<1>. QED BY <1>2, <1>3, <1>4

\* RemoveFirst removes one element.
LEMMA RemoveElements ==
  ASSUME NEW S, NEW s \in Seq(S), Distinct(s), NEW x \in ToSet(s)
  PROVE  /\ RemoveFirst(s, x) \in Seq(S)
         /\ Len(RemoveFirst(s, x)) = Len(s) - 1
         /\ Distinct(RemoveFirst(s, x))
         /\ ToSet(RemoveFirst(s, x)) = ToSet(s) \ {x}
<1>1. Contains(s, x)
  BY ElementFacts
<1>2. /\ RemoveFirst(s, x) \in Seq(S)
      /\ Len(RemoveFirst(s, x)) = Len(s) - 1
      /\ Distinct(RemoveFirst(s, x))
      /\ \A e : Contains(RemoveFirst(s, x), e) <=> Contains(s, e) /\ e # x
  BY <1>1, RemoveFacts
<1>3. \A e : e \in ToSet(s) <=> Contains(s, e)
  BY ElementFacts
<1>4. \A e : e \in ToSet(RemoveFirst(s, x)) <=> Contains(RemoveFirst(s, x), e)
  BY <1>2, ElementFacts
<1>. QED BY <1>2, <1>3, <1>4
=============================================================================
