------------------------- MODULE SSEObserverProofs -------------------------
(***************************************************************************)
(* The observer and the reader of single symbols agree, for every stream,  *)
(* every way to cut it into chunks and every max_event_bytes: lemmas on    *)
(* which the theorems of VLLMClientProofs about the observer rest.         *)
(*                                                                         *)
(* The argument: reading a symbol that completes no blank line leaves the  *)
(* text of the buffer as it is, and reading one that completes a blank     *)
(* line is one turn of _drain_events, since the first match of             *)
(* _EVENT_BOUNDARY ends with the first symbol that completes a blank line. *)
(***************************************************************************)
EXTENDS SSEObserver, TLAPS, SequenceTheorems, WellFoundedInduction

Symbols == Texts \cup NewLines

-----------------------------------------------------------------------------
(***************************************************************************)
(* Numbers.                                                                *)
(***************************************************************************)
\* A set of numbers that is not empty has a least element.
LEMMA Least ==
  ASSUME NEW T, T \subseteq Nat, T # {}
  PROVE  \E x \in T : \A y \in T : x <= y
<1> DEFINE R == OpToRel(<, Nat)
<1>1. IsWellFoundedOn(R, Nat)
  BY NatLessThanWellFounded
<1>2. \A x, y \in Nat : y < x => <<y, x>> \in R
  BY DEF OpToRel
<1> HIDE DEF R
<1>3. PICK x \in T : \A y \in T : <<y, x>> \notin R
  BY <1>1, WFMin
<1>4. ASSUME NEW y \in T
      PROVE  x <= y
  <2>1. x \in Nat /\ y \in Nat
    OBVIOUS
  <2>2. ~(y < x)
    BY <1>2, <1>3, <2>1
  <2> QED
    BY <2>1, <2>2
<1> QED
  BY <1>4

\* Induction, for sets of numbers.
LEMMA SetInduction ==
  ASSUME NEW T, T \subseteq Nat, 0 \in T, \A n \in T : n + 1 \in T
  PROVE  T = Nat
<1> SUFFICES ASSUME Nat \ T # {} PROVE FALSE
  OBVIOUS
<1>1. PICK x \in Nat \ T : \A y \in Nat \ T : x <= y
  BY Least
<1>2. x # 0 /\ x - 1 \in Nat
  BY <1>1
<1>3. x - 1 \in T
  BY <1>1, <1>2
<1> QED
  BY <1>1, <1>2, <1>3

\* The same for the numbers up to n.
LEMMA SetInductionTo ==
  ASSUME NEW n \in Nat, NEW T, 0 \in T, \A k \in 0..(n - 1) : k \in T => k + 1 \in T
  PROVE  0..n \subseteq T
<1> DEFINE U == {k \in Nat : k > n \/ k \in T}
<1>1. U = Nat
  <2>1. U \subseteq Nat /\ 0 \in U
    OBVIOUS
  <2>2. ASSUME NEW k \in U PROVE k + 1 \in U
    OBVIOUS
  <2> HIDE DEF U
  <2> QED
    BY <2>1, <2>2, SetInduction
<1> QED
  BY <1>1

\* The function f counts n turns from x, the k-th of which is g[k].
Turns(f, S, g, x, n) ==
  f \in [0..n -> S] /\ f[0] = x /\ \A k \in 1..n : f[k] = g[k][f[k - 1]]

\* Such a function exists.
LEMMA Iteration ==
  ASSUME NEW S, NEW g \in [Nat -> [S -> S]], NEW x \in S, NEW n \in Nat
  PROVE  \E f : Turns(f, S, g, x, n)
<1> DEFINE T == {m \in Nat : \E f \in [0..m -> S] : f[0] = x /\ \A k \in 1..m : f[k] = g[k][f[k - 1]]}
<1>1. 0 \in T
  <2>1. [k \in 0..0 |-> x] \in [0..0 -> S] /\ [k \in 0..0 |-> x][0] = x
    OBVIOUS
  <2>2. \A k \in 1..0 : FALSE
    OBVIOUS
  <2> QED
    BY <2>1, <2>2
<1>2. ASSUME NEW m \in T
      PROVE  m + 1 \in T
  <2>1. PICK f \in [0..m -> S] : f[0] = x /\ \A k \in 1..m : f[k] = g[k][f[k - 1]]
    OBVIOUS
  <2> DEFINE h == [k \in 0..(m + 1) |-> IF k = m + 1 THEN g[m + 1][f[m]] ELSE f[k]]
  <2>2. m \in Nat /\ f[m] \in S /\ g[m + 1][f[m]] \in S
    OBVIOUS
  <2>3. h \in [0..(m + 1) -> S] /\ (\A k \in 0..m : h[k] = f[k]) /\ h[m + 1] = g[m + 1][f[m]]
    BY <2>2
  <2> HIDE DEF h
  <2>4. 0 \in 0..m /\ m \in 0..m
    BY <2>2
  <2>5. ASSUME NEW k \in 1..(m + 1)
        PROVE  h[k] = g[k][h[k - 1]]
    <3>1. CASE k = m + 1
      <4>1. k - 1 = m
        BY <2>2, <3>1
      <4> QED
        BY <2>3, <2>4, <3>1, <4>1
    <3>2. CASE k # m + 1
      <4>1. k \in 1..m /\ k \in 0..m /\ k - 1 \in 0..m
        BY <2>2, <3>2
      <4> QED
        BY <2>1, <2>3, <4>1
    <3> QED
      BY <3>1, <3>2
  <2>6. h[0] = x
    BY <2>1, <2>3, <2>4
  <2>7. m + 1 \in Nat
    BY <2>2
  <2> QED
    BY <2>3, <2>5, <2>6, <2>7
<1>3. n \in T
  <2>1. T \subseteq Nat
    OBVIOUS
  <2> HIDE DEF T
  <2> QED
    BY <1>1, <1>2, <2>1, SetInduction
<1> QED
  BY <1>3 DEF Turns

\* Two functions that begin alike, and go on alike, end alike.
LEMMA SameTurns ==
  ASSUME NEW n \in Nat, NEW f, NEW h, h[0] = f[0],
         \A k \in 1..n : h[k - 1] = f[k - 1] => h[k] = f[k]
  PROVE  h[n] = f[n]
<1> DEFINE T == {m \in Nat : h[m] = f[m]}
<1>1. 0 \in T
  OBVIOUS
<1>2. ASSUME NEW m \in 0..(n - 1), m \in T PROVE m + 1 \in T
  <2>1. m + 1 \in 1..n /\ (m + 1) - 1 = m /\ m + 1 \in Nat
    OBVIOUS
  <2>2. h[m] = f[m]
    BY <1>2
  <2> QED
    BY <2>1, <2>2
<1>3. 0..n \subseteq T
  <2> HIDE DEF T
  <2> QED
    BY <1>1, <1>2, SetInductionTo
<1>4. n \in 0..n
  OBVIOUS
<1> QED
  BY <1>3, <1>4

-----------------------------------------------------------------------------
(***************************************************************************)
(* Boundaries.                                                             *)
(***************************************************************************)
\* The four forms of a boundary at position i.
Two(b, i) == i + 1 <= Len(b) /\ b[i] = LF /\ b[i + 1] = LF
ThreeCR(b, i) == i + 2 <= Len(b) /\ b[i] = CR /\ b[i + 1] = LF /\ b[i + 2] = LF
ThreeLF(b, i) == i + 2 <= Len(b) /\ b[i] = LF /\ b[i + 1] = CR /\ b[i + 2] = LF
Four(b, i) ==
  i + 3 <= Len(b) /\ b[i] = CR /\ b[i + 1] = LF /\ b[i + 2] = CR /\ b[i + 3] = LF

\* The two kinds of line ends are different.
LEMMA LineEnds == LF # CR /\ LF \in Symbols /\ CR \in Symbols
BY DEF LF, CR, Symbols, NewLines

\* A part of a sequence, symbol by symbol.
LEMMA PartFacts ==
  ASSUME NEW b \in Seq(Symbols), NEW i \in 1..(Len(b) + 1), NEW k \in Nat, i + k - 1 <= Len(b)
  PROVE  /\ SubSeq(b, i, i + k - 1) \in Seq(Symbols)
         /\ Len(SubSeq(b, i, i + k - 1)) = k
         /\ \A m \in 1..k : SubSeq(b, i, i + k - 1)[m] = b[i + m - 1]
<1>1. i + k - 1 \in Int /\ Len(b) \in Nat
  OBVIOUS
<1>2. \A m \in i..(i + k - 1) : b[m] \in Symbols
  OBVIOUS
<1> QED
  BY <1>1, <1>2, SubSeqProperties

\* Where the pattern matches, the match has the length of its form.
LEMMA FormOfBoundary ==
  ASSUME NEW b \in Seq(Symbols), NEW i \in 1..Len(b)
  PROVE  /\ Two(b, i) => BoundaryAt(b, i) = 2
         /\ ThreeCR(b, i) \/ ThreeLF(b, i) => BoundaryAt(b, i) = 3
         /\ Four(b, i) => BoundaryAt(b, i) = 4
         /\ ~Two(b, i) /\ ~ThreeCR(b, i) /\ ~ThreeLF(b, i) /\ ~Four(b, i) => BoundaryAt(b, i) = 0
<1> DEFINE part(k) == SubSeq(b, i, i + k - 1)
           forms == {<<LF, LF>>, <<CR, LF, LF>>, <<LF, CR, LF>>, <<CR, LF, CR, LF>>}
           matches == {k \in {2, 3, 4} : i + k - 1 <= Len(b) /\ part(k) \in forms}
<1>0. LF # CR
  BY LineEnds
<1>1. i \in Nat /\ Len(b) \in Nat
  OBVIOUS
<1>13. /\ Len(<<LF, LF>>) = 2 /\ Len(<<CR, LF, LF>>) = 3
      /\ Len(<<LF, CR, LF>>) = 3 /\ Len(<<CR, LF, CR, LF>>) = 4
  OBVIOUS
<1>2. i + 1 <= Len(b) => (part(2) \in forms <=> Two(b, i))
  <2> SUFFICES ASSUME i + 1 <= Len(b) PROVE part(2) \in forms <=> Two(b, i)
    OBVIOUS
  <2>1. part(2) \in Seq(Symbols) /\ Len(part(2)) = 2 /\ part(2)[1] = b[i] /\ part(2)[2] = b[i + 1]
    BY <1>1, PartFacts
  <2>2. part(2) = <<b[i], b[i + 1]>>
    <3> HIDE DEF part
    <3> QED BY <2>1
  <2>3. part(2) # <<CR, LF, LF>> /\ part(2) # <<LF, CR, LF>> /\ part(2) # <<CR, LF, CR, LF>>
    <3>1. 2 # 3 /\ 2 # 4 /\ 3 # 4
      OBVIOUS
    <3> HIDE DEF part
    <3> QED BY <1>13, <2>1, <3>1, Zenon
  <2>4. part(2) = <<LF, LF>> <=> Two(b, i)
    <3> HIDE DEF part
    <3> QED BY <2>1, <2>2 DEF Two
  <2> HIDE DEF part
  <2> QED
    BY <2>3, <2>4
<1>3. i + 2 <= Len(b) => (part(3) \in forms <=> ThreeCR(b, i) \/ ThreeLF(b, i))
  <2> SUFFICES ASSUME i + 2 <= Len(b) PROVE part(3) \in forms <=> ThreeCR(b, i) \/ ThreeLF(b, i)
    OBVIOUS
  <2>1. part(3) \in Seq(Symbols) /\ Len(part(3)) = 3 /\ part(3)[1] = b[i] /\ part(3)[2] = b[i + 1]
        /\ part(3)[3] = b[i + 2]
    BY <1>1, PartFacts
  <2>2. part(3) = <<b[i], b[i + 1], b[i + 2]>>
    <3> HIDE DEF part
    <3> QED BY <2>1
  <2>3. part(3) # <<LF, LF>> /\ part(3) # <<CR, LF, CR, LF>>
    <3>1. 2 # 3 /\ 2 # 4 /\ 3 # 4
      OBVIOUS
    <3> HIDE DEF part
    <3> QED BY <1>13, <2>1, <3>1, Zenon
  <2>4. /\ part(3) = <<CR, LF, LF>> <=> ThreeCR(b, i)
        /\ part(3) = <<LF, CR, LF>> <=> ThreeLF(b, i)
    <3> HIDE DEF part
    <3> QED BY <2>1, <2>2 DEF ThreeCR, ThreeLF
  <2> HIDE DEF part
  <2> QED
    BY <2>3, <2>4
<1>4. i + 3 <= Len(b) => (part(4) \in forms <=> Four(b, i))
  <2> SUFFICES ASSUME i + 3 <= Len(b) PROVE part(4) \in forms <=> Four(b, i)
    OBVIOUS
  <2>1. part(4) \in Seq(Symbols) /\ Len(part(4)) = 4 /\ part(4)[1] = b[i] /\ part(4)[2] = b[i + 1]
        /\ part(4)[3] = b[i + 2] /\ part(4)[4] = b[i + 3]
    BY <1>1, PartFacts
  <2>2. part(4) = <<b[i], b[i + 1], b[i + 2], b[i + 3]>>
    <3> HIDE DEF part
    <3> QED BY <2>1
  <2> HIDE DEF part
  <2> QED
    BY <2>1, <2>2 DEF Four
<1>5. /\ 2 \in matches <=> Two(b, i)
      /\ 3 \in matches <=> ThreeCR(b, i) \/ ThreeLF(b, i)
      /\ 4 \in matches <=> Four(b, i)
  <2>1. i + 2 - 1 = i + 1 /\ i + 3 - 1 = i + 2 /\ i + 4 - 1 = i + 3
    BY <1>1
  <2> HIDE DEF part, forms
  <2>2. /\ Two(b, i) => i + 1 <= Len(b)
        /\ ThreeCR(b, i) \/ ThreeLF(b, i) => i + 2 <= Len(b)
        /\ Four(b, i) => i + 3 <= Len(b)
    BY DEF Two, ThreeCR, ThreeLF, Four
  <2> QED
    BY <1>2, <1>3, <1>4, <2>1, <2>2
<1>6. BoundaryAt(b, i) = IF matches = {} THEN 0 ELSE CHOOSE k \in matches : TRUE
  BY DEF BoundaryAt
<1>7. matches \subseteq {2, 3, 4}
  OBVIOUS
<1> HIDE DEF matches
<1>8. /\ Two(b, i) => ~ThreeCR(b, i) /\ ~ThreeLF(b, i) /\ ~Four(b, i)
      /\ ThreeCR(b, i) \/ ThreeLF(b, i) => ~Four(b, i)
  BY <1>0 DEF Two, ThreeCR, ThreeLF, Four
<1>9. CASE Two(b, i)
  <2>1. matches = {2}
    BY <1>5, <1>7, <1>8, <1>9
  <2> QED
    BY <1>6, <1>8, <1>9, <2>1
<1>10. CASE ThreeCR(b, i) \/ ThreeLF(b, i)
  <2>1. matches = {3}
    BY <1>5, <1>7, <1>8, <1>10
  <2> QED
    BY <1>6, <1>8, <1>10, <2>1
<1>11. CASE Four(b, i)
  <2>1. matches = {4}
    BY <1>5, <1>7, <1>8, <1>11
  <2> QED
    BY <1>6, <1>8, <1>11, <2>1
<1>12. CASE ~Two(b, i) /\ ~ThreeCR(b, i) /\ ~ThreeLF(b, i) /\ ~Four(b, i)
  <2>1. matches = {}
    BY <1>5, <1>7, <1>12
  <2> QED
    BY <1>6, <1>12, <2>1
<1> QED
  BY <1>9, <1>10, <1>11, <1>12

\* A boundary ends at j: the symbols up to j end with a blank line.
Ends(b, j) ==
  /\ j \in 2..Len(b) /\ b[j] = LF
  /\ b[j - 1] = LF \/ (j >= 3 /\ b[j - 1] = CR /\ b[j - 2] = LF)

\* Every match ends at a blank line, and consists of line ends.
LEMMA BoundaryEnds ==
  ASSUME NEW b \in Seq(Symbols), NEW i \in Boundaries(b)
  PROVE  /\ i \in 1..Len(b) /\ BoundaryAt(b, i) \in 2..4
         /\ Ends(b, i + BoundaryAt(b, i) - 1)
         /\ \A m \in i..(i + BoundaryAt(b, i) - 1) : b[m] \in NewLines
<1>1. i \in 1..Len(b) /\ BoundaryAt(b, i) > 0 /\ Len(b) \in Nat
  BY DEF Boundaries
<1>2. CASE Two(b, i)
  <2>1. BoundaryAt(b, i) = 2
    BY <1>1, <1>2, FormOfBoundary
  <2> QED
    BY <1>1, <1>2, <2>1 DEF Two, Ends, NewLines
<1>3. CASE ThreeCR(b, i) \/ ThreeLF(b, i)
  <2>1. BoundaryAt(b, i) = 3
    BY <1>1, <1>3, FormOfBoundary
  <2> QED
    BY <1>1, <1>3, <2>1 DEF ThreeCR, ThreeLF, Ends, NewLines
<1>4. CASE Four(b, i)
  <2>1. BoundaryAt(b, i) = 4
    BY <1>1, <1>4, FormOfBoundary
  <2> QED
    BY <1>1, <1>4, <2>1 DEF Four, Ends, NewLines
<1>5. Two(b, i) \/ ThreeCR(b, i) \/ ThreeLF(b, i) \/ Four(b, i)
  BY <1>1, FormOfBoundary
<1> QED
  BY <1>2, <1>3, <1>4, <1>5

\* At every blank line some match ends.
LEMMA EndsBoundary ==
  ASSUME NEW b \in Seq(Symbols), NEW j, Ends(b, j)
  PROVE  \E i \in Boundaries(b) : i + BoundaryAt(b, i) - 1 = j
<1>1. j \in 2..Len(b) /\ Len(b) \in Nat /\ DOMAIN b = 1..Len(b)
  BY DEF Ends
<1>2. CASE b[j - 1] = LF
  <2>1. j - 1 \in 1..Len(b) /\ Two(b, j - 1)
    BY <1>1, <1>2 DEF Ends, Two
  <2>2. BoundaryAt(b, j - 1) = 2
    BY <2>1, FormOfBoundary
  <2> QED
    BY <1>1, <2>1, <2>2 DEF Boundaries
<1>3. CASE b[j - 1] # LF
  <2>1. j - 2 \in 1..Len(b) /\ ThreeLF(b, j - 2)
    BY <1>1, <1>3 DEF Ends, ThreeLF
  <2>2. BoundaryAt(b, j - 2) = 3
    BY <2>1, FormOfBoundary
  <2> QED
    BY <1>1, <2>1, <2>2 DEF Boundaries
<1> QED
  BY <1>2, <1>3

\* The first match ends at the first blank line, although matches overlap.
LEMMA FirstBoundary ==
  ASSUME NEW b \in Seq(Symbols), NEW n, Ends(b, n), \A j \in 2..(n - 1) : ~Ends(b, j),
         NEW i \in Boundaries(b), \A k \in Boundaries(b) : i <= k
  PROVE  i + BoundaryAt(b, i) - 1 = n
<1>0. LF # CR
  BY LineEnds
<1>1. n \in 2..Len(b) /\ Len(b) \in Nat /\ DOMAIN b = 1..Len(b) /\ b[n] = LF
  BY DEF Ends
<1>2. /\ i \in 1..Len(b) /\ BoundaryAt(b, i) \in 2..4
      /\ Ends(b, i + BoundaryAt(b, i) - 1)
  BY BoundaryEnds
<1>3. i + BoundaryAt(b, i) - 1 >= n
  BY <1>1, <1>2
<1>4. PICK k \in Boundaries(b) : k + BoundaryAt(b, k) - 1 = n
  BY EndsBoundary
<1>5. i <= k /\ k \in 1..Len(b) /\ BoundaryAt(b, k) \in 2..4
  BY <1>4, BoundaryEnds
<1>6. n >= i + 1
  BY <1>1, <1>2, <1>4, <1>5
<1>7. ASSUME b[i] = CR PROVE n # i + 1
  <2> SUFFICES ASSUME n = i + 1 PROVE FALSE
    OBVIOUS
  <2>1. n - 1 = i /\ n - 2 = i - 1
    BY <1>2
  <2>2. b[i] # LF
    BY <1>0, <1>7
  <2>3. n >= 3 /\ b[i - 1] = LF
    BY <2>1, <2>2 DEF Ends
  <2>4. i - 1 \in 1..Len(b) /\ ThreeLF(b, i - 1)
    BY <1>1, <1>2, <1>7, <2>3 DEF ThreeLF
  <2>5. BoundaryAt(b, i - 1) = 3
    BY <2>4, FormOfBoundary
  <2>6. i - 1 \in Boundaries(b)
    BY <1>1, <2>4, <2>5 DEF Boundaries
  <2> QED
    BY <1>2, <2>6
<1>8. CASE Two(b, i)
  <2>1. BoundaryAt(b, i) = 2
    BY <1>2, <1>8, FormOfBoundary
  <2> QED
    BY <1>1, <1>2, <1>3, <1>6, <2>1
<1>9. CASE ThreeCR(b, i)
  <2>1. BoundaryAt(b, i) = 3
    BY <1>2, <1>9, FormOfBoundary
  <2>2. b[i] = CR
    BY <1>9 DEF ThreeCR
  <2> QED
    BY <1>1, <1>2, <1>3, <1>6, <1>7, <2>1, <2>2
<1>10. CASE ThreeLF(b, i)
  <2>1. BoundaryAt(b, i) = 3
    BY <1>2, <1>10, FormOfBoundary
  <2>2. n # i + 1
    BY <1>0, <1>1, <1>10 DEF ThreeLF
  <2> QED
    BY <1>1, <1>2, <1>3, <1>6, <2>1, <2>2
<1>11. CASE Four(b, i)
  <2>1. BoundaryAt(b, i) = 4
    BY <1>2, <1>11, FormOfBoundary
  <2>2. n # i + 2
    BY <1>0, <1>1, <1>11 DEF Four
  <2>3. b[i] = CR
    BY <1>11 DEF Four
  <2> QED
    BY <1>1, <1>2, <1>3, <1>6, <1>7, <2>1, <2>2, <2>3
<1>12. BoundaryAt(b, i) > 0
  BY DEF Boundaries
<1> QED
  BY <1>2, <1>8, <1>9, <1>10, <1>11, <1>12, FormOfBoundary

\* A buffer without a match is one without a blank line.
LEMMA NoBoundary ==
  ASSUME NEW b \in Seq(Symbols)
  PROVE  Boundaries(b) = {} <=> \A j : ~Ends(b, j)
BY BoundaryEnds, EndsBoundary

\* What follows does not matter for the blank lines of a text.
LEMMA EndsBefore ==
  ASSUME NEW b \in Seq(Symbols), NEW r \in Seq(Symbols), NEW j \in 1..Len(b)
  PROVE  Ends(b \o r, j) <=> Ends(b, j)
<1>1. /\ Len(b \o r) = Len(b) + Len(r) /\ Len(b) \in Nat /\ Len(r) \in Nat
      /\ \A m \in 1..Len(b) : (b \o r)[m] = b[m]
  BY ConcatProperties
<1> QED
  BY <1>1 DEF Ends

\* The reader looks for a blank line at the end of the text.
LEMMA BlankLine ==
  ASSUME NEW e \in Seq(Symbols)
  PROVE  BlankLineEnds(e) <=> Ends(e, Len(e))
<1>1. Len(e) \in Nat
  OBVIOUS
<1> QED
  BY <1>1 DEF BlankLineEnds, Ends

\* The line ends at the end of an event do not change its data.
LEMMA SameData ==
  ASSUME NEW e \in Seq(Symbols), NEW n \in 1..Len(e),
         \A m \in n..Len(e) : e[m] \in NewLines
  PROVE  DataOf(SubSeq(e, 1, n - 1)) = DataOf(e)
<1>1. PICK d : d = SubSeq(e, 1, n - 1)
  OBVIOUS
<1>2. /\ d \in Seq(Symbols) /\ Len(d) = n - 1 /\ Len(e) \in Nat
      /\ \A m \in 1..(n - 1) : d[m] = e[m]
  <2>1. 1 \in 1..(Len(e) + 1) /\ n - 1 \in Nat /\ 1 + (n - 1) - 1 = n - 1 /\ n - 1 <= Len(e)
    OBVIOUS
  <2>2. /\ SubSeq(e, 1, n - 1) \in Seq(Symbols) /\ Len(SubSeq(e, 1, n - 1)) = n - 1
        /\ \A m \in 1..(n - 1) : SubSeq(e, 1, n - 1)[m] = e[1 + m - 1]
    BY <2>1, PartFacts
  <2> QED
    BY <1>1, <2>1, <2>2
<1>3. DOMAIN d = 1..(n - 1) /\ DOMAIN e = 1..Len(e)
  BY <1>2
<1>4. DataLines(d) = DataLines(e)
  <2>1. ASSUME NEW i PROVE i \in DataLines(d) <=> i \in DataLines(e)
    <3>1. CASE i \in 1..(n - 1)
      <4>1. i # 1 => i - 1 \in 1..(n - 1)
        BY <3>1
      <4>2. d[i] = e[i] /\ (i # 1 => d[i - 1] = e[i - 1]) /\ i \in DOMAIN d /\ i \in DOMAIN e
        BY <1>2, <1>3, <3>1, <4>1
      <4> QED
        BY <4>2 DEF DataLines
    <3>2. CASE i \notin 1..(n - 1)
      <4>1. i \in DOMAIN e => e[i] \in NewLines
        BY <1>3, <3>2
      <4>2. i \notin DOMAIN d
        BY <1>3, <3>2
      <4> QED
        BY <4>1, <4>2 DEF DataLines
    <3> QED
      BY <3>1, <3>2
  <2> QED
    BY <2>1
<1>5. CASE DataLines(e) = {}
  BY <1>1, <1>4, <1>5 DEF DataOf
<1>6. CASE DataLines(e) # {}
  <2>1. PICK i : i = CHOOSE k \in DataLines(e) : TRUE
    OBVIOUS
  <2>2. i \in DataLines(e) /\ i \in DOMAIN d
    BY <1>4, <1>6, <2>1 DEF DataLines
  <2>3. d[i] = e[i] /\ i \in 1..(n - 1)
    BY <1>2, <1>3, <2>2
  <2>4. i = Len(d) \/ d[i + 1] \in NewLines <=> i = Len(e) \/ e[i + 1] \in NewLines
    <3>1. CASE i = n - 1
      <4>1. e[i + 1] \in NewLines
        BY <1>2, <2>3, <3>1
      <4> QED
        BY <1>2, <3>1, <4>1
    <3>2. CASE i # n - 1
      <4>1. i + 1 \in 1..(n - 1) /\ i # Len(e) /\ i # Len(d)
        BY <1>2, <2>3, <3>2
      <4> QED
        BY <1>2, <4>1
    <3> QED
      BY <3>1, <3>2
  <2>5. DataOf(d) = IF Cardinality(DataLines(e)) = 1 /\ (i = Len(d) \/ d[i + 1] \in NewLines)
                    THEN d[i] ELSE "malformed"
    BY <1>4, <1>6, <2>1 DEF DataOf
  <2>6. DataOf(e) = IF Cardinality(DataLines(e)) = 1 /\ (i = Len(e) \/ e[i + 1] \in NewLines)
                    THEN e[i] ELSE "malformed"
    BY <1>6, <2>1 DEF DataOf
  <2> QED
    BY <1>1, <2>3, <2>4, <2>5, <2>6
<1> QED
  BY <1>5, <1>6

-----------------------------------------------------------------------------
(***************************************************************************)
(* The observer.                                                           *)
(***************************************************************************)
UsageResults == {"none", "observed", "invalid"}
Observers == [buffer : Seq(Symbols), content : BOOLEAN, usage : UsageResults, disabled : BOOLEAN]
With(o, b) == [o EXCEPT !.buffer = b]
Off(o) == o.disabled

\* An event changes the same fields whatever is left in the buffer, and it
\* empties the buffer when it disables the observer.
LEMMA EventFacts ==
  ASSUME NEW o \in Observers, ~Off(o), o.buffer = << >>, NEW e, NEW r \in Seq(Symbols),
         NEW q, q = ObserveEvent(o, e)
  PROVE  /\ q \in Observers /\ q.buffer = << >>
         /\ o.content => q.content
         /\ ObserveEvent(With(o, r), e) = With(q, IF Off(q) THEN << >> ELSE r)
<1>1. PICK d : d = DataOf(e)
  OBVIOUS
<1>2. << >> \in Seq(Symbols)
  OBVIOUS
<1>3. CASE d \in {"comment", "done"}
  <2>1. q = o /\ ObserveEvent(With(o, r), e) = With(o, r)
    BY <1>1, <1>3 DEF ObserveEvent
  <2> QED
    BY <2>1
<1>4. CASE d = "malformed"
  <2>1. q = Disable(o) /\ ObserveEvent(With(o, r), e) = Disable(With(o, r))
    BY <1>1, <1>4 DEF ObserveEvent
  <2>2. Disable(o) \in Observers /\ Disable(o).buffer = << >> /\ (o.content => Disable(o).content)
        /\ Off(Disable(o))
    BY <1>2 DEF Disable, Observers, Off
  <2>3. Disable(With(o, r)) = With(Disable(o), << >>)
    BY DEF Disable, Observers, With
  <2> QED
    BY <2>1, <2>2, <2>3
<1>5. CASE d \notin {"comment", "done", "malformed"}
  <2>1. /\ q = ObserveUsage([o EXCEPT !.content = @ \/ d = "content"], d)
        /\ ObserveEvent(With(o, r), e) = ObserveUsage([With(o, r) EXCEPT !.content = @ \/ d = "content"], d)
    BY <1>1, <1>5 DEF ObserveEvent
  <2>2. PICK c \in BOOLEAN : c = (o.content \/ d = "content")
    OBVIOUS
  <2>3. PICK p : p = [o EXCEPT !.content = c]
    OBVIOUS
  <2>4. /\ q = ObserveUsage(p, d)
        /\ [With(o, r) EXCEPT !.content = @ \/ d = "content"] = With(p, r)
    BY <2>1, <2>2, <2>3 DEF Observers, With
  <2>5. /\ p \in Observers /\ p.buffer = << >> /\ ~Off(p) /\ p.content = c
    BY <2>3 DEF Observers, Off
  <2>6. CASE p.usage # "none" \/ d \notin Usages
    <3>1. ObserveUsage(p, d) = p /\ ObserveUsage(With(p, r), d) = With(p, r)
      BY <2>5, <2>6 DEF ObserveUsage, Observers, With
    <3> QED
      BY <2>1, <2>2, <2>4, <2>5, <3>1
  <2>7. CASE p.usage = "none" /\ d \in Usages
    <3>1. PICK u \in UsageResults : u = IF d = "usage" THEN "observed" ELSE "invalid"
      BY DEF UsageResults
    <3>2. /\ ObserveUsage(p, d) = [p EXCEPT !.usage = u]
          /\ ObserveUsage(With(p, r), d) = [With(p, r) EXCEPT !.usage = u]
      BY <2>5, <2>7, <3>1 DEF ObserveUsage, Observers, With
    <3>3. PICK x : x = [p EXCEPT !.usage = u]
      OBVIOUS
    <3>4. x \in Observers /\ x.buffer = << >> /\ ~Off(x) /\ x.content = c
      BY <2>5, <3>3 DEF Observers, Off
    <3>5. [With(p, r) EXCEPT !.usage = u] = With(x, r)
      BY <2>5, <3>3 DEF Observers, With
    <3> QED
      BY <2>1, <2>2, <2>4, <3>2, <3>3, <3>4, <3>5
  <2> QED
    BY <2>6, <2>7
<1> QED
  BY <1>3, <1>4, <1>5

\* What the observer keeps between two chunks: the beginning of an event
\* that fits into the buffer, and nothing when it was disabled.
Clean(o) ==
  /\ o \in Observers
  /\ Off(o) => o.buffer = << >>
  /\ Len(o.buffer) <= MaxEvent
  /\ Boundaries(o.buffer) = {}

\* The fields of an observer whose buffer was replaced.
LEMMA WithFacts ==
  ASSUME NEW o \in Observers, NEW b \in Seq(Symbols)
  PROVE  /\ With(o, b) \in Observers /\ With(o, b).buffer = b /\ With(o, b).content = o.content
         /\ Off(With(o, b)) <=> Off(o)
         /\ \A r \in Seq(Symbols) : With(With(o, b), r) = With(o, r)
         /\ With(o, o.buffer) = o
BY DEF With, Observers, Off

\* The same for the empty buffer.
LEMMA WithNothing ==
  ASSUME NEW o \in Observers
  PROVE  /\ << >> \in Seq(Symbols)
         /\ With(o, << >>) \in Observers /\ With(o, << >>).buffer = << >>
         /\ With(o, << >>).content = o.content
         /\ Off(With(o, << >>)) <=> Off(o)
         /\ \A r \in Seq(Symbols) : With(With(o, << >>), r) = With(o, r)
<1>0. << >> \in Seq(Symbols)
  OBVIOUS
<1>1. PICK n \in Seq(Symbols) : n = << >>
  BY <1>0
<1>2. /\ With(o, n) \in Observers /\ With(o, n).buffer = n /\ With(o, n).content = o.content
      /\ Off(With(o, n)) <=> Off(o)
      /\ \A r \in Seq(Symbols) : With(With(o, n), r) = With(o, r)
  BY WithFacts
<1> QED
  BY <1>1, <1>2

\* An observer whose buffer is empty.
LEMMA EmptyIsClean ==
  ASSUME NEW o \in Observers, o.buffer = << >>
  PROVE  Clean(o)
<1>1. << >> \in Seq(Symbols) /\ Len(<< >>) = 0
  OBVIOUS
<1>2. \A j : ~Ends(<< >>, j)
  BY <1>1 DEF Ends
<1>3. Boundaries(<< >>) = {}
  BY <1>1, <1>2, NoBoundary
<1>4. 0 <= MaxEvent
  BY ObserverAssumption
<1> QED
  BY <1>1, <1>3, <1>4 DEF Clean

\* A symbol that completes the first blank line of a text makes for one turn
\* of _drain_events, however the text goes on.
LEMMA DrainFirst ==
  ASSUME NEW o, Clean(o), ~Off(o), NEW c \in Symbols, NEW r \in Seq(Symbols),
         BlankLineEnds(Append(o.buffer, c)),
         NEW q, q = ObserveEvent(With(o, << >>), Append(o.buffer, c))
  PROVE  DrainOne(With(o, Append(o.buffer, c) \o r)) = With(q, IF Off(q) THEN << >> ELSE r)
<1>1. PICK b : b = o.buffer
  OBVIOUS
<1>2. o \in Observers /\ b \in Seq(Symbols) /\ Boundaries(b) = {} /\ Len(b) \in Nat
  BY <1>1 DEF Clean, Observers
<1>3. PICK e : e = Append(b, c)
  OBVIOUS
<1>4. /\ e \in Seq(Symbols) /\ Len(e) = Len(b) + 1 /\ e = b \o <<c>>
  BY <1>2, <1>3
<1>5. PICK w : w = e \o r
  OBVIOUS
<1>6. /\ w \in Seq(Symbols) /\ Len(w) = Len(e) + Len(r) /\ Len(r) \in Nat
      /\ \A m \in 1..Len(e) : w[m] = e[m]
      /\ \A m \in 1..Len(r) : w[Len(e) + m] = r[m]
  BY <1>4, <1>5, ConcatProperties
<1>7. Ends(w, Len(e))
  <2>1. Ends(e, Len(e))
    BY <1>1, <1>3, <1>4, BlankLine
  <2>2. Len(e) \in 1..Len(e)
    BY <1>2, <1>4
  <2> QED
    BY <1>4, <1>5, <2>1, <2>2, EndsBefore
<1>8. ASSUME NEW j \in 2..(Len(e) - 1) PROVE ~Ends(w, j)
  <2>1. j \in 1..Len(b) /\ j \in 1..Len(e)
    BY <1>2, <1>4
  <2>2. <<c>> \in Seq(Symbols)
    OBVIOUS
  <2>3. ~Ends(b, j)
    BY <1>2, NoBoundary
  <2>4. ~Ends(e, j)
    BY <1>2, <1>4, <2>1, <2>2, <2>3, EndsBefore
  <2> QED
    BY <1>4, <1>5, <2>1, <2>4, EndsBefore
<1>9. PICK i \in Boundaries(w) : \A k \in Boundaries(w) : i <= k
  <2>1. Boundaries(w) \subseteq Nat
    BY <1>6, BoundaryEnds
  <2>2. Boundaries(w) # {}
    BY <1>6, <1>7, EndsBoundary
  <2> QED
    BY <2>1, <2>2, Least
<1>10. i + BoundaryAt(w, i) - 1 = Len(e)
  BY <1>6, <1>7, <1>8, <1>9, FirstBoundary
<1>11. /\ i \in 1..Len(w) /\ BoundaryAt(w, i) \in 2..4
       /\ \A m \in i..Len(e) : w[m] \in NewLines
  BY <1>6, <1>9, <1>10, BoundaryEnds
<1>12. i \in 1..Len(e) /\ i + BoundaryAt(w, i) = Len(e) + 1
  BY <1>2, <1>4, <1>10, <1>11
<1>13. (CHOOSE k \in Boundaries(w) : \A l \in Boundaries(w) : k <= l) = i
  <2>1. \A k \in Boundaries(w) : k \in Int
    BY <1>6, BoundaryEnds
  <2>2. \A k \in Boundaries(w) : (\A l \in Boundaries(w) : k <= l) => k = i
    BY <1>9, <2>1
  <2> QED
    BY <1>9, <2>2
<1>14. SubSeq(w, Len(e) + 1, Len(w)) = r
  <2>1. Len(e) + 1 \in 1..(Len(w) + 1) /\ (Len(e) + 1) + Len(r) - 1 = Len(w) /\ Len(w) \in Nat
    BY <1>2, <1>4, <1>6
  <2>2. /\ SubSeq(w, Len(e) + 1, Len(w)) \in Seq(Symbols)
        /\ Len(SubSeq(w, Len(e) + 1, Len(w))) = Len(r)
        /\ \A m \in 1..Len(r) : SubSeq(w, Len(e) + 1, Len(w))[m] = w[Len(e) + 1 + m - 1]
    BY <1>6, <2>1, PartFacts
  <2>3. \A m \in 1..Len(r) : SubSeq(w, Len(e) + 1, Len(w))[m] = r[m]
    BY <1>2, <1>4, <1>6, <2>2
  <2> QED
    BY <2>2, <2>3, SeqEqual
<1>15. DataOf(SubSeq(w, 1, i - 1)) = DataOf(e)
  <2>1. \A m \in i..Len(e) : e[m] \in NewLines
    BY <1>6, <1>11, <1>12
  <2>2. DataOf(SubSeq(e, 1, i - 1)) = DataOf(e)
    BY <1>4, <1>12, <2>1, SameData
  <2>3. SubSeq(w, 1, i - 1) = SubSeq(e, 1, i - 1)
    <3>1. CASE i = 1
      BY <3>1, SubSeqEmpty
    <3>2. CASE i # 1
      BY <1>2, <1>4, <1>5, <1>12, <3>2, SubSeqOfConcat1
    <3> QED
      BY <3>1, <3>2
  <2> QED
    BY <2>2, <2>3
<1>16. PICK z : z = With(o, << >>)
  OBVIOUS
<1>17. /\ << >> \in Seq(Symbols) /\ z \in Observers /\ ~Off(z) /\ z.buffer = << >>
       /\ With(z, r) = With(With(o, w), r) /\ ~Off(With(o, w)) /\ With(o, w).buffer = w
  <2>1. << >> \in Seq(Symbols)
    OBVIOUS
  <2>2. /\ z \in Observers /\ (Off(z) <=> Off(o)) /\ z.buffer = << >> /\ With(z, r) = With(o, r)
    BY <1>2, <1>16, WithNothing
  <2>3. /\ With(With(o, w), r) = With(o, r) /\ With(o, w).buffer = w
        /\ Off(With(o, w)) <=> Off(o)
    BY <1>2, <1>6, WithFacts
  <2> QED
    BY <2>1, <2>2, <2>3
<1>18. DrainOne(With(o, w)) = ObserveEvent(With(z, r), SubSeq(w, 1, i - 1))
  <2>1. PICK v : v = With(o, w)
    OBVIOUS
  <2>2. ~v.disabled /\ v.buffer = w
    BY <1>17, <2>1 DEF Off
  <2>3. [v EXCEPT !.buffer = SubSeq(@, Len(e) + 1, Len(@))] = With(v, r)
    BY <1>14, <2>2 DEF With
  <2>4. DrainOne(v) = ObserveEvent([v EXCEPT !.buffer = SubSeq(@, Len(e) + 1, Len(@))],
                                   SubSeq(w, 1, i - 1))
    BY <1>9, <1>12, <1>13, <2>2 DEF DrainOne
  <2> QED
    BY <1>17, <2>1, <2>3, <2>4
<1>19. ObserveEvent(With(z, r), SubSeq(w, 1, i - 1)) = ObserveEvent(With(z, r), e)
  BY <1>15 DEF ObserveEvent
<1>20. ObserveEvent(With(z, r), e) = With(q, IF Off(q) THEN << >> ELSE r)
  BY <1>1, <1>3, <1>16, <1>17, EventFacts
<1> QED
  BY <1>1, <1>3, <1>5, <1>18, <1>19, <1>20

-----------------------------------------------------------------------------
(***************************************************************************)
(* The reader of single symbols.                                           *)
(***************************************************************************)
Readers == {d \in [seen : Observers, final : Usages \cup {"none"}] : Clean(d.seen)}

\* There is room for a symbol in the buffer.
Room(o) == Len(o.buffer) < MaxEvent

\* The text with one more symbol.
Longer(o, c) == Append(o.buffer, c)

\* The four cases of reading a symbol.
LEMMA ReadOne ==
  ASSUME NEW d \in Readers, NEW c \in Symbols, NEW o, o = d.seen,
         NEW x, x = ReadSymbol(d, c).seen, NEW e, e = Longer(o, c)
  PROVE  /\ ReadSymbol(d, c) \in Readers
         /\ o.content => x.content
         /\ Off(o) => ReadSymbol(d, c) = d
         /\ ~Off(o) /\ ~Room(o) => x = Disable(o) /\ Off(x)
         /\ ~Off(o) /\ Room(o) /\ ~BlankLineEnds(e) => x = With(o, e)
         /\ ~Off(o) /\ Room(o) /\ BlankLineEnds(e)
              => x = ObserveEvent(With(o, << >>), e) /\ x.buffer = << >>
<1>1. /\ Clean(o) /\ o \in Observers /\ d.final \in Usages \cup {"none"}
      /\ d \in [seen : Observers, final : Usages \cup {"none"}]
  BY DEF Readers
<1>2. /\ o.buffer \in Seq(Symbols) /\ Len(o.buffer) \in Nat /\ Len(o.buffer) <= MaxEvent
      /\ Boundaries(o.buffer) = {} /\ MaxEvent \in Nat
  BY <1>1, ObserverAssumption DEF Clean, Observers
<1>3. e \in Seq(Symbols) /\ Len(e) = Len(o.buffer) + 1 /\ e = o.buffer \o <<c>>
  <2>1. PICK b \in Seq(Symbols) : b = o.buffer
    BY <1>2
  <2>2. e = Append(b, c)
    BY <2>1 DEF Longer
  <2>3. Append(b, c) \in Seq(Symbols) /\ Len(Append(b, c)) = Len(b) + 1
    BY <2>1
  <2>4. Append(b, c) = b \o <<c>>
    BY <2>1, AppendIsConcat
  <2> QED
    BY <2>1, <2>2, <2>3, <2>4
<1>4. CASE Off(o)
  <2>1. ReadSymbol(d, c) = d
    BY <1>4 DEF ReadSymbol, Off, Longer
  <2> QED
    BY <1>4, <2>1
<1>5. CASE ~Off(o) /\ ~Room(o)
  <2>1. ReadSymbol(d, c) = [d EXCEPT !.seen = Disable(o)]
    <3>1. Len(e) > MaxEvent
      BY <1>2, <1>3, <1>5 DEF Room
    <3> QED
      BY <1>5, <3>1 DEF ReadSymbol, Off, Longer
  <2>2. /\ Disable(o) \in Observers /\ Disable(o).buffer = << >> /\ Off(Disable(o))
        /\ Disable(o).content = o.content
    <3>1. << >> \in Seq(Symbols)
      OBVIOUS
    <3> QED
      BY <1>1, <3>1 DEF Disable, Observers, Off
  <2>3. Clean(Disable(o))
    BY <2>2, EmptyIsClean
  <2>4. x = Disable(o)
    BY <1>1, <2>1
  <2>5. ReadSymbol(d, c) \in Readers
    BY <1>1, <2>1, <2>2, <2>3 DEF Readers
  <2> QED
    BY <1>2, <1>5, <2>2, <2>4, <2>5
<1>6. CASE ~Off(o) /\ Room(o) /\ ~BlankLineEnds(e)
  <2>1. ReadSymbol(d, c) = [d EXCEPT !.seen.buffer = e]
    <3>1. ~(Len(e) > MaxEvent)
      BY <1>2, <1>3, <1>6 DEF Room
    <3> QED
      BY <1>6, <3>1 DEF ReadSymbol, Off, Longer
  <2>2. [d EXCEPT !.seen.buffer = e] = [d EXCEPT !.seen = With(o, e)]
    BY <1>1 DEF With
  <2>3. With(o, e) \in Observers /\ With(o, e).buffer = e /\ With(o, e).content = o.content
        /\ ~Off(With(o, e))
    BY <1>1, <1>3, <1>6, WithFacts
  <2>4. ASSUME NEW j PROVE ~Ends(e, j)
    <3>1. CASE j \in 1..Len(o.buffer)
      <4>1. <<c>> \in Seq(Symbols)
        OBVIOUS
      <4>2. ~Ends(o.buffer, j)
        BY <1>2, NoBoundary
      <4> QED
        BY <1>2, <1>3, <3>1, <4>1, <4>2, EndsBefore
    <3>2. CASE j = Len(e)
      BY <1>3, <1>6, <3>2, BlankLine
    <3>3. CASE j \notin 1..Len(o.buffer) /\ j # Len(e)
      BY <1>2, <1>3, <3>3 DEF Ends
    <3> QED
      BY <3>1, <3>2, <3>3
  <2>5. Boundaries(e) = {}
    BY <1>3, <2>4, NoBoundary
  <2>6. Len(e) <= MaxEvent
    BY <1>2, <1>3, <1>6 DEF Room
  <2>7. Clean(With(o, e))
    BY <2>3, <2>5, <2>6 DEF Clean
  <2>8. x = With(o, e)
    BY <1>1, <2>1, <2>2
  <2>9. ReadSymbol(d, c) \in Readers
    BY <1>1, <2>1, <2>2, <2>3, <2>7 DEF Readers
  <2> QED
    BY <1>2, <1>6, <2>3, <2>8, <2>9
<1>7. CASE ~Off(o) /\ Room(o) /\ BlankLineEnds(e)
  <2>1. PICK q : q = ObserveEvent(With(o, << >>), e)
    OBVIOUS
  <2>2. PICK u : u = IF DataOf(e) \in Usages THEN DataOf(e) ELSE d.final
    OBVIOUS
  <2>3. ReadSymbol(d, c) = [seen |-> q, final |-> u]
    <3>1. ~(Len(e) > MaxEvent)
      BY <1>2, <1>3, <1>7 DEF Room
    <3> QED
      BY <1>7, <2>1, <2>2, <3>1 DEF ReadSymbol, Off, With, Longer
  <2>4. u \in Usages \cup {"none"}
    BY <1>1, <2>2
  <2>5. PICK z : z = With(o, << >>)
    OBVIOUS
  <2>6. z \in Observers /\ z.buffer = << >> /\ ~Off(z) /\ z.content = o.content
    BY <1>1, <1>7, <2>5, WithNothing
  <2>7. q \in Observers /\ q.buffer = << >> /\ (z.content => q.content)
    BY <1>3, <2>1, <2>5, <2>6, EventFacts
  <2>8. Clean(q)
    BY <2>7, EmptyIsClean
  <2>9. x = q
    BY <2>3
  <2>10. ReadSymbol(d, c) \in Readers
    BY <2>3, <2>4, <2>7, <2>8 DEF Readers
  <2> QED
    BY <1>2, <1>7, <2>1, <2>6, <2>7, <2>9, <2>10
<1> QED
  BY <1>2, <1>4, <1>5, <1>6, <1>7

\* A text that goes on with a symbol.
LEMMA LongerText ==
  ASSUME NEW b \in Seq(Symbols), NEW c \in Symbols, NEW r \in Seq(Symbols)
  PROVE  Append(b, c) \o r = b \o (<<c>> \o r)
OBVIOUS

\* The observer with the rest of a piece behind its buffer.
Ahead(o, r) == With(o, IF Off(o) THEN << >> ELSE o.buffer \o r)

\* Reading a symbol is no turn of _drain_events, or one.
LEMMA ReadDrains ==
  ASSUME NEW d \in Readers, NEW c \in Symbols, NEW r \in Seq(Symbols),
         NEW o, o = d.seen, NEW x, x = ReadSymbol(d, c).seen,
         Off(o) \/ Room(o)
  PROVE  \/ Ahead(x, r) = Ahead(o, <<c>> \o r)
         \/ Ahead(x, r) = DrainOne(Ahead(o, <<c>> \o r))
<1>1. PICK e : e = Longer(o, c)
  OBVIOUS
<1>2. /\ Off(o) => ReadSymbol(d, c) = d
      /\ ~Off(o) /\ Room(o) /\ ~BlankLineEnds(e) => x = With(o, e)
      /\ ~Off(o) /\ Room(o) /\ BlankLineEnds(e)
           => x = ObserveEvent(With(o, << >>), e) /\ x.buffer = << >>
  BY <1>1, ReadOne
<1>3. Clean(o) /\ o \in Observers /\ o.buffer \in Seq(Symbols)
  BY DEF Readers, Observers
<1>4. e \in Seq(Symbols) /\ e \o r \in Seq(Symbols)
  BY <1>1, <1>3 DEF Longer
<1>5. e \o r = o.buffer \o (<<c>> \o r)
  BY <1>1, <1>3, LongerText DEF Longer
<1>6. CASE Off(o)
  BY <1>2, <1>6 DEF Ahead
<1>7. CASE ~Off(o) /\ ~BlankLineEnds(e)
  <2>1. x = With(o, e)
    BY <1>2, <1>7
  <2>2. ~Off(x) /\ x.buffer = e /\ With(x, e \o r) = With(o, e \o r)
    <3>1. /\ With(o, e).buffer = e /\ (Off(With(o, e)) <=> Off(o))
          /\ \A s \in Seq(Symbols) : With(With(o, e), s) = With(o, s)
      BY <1>3, <1>4, WithFacts, Zenon
    <3> QED
      BY <1>4, <1>7, <2>1, <3>1
  <2> QED
    BY <1>5, <1>7, <2>2 DEF Ahead
<1>8. CASE ~Off(o) /\ BlankLineEnds(e)
  <2>1. x = ObserveEvent(With(o, << >>), e) /\ x.buffer = << >>
    BY <1>2, <1>8
  <2>2. DrainOne(With(o, e \o r)) = With(x, IF Off(x) THEN << >> ELSE r)
    BY <1>1, <1>3, <1>8, <2>1, DrainFirst DEF Longer
  <2>3. << >> \o r = r
    BY ConcatEmptySeq
  <2> QED
    BY <1>5, <1>8, <2>1, <2>2, <2>3 DEF Ahead
<1> QED
  BY <1>6, <1>7, <1>8

-----------------------------------------------------------------------------
(***************************************************************************)
(* The loops.                                                              *)
(***************************************************************************)
\* A turn of _drain_events leaves an observer.
LEMMA DrainOneFacts ==
  ASSUME NEW o \in Observers
  PROVE  /\ DrainOne(o) \in Observers
         /\ Clean(o) => DrainOne(o) = o
<1>1. Clean(o) => DrainOne(o) = o
  BY DEF Clean, DrainOne
<1>2. CASE Off(o) \/ Boundaries(o.buffer) = {}
  BY <1>2 DEF DrainOne, Off
<1>3. CASE ~Off(o) /\ Boundaries(o.buffer) # {}
  <2>1. PICK b \in Seq(Symbols) : b = o.buffer
    BY DEF Observers
  <2>2. PICK i : i = CHOOSE k \in Boundaries(b) : \A l \in Boundaries(b) : k <= l
    OBVIOUS
  <2>3. i \in Boundaries(b)
    <3>1. Boundaries(b) \subseteq Nat
      BY BoundaryEnds
    <3>2. \E k \in Boundaries(b) : \A l \in Boundaries(b) : k <= l
      BY <1>3, <2>1, <3>1, Least
    <3> QED
      BY <2>2, <3>2
  <2>4. /\ i \in 1..Len(b) /\ BoundaryAt(b, i) \in 2..4 /\ Len(b) \in Nat
        /\ i + BoundaryAt(b, i) - 1 \in 2..Len(b)
    BY <2>3, BoundaryEnds DEF Ends
  <2>5. PICK n : n = i + BoundaryAt(b, i)
    OBVIOUS
  <2>6. n \in 1..(Len(b) + 1) /\ Len(b) - n + 1 \in Nat /\ n + (Len(b) - n + 1) - 1 = Len(b)
    <3>1. PICK l \in 2..4 : l = BoundaryAt(b, i)
      BY <2>4
    <3>2. i \in Nat /\ i >= 1 /\ Len(b) \in Nat /\ i + l - 1 <= Len(b) /\ n = i + l
      BY <2>4, <2>5, <3>1
    <3>3. n \in 1..(Len(b) + 1)
      BY <3>1, <3>2
    <3> QED
      BY <3>2, <3>3
  <2>7. PICK r : r = SubSeq(b, n, Len(b))
    OBVIOUS
  <2>8. r \in Seq(Symbols)
    <3>1. SubSeq(b, n, n + (Len(b) - n + 1) - 1) \in Seq(Symbols)
      BY <2>6, PartFacts
    <3> QED
      BY <2>6, <2>7, <3>1
  <2>9. DrainOne(o) = ObserveEvent(With(o, r), SubSeq(b, 1, i - 1))
    <3>1. [o EXCEPT !.buffer = SubSeq(@, n, Len(@))] = With(o, r)
      BY <2>1, <2>7 DEF With
    <3>2. DrainOne(o) = ObserveEvent([o EXCEPT !.buffer = SubSeq(@, n, Len(@))], SubSeq(b, 1, i - 1))
      BY <1>3, <2>1, <2>2, <2>5 DEF DrainOne, Off
    <3> QED
      BY <3>1, <3>2
  <2>10. PICK z : z = With(o, << >>)
    OBVIOUS
  <2>11. z \in Observers /\ z.buffer = << >> /\ ~Off(z) /\ With(z, r) = With(o, r)
    BY <1>3, <2>8, <2>10, WithNothing
  <2>12. PICK q : q = ObserveEvent(z, SubSeq(b, 1, i - 1))
    OBVIOUS
  <2>13. q \in Observers /\ DrainOne(o) = With(q, IF Off(q) THEN << >> ELSE r)
    BY <2>8, <2>9, <2>11, <2>12, EventFacts
  <2>14. With(q, << >>) \in Observers /\ With(q, r) \in Observers
    BY <2>8, <2>13, WithFacts, WithNothing
  <2> QED
    BY <1>1, <2>13, <2>14
<1> QED
  BY <1>1, <1>2, <1>3

\* The turns of _drain_events.
LEMMA Drains ==
  ASSUME NEW o \in Observers, NEW n, n = Len(o.buffer)
  PROVE  \E a \in [0..n -> Observers] :
           /\ a[0] = o
           /\ \A k \in 1..n : a[k] = DrainOne(a[k - 1])
           /\ DrainEvents(o) = a[n]
<1> DEFINE Turn(f, k) == IF k = 0 THEN o ELSE DrainOne(f[k - 1])
           h == CHOOSE f : f = [k \in 0..n |-> Turn(f, k)]
<1>1. n \in Nat
  BY DEF Observers
<1>2. DrainEvents(o) = h[n]
  BY DEF DrainEvents
<1>3. PICK g \in [Nat -> [Observers -> Observers]] :
        \A k \in Nat, p \in Observers : g[k][p] = DrainOne(p)
  <2>1. [k \in Nat |-> [p \in Observers |-> DrainOne(p)]] \in [Nat -> [Observers -> Observers]]
    BY DrainOneFacts
  <2> QED
    BY <2>1
<1>4. PICK f \in [0..n -> Observers] : f[0] = o /\ \A k \in 1..n : f[k] = g[k][f[k - 1]]
  <2>1. \E f : Turns(f, Observers, g, o, n)
    BY <1>1, <1>3, Iteration
  <2> QED
    BY <2>1 DEF Turns
<1>5. ASSUME NEW k \in 1..n
      PROVE  f[k] = DrainOne(f[k - 1])
  <2>1. k \in Nat /\ k - 1 \in 0..n
    BY <1>1
  <2>2. f[k - 1] \in Observers
    BY <2>1
  <2>3. f[k] = g[k][f[k - 1]]
    BY <1>4
  <2> QED
    BY <1>3, <2>1, <2>2, <2>3
<1>6. f = [k \in 0..n |-> Turn(f, k)]
  <2>1. ASSUME NEW k \in 0..n PROVE f[k] = Turn(f, k)
    <3>1. CASE k = 0
      BY <1>4, <3>1
    <3>2. CASE k # 0
      <4>1. k \in 1..n
        BY <1>1, <3>2
      <4> QED
        BY <1>5, <3>2, <4>1
    <3> QED
      BY <3>1, <3>2
  <2> HIDE DEF Turn
  <2> QED
    BY <2>1
<1>7. h = [k \in 0..n |-> Turn(h, k)]
  BY <1>6
<1>8. h[n] = f[n]
  <2>1. \A k \in 0..n : h[k] = Turn(h, k)
    <3> HIDE DEF h, Turn
    <3> QED
      BY <1>7
  <2> HIDE DEF h
  <2>2. 0 \in 0..n /\ \A k \in 1..n : k \in 0..n /\ k # 0
    BY <1>1
  <2>3. h[0] = f[0] /\ \A k \in 1..n : h[k] = DrainOne(h[k - 1])
    BY <1>4, <2>1, <2>2
  <2>4. \A k \in 1..n : h[k - 1] = f[k - 1] => h[k] = f[k]
    BY <1>5, <2>3
  <2> QED
    BY <1>1, <2>3, <2>4, SameTurns
<1> QED
  BY <1>2, <1>4, <1>5, <1>8

\* The turns of the reader: f says what it knows after each symbol.
Reading(f, d, chunk) ==
  /\ f \in [0..Len(chunk) -> Readers]
  /\ f[0] = d
  /\ \A k \in 1..Len(chunk) : f[k] = ReadSymbol(f[k - 1], chunk[k])

\* Reading goes symbol by symbol.
LEMMA Reads ==
  ASSUME NEW d \in Readers, NEW chunk \in Seq(Symbols)
  PROVE  \E f : Reading(f, d, chunk) /\ Read(d, chunk) = f[Len(chunk)]
<1> DEFINE Turn(f, k) == IF k = 0 THEN d ELSE ReadSymbol(f[k - 1], chunk[k])
           h == CHOOSE f : f = [k \in 0..Len(chunk) |-> Turn(f, k)]
<1>1. PICK n \in Nat : n = Len(chunk)
  OBVIOUS
<1>2. Read(d, chunk) = h[n]
  BY <1>1 DEF Read
<1>3. PICK g \in [Nat -> [Readers -> Readers]] :
        \A k \in 1..n, p \in Readers : g[k][p] = ReadSymbol(p, chunk[k])
  <2> DEFINE G == [k \in Nat |-> [p \in Readers |->
                    IF k \in 1..n THEN ReadSymbol(p, chunk[k]) ELSE p]]
  <2>1. \A k \in 1..n, p \in Readers : ReadSymbol(p, chunk[k]) \in Readers
    <3>1. \A k \in 1..n : chunk[k] \in Symbols
      BY <1>1
    <3> QED
      BY <3>1, ReadOne
  <2>2. G \in [Nat -> [Readers -> Readers]]
    BY <2>1
  <2>3. \A k \in 1..n, p \in Readers : G[k][p] = ReadSymbol(p, chunk[k])
    BY <1>1
  <2> HIDE DEF G
  <2> QED
    BY <2>2, <2>3
<1>4. PICK f \in [0..n -> Readers] : f[0] = d /\ \A k \in 1..n : f[k] = g[k][f[k - 1]]
  <2>1. \E f : Turns(f, Readers, g, d, n)
    BY <1>3, Iteration
  <2> QED
    BY <2>1 DEF Turns
<1>5. ASSUME NEW k \in 1..n
      PROVE  f[k] = ReadSymbol(f[k - 1], chunk[k])
  <2>1. k - 1 \in 0..n
    BY <1>1
  <2>2. f[k - 1] \in Readers
    BY <2>1
  <2>3. f[k] = g[k][f[k - 1]]
    BY <1>4
  <2> QED
    BY <1>3, <2>2, <2>3
<1>6. f = [k \in 0..n |-> Turn(f, k)]
  <2>1. ASSUME NEW k \in 0..n PROVE f[k] = Turn(f, k)
    <3>1. CASE k = 0
      BY <1>4, <3>1
    <3>2. CASE k # 0
      <4>1. k \in 1..n
        BY <1>1, <3>2
      <4> QED
        BY <1>5, <3>2, <4>1
    <3> QED
      BY <3>1, <3>2
  <2> HIDE DEF Turn
  <2> QED
    BY <2>1
<1>7. h = [k \in 0..n |-> Turn(h, k)]
  BY <1>1, <1>6
<1>8. h[n] = f[n]
  <2>1. \A k \in 0..n : h[k] = Turn(h, k)
    <3> HIDE DEF h, Turn
    <3> QED
      BY <1>7
  <2> HIDE DEF h
  <2>2. 0 \in 0..n /\ \A k \in 1..n : k \in 0..n /\ k # 0
    BY <1>1
  <2>3. h[0] = f[0] /\ \A k \in 1..n : h[k] = ReadSymbol(h[k - 1], chunk[k])
    BY <1>4, <2>1, <2>2
  <2>4. \A k \in 1..n : h[k - 1] = f[k - 1] => h[k] = f[k]
    BY <1>5, <2>3
  <2> QED
    BY <1>1, <2>3, <2>4, SameTurns
<1>9. Reading(f, d, chunk)
  BY <1>1, <1>4, <1>5 DEF Reading
<1> HIDE DEF h
<1> QED
  BY <1>1, <1>2, <1>8, <1>9

\* A disabled reader stays as it is, and what was seen stays seen.
LEMMA ReadingOn ==
  ASSUME NEW d, NEW chunk \in Seq(Symbols), NEW f, Reading(f, d, chunk),
         NEW j \in 0..Len(chunk), NEW k \in j..Len(chunk)
  PROVE  /\ Off(f[j].seen) => f[k] = f[j]
         /\ f[j].seen.content => f[k].seen.content
<1> DEFINE T == {m \in Nat : j + m <= Len(chunk) =>
                   /\ Off(f[j].seen) => f[j + m] = f[j]
                   /\ f[j].seen.content => f[j + m].seen.content}
<1>1. PICK n \in Nat : n = Len(chunk)
  OBVIOUS
<1>2. j \in Nat /\ k \in Nat /\ j <= k /\ k <= n
  BY <1>1
<1>3. 0 \in T
  <2>1. j + 0 = j
    BY <1>2
  <2> QED
    BY <2>1
<1>4. ASSUME NEW m \in T PROVE m + 1 \in T
  <2> SUFFICES ASSUME j + (m + 1) <= Len(chunk)
               PROVE  /\ Off(f[j].seen) => f[j + (m + 1)] = f[j]
                      /\ f[j].seen.content => f[j + (m + 1)].seen.content
    OBVIOUS
  <2>1. PICK i : i = j + m
    OBVIOUS
  <2>2. i \in 0..n /\ i + 1 \in 1..n /\ (i + 1) - 1 = i /\ i <= Len(chunk) /\ j + (m + 1) = i + 1
    BY <1>1, <1>2, <2>1
  <2>3. /\ Off(f[j].seen) => f[i] = f[j]
        /\ f[j].seen.content => f[i].seen.content
    BY <2>1, <2>2
  <2>4. f[i] \in Readers /\ chunk[i + 1] \in Symbols /\ f[i + 1] = ReadSymbol(f[i], chunk[i + 1])
    BY <1>1, <2>2 DEF Reading
  <2>5. /\ Off(f[i].seen) => f[i + 1] = f[i]
        /\ f[i].seen.content => f[i + 1].seen.content
    BY <2>4, ReadOne
  <2> QED
    BY <2>2, <2>3, <2>5
<1>5. T = Nat
  <2>1. T \subseteq Nat
    OBVIOUS
  <2> HIDE DEF T
  <2> QED
    BY <1>3, <1>4, <2>1, SetInduction
<1>6. k - j \in T /\ j + (k - j) = k
  <2>1. k - j \in Nat /\ j + (k - j) = k
    BY <1>2
  <2> HIDE DEF T
  <2> QED
    BY <1>5, <2>1
<1> QED
  BY <1>1, <1>2, <1>6

\* Nothing is behind the buffer of the observer.
LEMMA AheadOfNothing ==
  ASSUME NEW o, Clean(o)
  PROVE  Ahead(o, << >>) = o
<1>1. o \in Observers /\ o.buffer \in Seq(Symbols) /\ (Off(o) => o.buffer = << >>)
  BY DEF Clean, Observers
<1>2. With(o, o.buffer) = o
  BY <1>1, WithFacts
<1>3. o.buffer \o << >> = o.buffer
  BY <1>1, ConcatEmptySeq
<1> QED
  BY <1>1, <1>2, <1>3 DEF Ahead

\* How much of the buffer is taken.
Taken(o) == IF Off(o) THEN 0 ELSE Len(o.buffer)

\* Reading a symbol takes one more at most.
LEMMA TakenFacts ==
  ASSUME NEW d \in Readers, NEW c \in Symbols, Taken(d.seen) < MaxEvent
  PROVE  /\ Taken(d.seen) \in Nat
         /\ Off(d.seen) \/ Room(d.seen)
         /\ Taken(ReadSymbol(d, c).seen) \in 0..(Taken(d.seen) + 1)
<1>1. PICK o, x, e : o = d.seen /\ x = ReadSymbol(d, c).seen /\ e = Longer(o, c)
  OBVIOUS
<1>2. /\ Off(o) => ReadSymbol(d, c) = d
      /\ ~Off(o) /\ Room(o) /\ ~BlankLineEnds(e) => x = With(o, e)
      /\ ~Off(o) /\ Room(o) /\ BlankLineEnds(e) => x.buffer = << >>
  BY <1>1, ReadOne
<1>3. o \in Observers /\ o.buffer \in Seq(Symbols) /\ Len(o.buffer) \in Nat
  BY <1>1 DEF Readers, Observers
<1>4. Taken(o) \in Nat /\ (Off(o) \/ Room(o))
  BY <1>1, <1>3 DEF Taken, Room
<1>5. CASE Off(o)
  BY <1>1, <1>2, <1>4, <1>5
<1>6. CASE ~Off(o) /\ ~BlankLineEnds(e)
  <2>1. x = With(o, e)
    BY <1>2, <1>4, <1>6
  <2>2. e \in Seq(Symbols) /\ Len(e) = Len(o.buffer) + 1
    BY <1>1, <1>3 DEF Longer
  <2>3. x.buffer = e
    BY <1>3, <2>1, <2>2, WithFacts
  <2>4. Taken(o) = Len(o.buffer) /\ Taken(x) \in {0, Len(o.buffer) + 1}
    BY <1>6, <2>2, <2>3 DEF Taken
  <2> QED
    BY <1>1, <1>3, <1>4, <2>4
<1>7. CASE ~Off(o) /\ BlankLineEnds(e)
  <2>1. Taken(x) = 0
    BY <1>2, <1>4, <1>7 DEF Taken
  <2> QED
    BY <1>1, <1>4, <2>1
<1> QED
  BY <1>5, <1>6, <1>7

\* A piece of n symbols fits into the buffer.
Fits(o, n) == Len(o.buffer) + n <= MaxEvent

\* The n symbols of a chunk behind position j, and the observer with them.
Part(chunk, j, n) == SubSeq(chunk, j + 1, j + n)
Loaded(o, t) == With(o, o.buffer \o t)

\* A piece that fits into the buffer: what _drain_events leaves is what the
\* reader has seen after the piece.
LEMMA PieceDrains ==
  ASSUME NEW d, NEW chunk \in Seq(Symbols), NEW f, Reading(f, d, chunk),
         NEW j \in 0..Len(chunk), NEW n \in 0..(Len(chunk) - j),
         ~Off(f[j].seen), Fits(f[j].seen, n)
  PROVE  DrainEvents(Loaded(f[j].seen, Part(chunk, j, n))) = f[j + n].seen
<1> SUFFICES ASSUME NEW o, o = f[j].seen, ~Off(o), Fits(o, n)
             PROVE  DrainEvents(With(o, o.buffer \o SubSeq(chunk, j + 1, j + n))) = f[j + n].seen
  BY DEF Loaded, Part
<1>1. /\ j \in Nat /\ n \in Nat /\ Len(chunk) \in Nat /\ j + n <= Len(chunk) /\ MaxEvent \in Nat
      /\ DOMAIN chunk = 1..Len(chunk)
  BY ObserverAssumption
<1>2. ASSUME NEW k \in 0..n PROVE f[j + k] \in Readers
  <2>1. j + k \in 0..Len(chunk)
    BY <1>1
  <2> QED
    BY <2>1 DEF Reading
<1>3. \A k \in 0..(n - 1) : /\ chunk[j + k + 1] \in Symbols
                            /\ f[j + k + 1] = ReadSymbol(f[j + k], chunk[j + k + 1])
  <2>1. ASSUME NEW k \in 0..(n - 1)
        PROVE  /\ chunk[j + k + 1] \in Symbols
               /\ f[j + k + 1] = ReadSymbol(f[j + k], chunk[j + k + 1])
    <3>1. j + k + 1 \in 1..Len(chunk) /\ (j + k + 1) - 1 = j + k
      BY <1>1
    <3>2. chunk[j + k + 1] \in Symbols
      BY <3>1
    <3>3. f[j + k + 1] = ReadSymbol(f[(j + k + 1) - 1], chunk[j + k + 1])
      BY <3>1 DEF Reading
    <3> QED
      BY <3>1, <3>2, <3>3
  <2> QED
    BY <2>1
<1>4. \A k \in 0..n : SubSeq(chunk, j + k + 1, j + n) \in Seq(Symbols)
  <2>1. ASSUME NEW k \in 0..n PROVE SubSeq(chunk, j + k + 1, j + n) \in Seq(Symbols)
    <3>1. /\ j + k + 1 \in 1..(Len(chunk) + 1) /\ n - k \in Nat
          /\ (j + k + 1) + (n - k) - 1 = j + n
      BY <1>1
    <3>2. SubSeq(chunk, j + k + 1, (j + k + 1) + (n - k) - 1) \in Seq(Symbols)
      BY <1>1, <3>1, PartFacts
    <3> QED
      BY <3>1, <3>2
  <2> QED
    BY <2>1
<1>5. /\ o \in Observers /\ o.buffer \in Seq(Symbols) /\ Len(o.buffer) \in Nat
  <2>1. f[j] \in Readers
    BY <1>1 DEF Reading
  <2> QED
    BY <2>1 DEF Readers, Observers
<1>6. PICK w \in Seq(Symbols) : /\ w = o.buffer \o SubSeq(chunk, j + 1, j + n)
                                /\ Len(w) = Len(o.buffer) + n
  <2>1. j + 1 \in 1..(Len(chunk) + 1) /\ (j + 1) + n - 1 = j + n
    BY <1>1
  <2>2. SubSeq(chunk, j + 1, j + n) \in Seq(Symbols) /\ Len(SubSeq(chunk, j + 1, j + n)) = n
    BY <1>1, <2>1, PartFacts
  <2>3. PICK b \in Seq(Symbols), t \in Seq(Symbols) :
          b = o.buffer /\ t = SubSeq(chunk, j + 1, j + n)
    BY <1>5, <2>2
  <2>4. b \o t \in Seq(Symbols) /\ Len(b \o t) = Len(b) + Len(t)
    OBVIOUS
  <2> QED
    BY <2>2, <2>3, <2>4
<1>7. With(o, w) \in Observers /\ With(o, w).buffer = w
  BY <1>5, WithFacts
<1>8. PICK l \in Nat : l = Len(w) /\ n <= l
  <2>1. Len(w) \in Nat
    OBVIOUS
  <2>2. PICK y \in Nat : y = Len(o.buffer)
    BY <1>5
  <2>3. Len(w) = y + n
    BY <1>6, <2>2
  <2>4. n <= y + n
    BY <1>1
  <2> QED
    BY <2>1, <2>3, <2>4
<1>9. PICK a \in [0..l -> Observers] :
        /\ a[0] = With(o, w)
        /\ \A k \in 1..l : a[k] = DrainOne(a[k - 1])
        /\ DrainEvents(With(o, w)) = a[l]
  BY <1>7, <1>8, Drains
<1> DEFINE Left(k) == Ahead(f[j + k].seen, SubSeq(chunk, j + k + 1, j + n))
           T == {k \in 0..n : /\ Taken(f[j + k].seen) + (n - k) <= MaxEvent
                              /\ \E m \in 0..k : Left(k) = a[m]}
<1>10. 0 \in T
  <2>1. j + 0 = j /\ 0 \in 0..n /\ 0 \in 0..0 /\ n - 0 = n /\ j + 0 + 1 = j + 1
    BY <1>1
  <2>2. Taken(o) = Len(o.buffer)
    BY DEF Taken
  <2>3. Left(0) = a[0]
    BY <1>6, <1>9, <2>1 DEF Ahead
  <2>4. Taken(f[j + 0].seen) + (n - 0) <= MaxEvent
    BY <2>1, <2>2 DEF Fits
  <2> HIDE DEF Left
  <2> QED
    BY <2>1, <2>3, <2>4
<1>11. ASSUME NEW k \in 0..(n - 1), k \in T PROVE k + 1 \in T
  <2>1. PICK p, c : p = f[j + k] /\ c = chunk[j + k + 1]
    OBVIOUS
  <2>2. PICK m \in 0..k : Left(k) = a[m]
    BY <1>11
  <2>3. k \in Nat /\ k + 1 \in 0..n /\ k \in 0..n /\ n - k >= 1 /\ n - (k + 1) = n - k - 1
        /\ j + (k + 1) = j + k + 1 /\ m \in Nat /\ m <= k
    BY <1>1
  <2>4. p \in Readers /\ c \in Symbols /\ f[j + (k + 1)] = ReadSymbol(p, c)
    BY <1>2, <1>3, <2>1, <2>3
  <2>5. Taken(p.seen) + (n - k) <= MaxEvent
    BY <1>11, <2>1
  <2>6. Taken(p.seen) \in Nat
    BY <2>4 DEF Taken, Readers, Observers
  <2>7. Taken(p.seen) < MaxEvent
    BY <1>1, <2>3, <2>5, <2>6
  <2>8. /\ Off(p.seen) \/ Room(p.seen)
        /\ Taken(ReadSymbol(p, c).seen) \in 0..(Taken(p.seen) + 1)
    BY <2>4, <2>7, TakenFacts
  <2>9. Taken(f[j + (k + 1)].seen) + (n - (k + 1)) <= MaxEvent
    BY <1>1, <2>3, <2>4, <2>5, <2>6, <2>8
  <2>10. PICK r \in Seq(Symbols) : r = SubSeq(chunk, j + (k + 1) + 1, j + n)
    BY <1>4, <2>3
  <2>11. SubSeq(chunk, j + k + 1, j + n) = <<c>> \o r
    <3>1. j + k + 1 \in 1..Len(chunk) /\ j + n \in (j + k + 1)..Len(chunk)
          /\ j + (k + 1) + 1 = (j + k + 1) + 1
      BY <1>1, <2>3
    <3> QED
      BY <2>1, <2>10, <3>1, SubSeqRecursiveFirst
  <2>12. \/ Ahead(ReadSymbol(p, c).seen, r) = Ahead(p.seen, <<c>> \o r)
         \/ Ahead(ReadSymbol(p, c).seen, r) = DrainOne(Ahead(p.seen, <<c>> \o r))
    BY <2>4, <2>8, ReadDrains
  <2>13. Left(k + 1) = a[m] \/ Left(k + 1) = DrainOne(a[m])
    BY <2>1, <2>2, <2>4, <2>10, <2>11, <2>12
  <2> HIDE DEF Left
  <2>14. m \in 0..(k + 1) /\ m + 1 \in 0..(k + 1) /\ m + 1 \in 1..l /\ (m + 1) - 1 = m
    BY <1>1, <1>8, <2>3
  <2>15. a[m + 1] = DrainOne(a[m])
    BY <1>9, <2>14
  <2>16. \E i \in 0..(k + 1) : Left(k + 1) = a[i]
    BY <2>13, <2>14, <2>15
  <2> QED
    BY <2>3, <2>9, <2>16
<1>12. n \in T
  <2>1. n \in 0..n
    BY <1>1
  <2> HIDE DEF T
  <2> QED
    BY <1>1, <1>10, <1>11, <2>1, SetInductionTo
<1>13. PICK m \in 0..n : f[j + n].seen = a[m]
  <2>1. PICK m \in 0..n : Left(n) = a[m]
    BY <1>12
  <2>2. SubSeq(chunk, j + n + 1, j + n) = << >>
    BY <1>1, SubSeqEmpty
  <2>3. Clean(f[j + n].seen)
    <3>1. n \in 0..n
      BY <1>1
    <3> QED
      BY <1>2, <3>1 DEF Readers
  <2>4. Left(n) = f[j + n].seen
    BY <2>2, <2>3, AheadOfNothing
  <2> QED
    BY <2>1, <2>4
<1>14. m \in Nat /\ m <= l /\ Clean(a[m])
  <2>1. n \in 0..n
    BY <1>1
  <2>2. Clean(f[j + n].seen)
    BY <1>2, <2>1 DEF Readers
  <2> QED
    BY <1>1, <1>8, <1>13, <2>2
<1> DEFINE U == {i \in Nat : m + i <= l => a[m + i] = a[m]}
<1>15. U = Nat
  <2>1. 0 \in U
    BY <1>14
  <2>2. ASSUME NEW i \in U PROVE i + 1 \in U
    <3> SUFFICES ASSUME m + (i + 1) <= l PROVE a[m + (i + 1)] = a[m]
      OBVIOUS
    <3>1. m + i <= l /\ m + (i + 1) \in 1..l /\ (m + (i + 1)) - 1 = m + i
      BY <1>8, <1>14
    <3>2. a[m + i] = a[m]
      BY <3>1
    <3>3. a[m + (i + 1)] = DrainOne(a[m + i])
      BY <1>9, <3>1
    <3>4. DrainOne(a[m]) = a[m]
      BY <1>14, DrainOneFacts DEF Clean
    <3> QED
      BY <3>2, <3>3, <3>4
  <2>3. U \subseteq Nat
    OBVIOUS
  <2> HIDE DEF U
  <2> QED
    BY <2>1, <2>2, <2>3, SetInduction
<1>16. a[l] = a[m]
  <2>1. l - m \in Nat /\ m + (l - m) = l
    BY <1>8, <1>14
  <2>2. l - m \in U
    BY <1>15, <2>1
  <2> QED
    BY <1>8, <2>1, <2>2
<1> QED
  BY <1>6, <1>9, <1>13, <1>16

\* The parts of the rest of a chunk.
LEMMA RestFacts ==
  ASSUME NEW s \in Seq(Symbols), NEW j \in 0..Len(s), NEW n \in 0..(Len(s) - j),
         NEW t, t = SubSeq(s, j + 1, Len(s))
  PROVE  /\ t \in Seq(Symbols) /\ Len(t) = Len(s) - j
         /\ SubSeq(t, 1, n) = SubSeq(s, j + 1, j + n)
         /\ SubSeq(t, n + 1, Len(t)) = SubSeq(s, j + n + 1, Len(s))
<1>1. PICK l \in Nat : l = Len(s)
  OBVIOUS
<1>2. j \in Nat /\ n \in Nat /\ j + n <= l /\ l - j \in Nat
  BY <1>1
<1>3. /\ SubSeq(s, j + 1, l) \in Seq(Symbols) /\ Len(SubSeq(s, j + 1, l)) = l - j
      /\ \A m \in 1..(l - j) : SubSeq(s, j + 1, l)[m] = s[j + 1 + m - 1]
  <2>1. PICK i, k : i = j + 1 /\ k = l - j
    OBVIOUS
  <2>2. i \in 1..(Len(s) + 1) /\ k \in Nat
    BY <1>1, <1>2, <2>1
  <2>3. i + k - 1 = l /\ i + k - 1 <= Len(s)
    BY <1>1, <1>2, <2>1
  <2>4. /\ SubSeq(s, i, i + k - 1) \in Seq(Symbols) /\ Len(SubSeq(s, i, i + k - 1)) = k
        /\ \A m \in 1..k : SubSeq(s, i, i + k - 1)[m] = s[i + m - 1]
    BY <2>2, <2>3, PartFacts
  <2> QED
    BY <2>1, <2>3, <2>4
<1>4. PICK u \in Seq(Symbols) : /\ u = SubSeq(s, j + 1, l) /\ Len(u) = l - j
                                /\ \A m \in 1..(l - j) : u[m] = s[j + m]
  <2>1. \A m \in 1..(l - j) : j + 1 + m - 1 = j + m
    BY <1>2
  <2> QED
    BY <1>3, <2>1
<1>5. SubSeq(u, 1, n) = SubSeq(s, j + 1, j + n)
  <2>1. 1 \in 1..(Len(u) + 1) /\ 1 + n - 1 = n /\ n <= Len(u)
    BY <1>2, <1>4
  <2>2. /\ SubSeq(u, 1, n) \in Seq(Symbols) /\ Len(SubSeq(u, 1, n)) = n
        /\ \A m \in 1..n : SubSeq(u, 1, n)[m] = u[1 + m - 1]
    BY <1>2, <2>1, PartFacts
  <2>3. j + 1 \in 1..(Len(s) + 1) /\ (j + 1) + n - 1 = j + n /\ j + n <= Len(s)
    BY <1>1, <1>2
  <2>4. /\ SubSeq(s, j + 1, j + n) \in Seq(Symbols) /\ Len(SubSeq(s, j + 1, j + n)) = n
        /\ \A m \in 1..n : SubSeq(s, j + 1, j + n)[m] = s[j + 1 + m - 1]
    BY <1>2, <2>3, PartFacts
  <2>5. ASSUME NEW m \in 1..n PROVE SubSeq(u, 1, n)[m] = SubSeq(s, j + 1, j + n)[m]
    <3>1. 1 + m - 1 = m /\ j + 1 + m - 1 = j + m /\ m \in 1..(l - j)
      BY <1>2
    <3> QED
      BY <1>4, <2>2, <2>4, <3>1
  <2> QED
    BY <2>2, <2>4, <2>5, SeqEqual
<1>6. SubSeq(u, n + 1, l - j) = SubSeq(s, j + n + 1, l)
  <2>1. /\ n + 1 \in 1..(Len(u) + 1) /\ l - j - n \in Nat
        /\ (n + 1) + (l - j - n) - 1 = l - j /\ l - j <= Len(u)
    BY <1>2, <1>4
  <2>2. /\ SubSeq(u, n + 1, l - j) \in Seq(Symbols) /\ Len(SubSeq(u, n + 1, l - j)) = l - j - n
        /\ \A m \in 1..(l - j - n) : SubSeq(u, n + 1, l - j)[m] = u[n + 1 + m - 1]
    BY <2>1, PartFacts
  <2>3. /\ j + n + 1 \in 1..(Len(s) + 1) /\ (j + n + 1) + (l - j - n) - 1 = l /\ l <= Len(s)
    BY <1>1, <1>2
  <2>4. /\ SubSeq(s, j + n + 1, l) \in Seq(Symbols) /\ Len(SubSeq(s, j + n + 1, l)) = l - j - n
        /\ \A m \in 1..(l - j - n) : SubSeq(s, j + n + 1, l)[m] = s[j + n + 1 + m - 1]
    BY <2>1, <2>3, PartFacts
  <2>5. ASSUME NEW m \in 1..(l - j - n)
        PROVE  SubSeq(u, n + 1, l - j)[m] = SubSeq(s, j + n + 1, l)[m]
    <3>1. /\ n + 1 + m - 1 = n + m /\ j + n + 1 + m - 1 = j + (n + m)
          /\ n + m \in 1..(l - j)
      BY <1>2
    <3> QED
      BY <1>4, <2>2, <2>4, <3>1
  <2> QED
    BY <2>2, <2>4, <2>5, SeqEqual
<1> QED
  BY <1>1, <1>4, <1>5, <1>6

\* The length of the piece that observe_bytes takes from t.
Space(o, t) ==
  IF Len(t) < MaxEvent - Len(o.buffer) THEN Len(t) ELSE MaxEvent - Len(o.buffer)

\* What a turn starts from and ends with, and the rest behind a piece.
Fed(o, t) == [obs |-> o, rest |-> t]
Behind(t, n) == SubSeq(t, n + 1, Len(t))

\* The three cases of a turn of observe_bytes.
LEMMA PieceCases ==
  ASSUME NEW o, Clean(o), NEW t \in Seq(Symbols), NEW n, n = Space(o, t)
  PROVE  /\ Off(o) \/ t = << >> => FeedPiece(Fed(o, t)) = Fed(o, t)
         /\ ~Off(o) /\ t # << >> /\ n = 0 => FeedPiece(Fed(o, t)) = Fed(Disable(o), t)
         /\ ~Off(o) /\ t # << >> /\ n # 0 =>
              FeedPiece(Fed(o, t)) = Fed(DrainEvents(Loaded(o, Part(t, 0, n))), Behind(t, n))
<1>1. o.buffer \in Seq(Symbols) /\ Len(o.buffer) \in Nat /\ Len(o.buffer) <= MaxEvent /\ MaxEvent \in Nat
  BY ObserverAssumption DEF Clean, Observers
<1>2. PICK y \in Nat : y = MaxEvent - Len(o.buffer)
  <2>1. PICK l \in Nat, M \in Nat : l = Len(o.buffer) /\ M = MaxEvent /\ l <= M
    BY <1>1
  <2>2. M - l \in Nat
    BY <2>1
  <2> QED
    BY <2>1, <2>2
<1>3. t # << >> => Len(t) \in Nat \ {0}
  OBVIOUS
<1>4. PICK p : p = Fed(o, t) /\ p = [obs |-> o, rest |-> t] /\ p.obs = o /\ p.rest = t
  <2>1. /\ Fed(o, t) = [obs |-> o, rest |-> t]
        /\ Fed(o, t).obs = o /\ Fed(o, t).rest = t
    BY DEF Fed
  <2> QED
    BY <2>1
<1>5. CASE Off(o) \/ t = << >>
  BY <1>4, <1>5 DEF FeedPiece, Off
<1>6. CASE ~Off(o) /\ t # << >> /\ n = 0
  <2>1. MaxEvent - Len(o.buffer) <= 0
    BY <1>2, <1>3, <1>6 DEF Space
  <2>2. FeedPiece(p) = [p EXCEPT !.obs = Disable(@)]
    BY <1>4, <1>6, <2>1 DEF FeedPiece, Off
  <2> QED
    BY <1>4, <1>6, <2>2 DEF Fed
<1>7. CASE ~Off(o) /\ t # << >> /\ n # 0
  <2>1. ~(MaxEvent - Len(o.buffer) <= 0)
    BY <1>2, <1>3, <1>7 DEF Space
  <2>2. FeedPiece(p) = [obs  |-> DrainEvents([o EXCEPT !.buffer = @ \o SubSeq(t, 1, n)]),
                        rest |-> SubSeq(t, n + 1, Len(t))]
    BY <1>4, <1>7, <2>1 DEF FeedPiece, Off, Space
  <2>3. [o EXCEPT !.buffer = @ \o SubSeq(t, 1, n)] = With(o, o.buffer \o SubSeq(t, 1, n))
    BY DEF With
  <2>4. n \in Nat /\ Part(t, 0, n) = SubSeq(t, 1, n)
    BY <1>2, <1>3, <1>7 DEF Space, Part
  <2> QED
    BY <1>4, <1>7, <2>2, <2>3, <2>4 DEF Fed, Behind, Loaded
<1> QED
  BY <1>5, <1>6, <1>7

\* The observer, and the rest of the chunk, when the reader has read i symbols.
Stands(q, f, chunk, i) ==
  /\ q.obs = f[i].seen
  /\ q.rest \in Seq(Symbols)
  /\ Off(f[i].seen) \/ q.rest = SubSeq(chunk, i + 1, Len(chunk))

\* A turn of observe_bytes takes the observer to where the reader is after
\* one or more symbols, unless it was disabled or at the end of the chunk.
LEMMA TurnReads ==
  ASSUME NEW d, NEW chunk \in Seq(Symbols), NEW f, Reading(f, d, chunk), NEW j \in 0..Len(chunk),
         NEW p, p \in [obs : Observers, rest : Seq(Symbols)], Stands(p, f, chunk, j)
  PROVE  /\ FeedPiece(p) \in [obs : Observers, rest : Seq(Symbols)]
         /\ \/ FeedPiece(p) = p /\ (Off(f[j].seen) \/ j = Len(chunk))
            \/ \E i \in (j + 1)..Len(chunk) : Stands(FeedPiece(p), f, chunk, i)
<1>1. PICK l \in Nat : l = Len(chunk)
  OBVIOUS
<1>2. j \in 0..l /\ \A i \in 0..l : f[i] \in Readers /\ f[i].seen \in Observers /\ Clean(f[i].seen)
  BY <1>1 DEF Reading, Readers
<1>3. PICK o, t : o = f[j].seen /\ t = p.rest
  OBVIOUS
<1>4. /\ Clean(o) /\ o \in Observers /\ t \in Seq(Symbols) /\ p = Fed(o, t)
      /\ Off(o) \/ t = SubSeq(chunk, j + 1, l)
  BY <1>1, <1>2, <1>3 DEF Stands, Fed
<1>5. PICK n : n = Space(o, t)
  OBVIOUS
<1>6. /\ Off(o) \/ t = << >> => FeedPiece(p) = p
      /\ ~Off(o) /\ t # << >> /\ n = 0 => FeedPiece(p) = Fed(Disable(o), t)
      /\ ~Off(o) /\ t # << >> /\ n # 0 =>
           FeedPiece(p) = Fed(DrainEvents(Loaded(o, Part(t, 0, n))), Behind(t, n))
  BY <1>4, <1>5, PieceCases
<1>7. CASE Off(o)
  BY <1>3, <1>6, <1>7
<1>8. CASE ~Off(o)
  <2>1. t = SubSeq(chunk, j + 1, Len(chunk))
    BY <1>1, <1>4, <1>8
  <2>2. Len(t) = l - j /\ Len(t) \in Nat
    <3>1. 0 \in 0..(Len(chunk) - j)
      BY <1>1, <1>2
    <3> QED
      BY <1>1, <1>4, <2>1, <3>1, RestFacts
  <2>3. CASE t = << >>
    <3>1. l = j
      <4>1. Len(t) = 0
        BY <2>3
      <4> QED
        BY <1>1, <1>2, <2>2, <4>1
    <3> QED
      BY <1>1, <1>6, <2>3, <3>1
  <2>4. CASE t # << >>
    <3>1. PICK b \in Nat : b = Len(o.buffer) /\ b <= MaxEvent
      BY <1>4 DEF Clean, Observers
    <3>2. Len(t) # 0 /\ j + 1 \in 0..l /\ j + 1 \in (j + 1)..l /\ j + 1 \in 1..l /\ (j + 1) - 1 = j
      <4>1. Len(t) # 0
        BY <1>4, <2>4
      <4> QED
        BY <1>1, <1>2, <2>2, <4>1
    <3>3. CASE n = 0
      <4>1. MaxEvent - b = 0
        BY <1>5, <2>2, <3>1, <3>2, <3>3 DEF Space
      <4>2. ~Room(o)
        BY <3>1, <4>1, ObserverAssumption DEF Room
      <4>3. f[j] \in Readers /\ chunk[j + 1] \in Symbols /\ f[j + 1] = ReadSymbol(f[j], chunk[j + 1])
        BY <1>1, <1>2, <3>2 DEF Reading
      <4>4. f[j + 1].seen = Disable(o) /\ Off(f[j + 1].seen)
        BY <1>3, <1>8, <4>2, <4>3, ReadOne
      <4>5. FeedPiece(p) = Fed(f[j + 1].seen, t)
        BY <1>6, <1>8, <2>4, <3>3, <4>4
      <4>6. Stands(FeedPiece(p), f, chunk, j + 1)
        BY <1>4, <4>4, <4>5 DEF Stands, Fed
      <4>7. FeedPiece(p) \in [obs : Observers, rest : Seq(Symbols)]
        BY <1>2, <1>4, <3>2, <4>5 DEF Fed
      <4> QED
        BY <1>1, <3>2, <4>6, <4>7
    <3>4. CASE n # 0
      <4>1. PICK k \in Nat : k = n /\ k >= 1 /\ k <= l - j /\ b + k <= MaxEvent
        <5>1. PICK M \in Nat, m \in Nat : M = MaxEvent /\ m = Len(t)
          BY <2>2, ObserverAssumption
        <5>2. n = IF m < M - b THEN m ELSE M - b
          BY <1>5, <3>1, <5>1 DEF Space
        <5>3. m = l - j /\ m # 0 /\ b <= M
          BY <2>2, <3>1, <3>2, <5>1
        <5>4. n \in Nat /\ n >= 1 /\ n <= m /\ b + n <= M
          BY <3>4, <5>2, <5>3
        <5> QED
          BY <5>1, <5>3, <5>4
      <4>2. /\ k \in 0..(Len(chunk) - j) /\ j + k \in (j + 1)..l /\ j + k \in 0..l
        BY <1>1, <1>2, <4>1
      <4>3. Part(t, 0, k) = Part(chunk, j, k) /\ Behind(t, k) = SubSeq(chunk, j + k + 1, Len(chunk))
        <5>1. /\ SubSeq(t, 1, k) = SubSeq(chunk, j + 1, j + k)
              /\ SubSeq(t, k + 1, Len(t)) = SubSeq(chunk, j + k + 1, Len(chunk))
          BY <2>1, <4>2, RestFacts
        <5>2. 0 + 1 = 1 /\ 0 + k = k
          BY <4>1
        <5> QED
          BY <5>1, <5>2 DEF Part, Behind
      <4>4. DrainEvents(Loaded(o, Part(chunk, j, k))) = f[j + k].seen
        <5>1. Fits(f[j].seen, k) /\ ~Off(f[j].seen)
          BY <1>3, <1>8, <3>1, <4>1 DEF Fits
        <5>2. DrainEvents(Loaded(f[j].seen, Part(chunk, j, k))) = f[j + k].seen
          BY <4>2, <5>1, PieceDrains
        <5> QED
          BY <1>3, <5>2
      <4>5. FeedPiece(p) = Fed(f[j + k].seen, SubSeq(chunk, j + k + 1, Len(chunk)))
        BY <1>6, <1>8, <2>4, <3>4, <4>1, <4>3, <4>4
      <4>6. SubSeq(chunk, j + k + 1, Len(chunk)) \in Seq(Symbols)
        <5>1. j + k \in 0..Len(chunk) /\ 0 \in 0..(Len(chunk) - (j + k))
          BY <1>1, <4>2
        <5> QED
          BY <5>1, RestFacts
      <4>7. Stands(FeedPiece(p), f, chunk, j + k)
        BY <4>5, <4>6 DEF Stands, Fed
      <4>8. FeedPiece(p) \in [obs : Observers, rest : Seq(Symbols)]
        BY <1>2, <4>2, <4>5, <4>6 DEF Fed
      <4> QED
        BY <1>1, <4>2, <4>7, <4>8
    <3> QED
      BY <3>3, <3>4
  <2> QED
    BY <2>3, <2>4
<1> QED
  BY <1>7, <1>8

\* The observer between two turns of observe_bytes.
Feds == {p \in [obs : Observers, rest : Seq(Symbols)] : Clean(p.obs)}

\* A turn of observe_bytes leaves such an observer.
LEMMA TurnKeeps ==
  ASSUME NEW p \in Feds
  PROVE  FeedPiece(p) \in Feds
<1>1. PICK d : d = [seen |-> p.obs, final |-> "none"]
  OBVIOUS
<1>2. PICK t \in Seq(Symbols) : t = p.rest
  BY DEF Feds
<1>3. d \in Readers /\ d.seen = p.obs /\ p \in [obs : Observers, rest : Seq(Symbols)]
  BY <1>1 DEF Feds, Readers
<1>4. PICK f : Reading(f, d, t)
  BY <1>3, Reads
<1>5. PICK l \in Nat : l = Len(t)
  OBVIOUS
<1>6. 0 \in 0..Len(t) /\ f[0] = d /\ \A i \in 0..l : f[i] \in Readers
  BY <1>4, <1>5 DEF Reading
<1>7. Stands(p, f, t, 0)
  <2>1. 0 + 1 = 1 /\ SubSeq(t, 1, Len(t)) = t
    BY SubSeqFull
  <2> QED
    BY <1>2, <1>3, <1>6, <2>1 DEF Stands
<1>8. /\ FeedPiece(p) \in [obs : Observers, rest : Seq(Symbols)]
      /\ \/ FeedPiece(p) = p
         \/ \E i \in (0 + 1)..Len(t) : Stands(FeedPiece(p), f, t, i)
  BY <1>3, <1>4, <1>6, <1>7, TurnReads
<1>9. CASE FeedPiece(p) = p
  BY <1>9
<1>10. ASSUME NEW i \in (0 + 1)..Len(t), Stands(FeedPiece(p), f, t, i)
       PROVE  FeedPiece(p) \in Feds
  <2>1. i \in 0..l
    BY <1>5
  <2>2. Clean(f[i].seen)
    BY <1>6, <2>1 DEF Readers
  <2>3. Clean(FeedPiece(p).obs)
    BY <1>10, <2>2 DEF Stands
  <2> QED
    BY <1>8, <2>3 DEF Feds
<1> QED
  BY <1>8, <1>9, <1>10

\* The turns of observe_bytes: a says what is left after each.
Feeding(a, o, chunk) ==
  /\ a \in [0..Len(chunk) -> Feds]
  /\ a[0] = Fed(o, chunk)
  /\ \A k \in 1..Len(chunk) : a[k] = FeedPiece(a[k - 1])

\* observe_bytes goes turn by turn.
LEMMA Feeds ==
  ASSUME NEW o, Clean(o), NEW chunk \in Seq(Symbols)
  PROVE  \E a : Feeding(a, o, chunk) /\ Feed(o, chunk) = a[Len(chunk)].obs
<1> DEFINE Turn(f, k) == IF k = 0 THEN [obs |-> o, rest |-> chunk] ELSE FeedPiece(f[k - 1])
           h == CHOOSE f : f = [k \in 0..Len(chunk) |-> Turn(f, k)]
<1>1. PICK n \in Nat : n = Len(chunk)
  OBVIOUS
<1>2. Feed(o, chunk) = h[n].obs
  BY <1>1 DEF Feed
<1>3. PICK x \in Feds : x = [obs |-> o, rest |-> chunk] /\ x = Fed(o, chunk)
  <2>1. o \in Observers
    BY DEF Clean
  <2>2. [obs |-> o, rest |-> chunk] \in Feds
    BY <2>1 DEF Feds
  <2> QED
    BY <2>2 DEF Fed
<1>4. PICK g \in [Nat -> [Feds -> Feds]] : \A k \in Nat, p \in Feds : g[k][p] = FeedPiece(p)
  <2>1. [k \in Nat |-> [p \in Feds |-> FeedPiece(p)]] \in [Nat -> [Feds -> Feds]]
    BY TurnKeeps
  <2> QED
    BY <2>1
<1>5. PICK f \in [0..n -> Feds] : f[0] = x /\ \A k \in 1..n : f[k] = g[k][f[k - 1]]
  <2>1. \E f : Turns(f, Feds, g, x, n)
    BY <1>4, Iteration
  <2> QED
    BY <2>1 DEF Turns
<1>6. ASSUME NEW k \in 1..n
      PROVE  f[k] = FeedPiece(f[k - 1])
  <2>1. k \in Nat /\ k - 1 \in 0..n
    BY <1>1
  <2>2. f[k - 1] \in Feds
    BY <2>1
  <2>3. f[k] = g[k][f[k - 1]]
    BY <1>5
  <2> QED
    BY <1>4, <2>1, <2>2, <2>3
<1>7. f = [k \in 0..n |-> Turn(f, k)]
  <2>1. ASSUME NEW k \in 0..n PROVE f[k] = Turn(f, k)
    <3>1. CASE k = 0
      BY <1>3, <1>5, <3>1
    <3>2. CASE k # 0
      <4>1. k \in 1..n
        BY <1>1, <3>2
      <4> QED
        BY <1>6, <3>2, <4>1
    <3> QED
      BY <3>1, <3>2
  <2> HIDE DEF Turn
  <2> QED
    BY <2>1
<1>8. h = [k \in 0..n |-> Turn(h, k)]
  BY <1>1, <1>7
<1>9. h[n] = f[n]
  <2>1. \A k \in 0..n : h[k] = Turn(h, k)
    <3> HIDE DEF h, Turn
    <3> QED
      BY <1>8
  <2> HIDE DEF h
  <2>2. 0 \in 0..n /\ \A k \in 1..n : k \in 0..n /\ k # 0
    BY <1>1
  <2>3. h[0] = f[0]
    BY <1>3, <1>5, <2>1, <2>2
  <2>4. \A k \in 1..n : h[k] = FeedPiece(h[k - 1])
    BY <2>1, <2>2
  <2>5. \A k \in 1..n : h[k - 1] = f[k - 1] => h[k] = f[k]
    BY <1>6, <2>4
  <2> QED
    BY <1>1, <2>3, <2>5, SameTurns
<1>10. Feeding(f, o, chunk)
  BY <1>1, <1>3, <1>5, <1>6 DEF Feeding
<1> HIDE DEF h
<1> QED
  BY <1>1, <1>2, <1>9, <1>10

\* observe_bytes, which takes a chunk in pieces and searches each for events,
\* sees what the reader of single symbols sees.
LEMMA FeedReads ==
  ASSUME NEW d \in Readers, NEW chunk \in Seq(Symbols)
  PROVE  /\ Read(d, chunk) \in Readers
         /\ Feed(d.seen, chunk) = Read(d, chunk).seen
         /\ d.seen.content => Read(d, chunk).seen.content
<1>1. PICK f : Reading(f, d, chunk) /\ Read(d, chunk) = f[Len(chunk)]
  BY Reads
<1>2. Clean(d.seen)
  BY DEF Readers
<1>3. PICK a : Feeding(a, d.seen, chunk) /\ Feed(d.seen, chunk) = a[Len(chunk)].obs
  BY <1>2, Feeds
<1>4. PICK l \in Nat : l = Len(chunk)
  OBVIOUS
<1>5. /\ 0 \in 0..l /\ l \in 0..l /\ l \in l..l /\ l \in 0..Len(chunk)
      /\ f[0] = d /\ \A i \in 0..l : f[i] \in Readers
  BY <1>1, <1>4 DEF Reading
<1> DEFINE At(k, j) == Stands(a[k], f, chunk, j) /\ (Off(f[j].seen) \/ j >= k)
           T == {k \in 0..l : \E j \in 0..l : At(k, j)}
<1>6. 0 \in T
  <2>1. a[0] = Fed(d.seen, chunk)
    BY <1>3 DEF Feeding
  <2>2. 0 + 1 = 1 /\ SubSeq(chunk, 1, Len(chunk)) = chunk
    BY SubSeqFull
  <2>3. Stands(a[0], f, chunk, 0)
    BY <1>5, <2>1, <2>2 DEF Stands, Fed
  <2>4. 0 >= 0
    OBVIOUS
  <2> QED
    BY <1>5, <2>3, <2>4
<1>7. ASSUME NEW k \in 0..(l - 1), k \in T PROVE k + 1 \in T
  <2>1. PICK j \in 0..l : At(k, j)
    BY <1>7
  <2>2. k \in 0..l /\ k + 1 \in 0..l /\ k + 1 \in 1..l /\ (k + 1) - 1 = k
    BY <1>4
  <2>3. a[k] \in Feds /\ a[k + 1] = FeedPiece(a[k])
    BY <1>3, <1>4, <2>2 DEF Feeding
  <2>4. a[k] \in [obs : Observers, rest : Seq(Symbols)] /\ j \in 0..Len(chunk)
    BY <1>4, <2>3 DEF Feds
  <2>5. \/ a[k + 1] = a[k] /\ (Off(f[j].seen) \/ j = Len(chunk))
        \/ \E i \in (j + 1)..Len(chunk) : Stands(a[k + 1], f, chunk, i)
    BY <1>1, <2>1, <2>3, <2>4, TurnReads
  <2>6. CASE a[k + 1] = a[k] /\ (Off(f[j].seen) \/ j = Len(chunk))
    <3>1. Off(f[j].seen) \/ j >= k + 1
      BY <1>4, <2>2, <2>6
    <3>2. At(k + 1, j)
      BY <2>1, <2>6, <3>1
    <3> QED
      BY <2>2, <3>2
  <2>7. ASSUME NEW i \in (j + 1)..Len(chunk), Stands(a[k + 1], f, chunk, i)
        PROVE  k + 1 \in T
    <3>1. i \in 0..l /\ j \in 0..i /\ i \in j..Len(chunk) /\ (j >= k => i >= k + 1)
      BY <1>4, <2>2
    <3>2. Off(f[j].seen) => f[i] = f[j]
      BY <1>1, <2>4, <3>1, ReadingOn
    <3>3. Off(f[i].seen) \/ i >= k + 1
      BY <2>1, <3>1, <3>2
    <3>4. At(k + 1, i)
      BY <2>7, <3>3
    <3> QED
      BY <2>2, <3>1, <3>4
  <2> QED
    BY <2>5, <2>6, <2>7
<1>8. l \in T
  <2> HIDE DEF T
  <2> QED
    BY <1>5, <1>6, <1>7, SetInductionTo
<1>9. PICK j \in 0..l : At(l, j)
  BY <1>8
<1>10. f[l] = f[j]
  <2>1. CASE Off(f[j].seen)
    <3>1. j \in 0..Len(chunk) /\ l \in j..Len(chunk)
      BY <1>4
    <3> QED
      BY <1>1, <2>1, <3>1, ReadingOn
  <2>2. CASE j >= l
    BY <2>2
  <2> QED
    BY <1>9, <2>1, <2>2
<1>11. a[l].obs = f[l].seen
  BY <1>9, <1>10 DEF Stands
<1>12. d.seen.content => f[l].seen.content
  <2>1. 0 \in 0..Len(chunk) /\ l \in 0..Len(chunk)
    BY <1>4
  <2> QED
    BY <1>1, <1>5, <2>1, ReadingOn
<1> QED
  BY <1>1, <1>3, <1>4, <1>5, <1>11, <1>12

-----------------------------------------------------------------------------
(***************************************************************************)
(* The observer between the calls of the relay.                            *)
(***************************************************************************)
\* What was counted follows from what the stream has shown.
Counted ==
  LET seen == bytewise.seen
      once(c) == IF c THEN 1 ELSE 0
  IN  /\ ttft = [observed |-> once(seen.content),
                 missing  |-> once(finalized /\ ~seen.content)]
      /\ coverage = [observed |-> once(finalized /\ CoverageOf(seen) = "observed"),
                     missing  |-> once(finalized /\ CoverageOf(seen) = "missing"),
                     invalid  |-> once(finalized /\ CoverageOf(seen) = "invalid")]

Watched ==
  /\ bytewise \in Readers
  /\ relayed \in Nat
  /\ finalized \in BOOLEAN
  /\ ChunkingIsInvisible
  /\ Counted

\* A new observer has seen and counted nothing.
LEMMA WatchedInit == ObserverInit => Watched
<1> SUFFICES ASSUME ObserverInit PROVE Watched
  OBVIOUS
<1>1. NewObserver \in Observers /\ NewObserver.buffer = << >>
  <2>1. << >> \in Seq(Symbols)
    OBVIOUS
  <2> QED
    BY <2>1 DEF NewObserver, Observers, UsageResults
<1>2. Clean(NewObserver)
  BY <1>1, EmptyIsClean
<1>3. bytewise \in Readers /\ obs = bytewise.seen
  BY <1>1, <1>2 DEF ObserverInit, Readers
<1>4. Counted
  BY DEF ObserverInit, Counted, NewObserver
<1> QED
  BY <1>3, <1>4 DEF Watched, ObserverInit, ChunkingIsInvisible

\* A chunk, in whatever pieces, shows the observer what it shows the reader.
LEMMA ObserveBytesKeeps ==
  ASSUME Watched, ~finalized, ObserveBytes
  PROVE  Watched'
<1>1. PICK chunk \in Chunks :
        /\ relayed' = relayed + Len(chunk)
        /\ bytewise' = Read(bytewise, chunk)
        /\ obs' = Feed(obs, chunk)
  BY DEF ObserveBytes
<1>2. chunk \in Seq(Symbols)
  <2>1. PICK n \in 1..(MaxStream - relayed) : chunk \in [1..n -> Texts \cup NewLines]
    BY DEF Chunks
  <2>2. n \in Nat
    BY ObserverAssumption DEF Watched
  <2> QED
    BY <2>1, <2>2 DEF Symbols
<1>3. bytewise \in Readers /\ obs = bytewise.seen
  BY DEF Watched, ChunkingIsInvisible
<1>4. /\ bytewise' \in Readers /\ obs' = bytewise'.seen
      /\ bytewise.seen.content => bytewise'.seen.content
  <2>1. PICK d, e : d = bytewise /\ e = Read(d, chunk)
    OBVIOUS
  <2>2. d \in Readers
    BY <1>3, <2>1
  <2>3. /\ e \in Readers /\ Feed(d.seen, chunk) = e.seen
        /\ d.seen.content => e.seen.content
    BY <1>2, <2>1, <2>2, FeedReads
  <2>4. bytewise' = e /\ obs' = Feed(d.seen, chunk)
    BY <1>1, <1>3, <2>1
  <2> QED
    BY <2>1, <2>3, <2>4
<1>5. relayed' \in Nat
  BY <1>1, <1>2 DEF Watched
<1>6. Counted'
  <2>1. PICK p, q \in Readers : p = bytewise /\ q = bytewise'
    BY <1>3, <1>4
  <2>2. p.seen.content \in BOOLEAN /\ q.seen.content \in BOOLEAN
    BY DEF Readers, Observers
  <2>3. /\ finalized' = finalized /\ coverage' = coverage
        /\ ttft' = [ttft EXCEPT !.observed = @ + (IF q.seen.content /\ ~p.seen.content THEN 1 ELSE 0)]
    BY <1>3, <1>4, <2>1 DEF ObserveBytes, ObserveTtft
  <2>4. p.seen.content => q.seen.content
    BY <1>4, <2>1
  <2>5. ttft = [observed |-> IF p.seen.content THEN 1 ELSE 0, missing |-> 0]
    BY <2>1 DEF Watched, Counted
  <2>6. ttft' = [observed |-> IF q.seen.content THEN 1 ELSE 0, missing |-> 0]
    BY <2>2, <2>3, <2>4, <2>5
  <2>7. coverage' = [observed |-> 0, missing |-> 0, invalid |-> 0]
    BY <2>3 DEF Watched, Counted
  <2> QED
    BY <2>1, <2>3, <2>6, <2>7 DEF Counted
<1>7. finalized' \in BOOLEAN
  BY DEF Watched, ObserveBytes
<1> QED
  BY <1>4, <1>5, <1>6, <1>7 DEF Watched, ChunkingIsInvisible

\* finalize counts the stream, and empties the buffer.
LEMMA FinalizeKeeps ==
  ASSUME Watched, ~finalized, FinalizeObserver
  PROVE  Watched'
<1>1. PICK d \in Readers : d = bytewise
  BY DEF Watched
<1>2. PICK o \in Observers : o = d.seen /\ o = obs
  BY <1>1 DEF Watched, ChunkingIsInvisible, Readers
<1>3. PICK x : x = With(o, << >>)
  OBVIOUS
<1>4. /\ x \in Observers /\ x.buffer = << >> /\ Clean(x)
      /\ x.content = o.content /\ x.usage = o.usage /\ x.disabled = o.disabled
  <2>1. x \in Observers /\ x.buffer = << >>
    BY <1>3, WithNothing
  <2>2. x.content = o.content /\ x.usage = o.usage /\ x.disabled = o.disabled
    BY <1>3 DEF With, Observers
  <2> QED
    BY <2>1, <2>2, EmptyIsClean
<1>5. obs' = x /\ bytewise' = [d EXCEPT !.seen = x]
  BY <1>1, <1>2, <1>3 DEF FinalizeObserver, With, Readers
<1>6. bytewise' \in Readers /\ bytewise'.seen = x
  BY <1>4, <1>5 DEF Readers
<1>7. CoverageOf(x) = CoverageOf(o) /\ CoverageOf(o) \in {"observed", "missing", "invalid"}
  BY <1>4 DEF CoverageOf
<1>8. /\ ttft' = [ttft EXCEPT !.missing = @ + (IF o.content THEN 0 ELSE 1)]
      /\ coverage' = [coverage EXCEPT ![CoverageOf(o)] = @ + 1]
      /\ finalized' = TRUE /\ relayed' = relayed
  BY <1>2 DEF FinalizeObserver, RecordMissingTtft
<1>9. /\ ttft = [observed |-> IF o.content THEN 1 ELSE 0, missing |-> 0]
      /\ coverage = [observed |-> 0, missing |-> 0, invalid |-> 0]
  BY <1>1, <1>2 DEF Watched, Counted
<1>10. ttft' = [observed |-> IF o.content THEN 1 ELSE 0, missing |-> IF o.content THEN 0 ELSE 1]
  BY <1>8, <1>9
<1>11. coverage' = [observed |-> IF CoverageOf(o) = "observed" THEN 1 ELSE 0,
                    missing  |-> IF CoverageOf(o) = "missing" THEN 1 ELSE 0,
                    invalid  |-> IF CoverageOf(o) = "invalid" THEN 1 ELSE 0]
  <2>1. CASE CoverageOf(o) = "observed"
    <3>1. coverage' = [coverage EXCEPT !["observed"] = @ + 1]
      BY <1>8, <2>1, Zenon
    <3>2. coverage' = [coverage EXCEPT !.observed = @ + 1]
      BY <1>9, <3>1
    <3> QED
      BY <1>9, <2>1, <3>2
  <2>2. CASE CoverageOf(o) = "missing"
    <3>1. coverage' = [coverage EXCEPT !["missing"] = @ + 1]
      BY <1>8, <2>2, Zenon
    <3>2. coverage' = [coverage EXCEPT !.missing = @ + 1]
      BY <1>9, <3>1
    <3> QED
      BY <1>9, <2>2, <3>2
  <2>3. CASE CoverageOf(o) = "invalid"
    <3>1. coverage' = [coverage EXCEPT !["invalid"] = @ + 1]
      BY <1>8, <2>3, Zenon
    <3>2. coverage' = [coverage EXCEPT !.invalid = @ + 1]
      BY <1>9, <3>1
    <3> QED
      BY <1>9, <2>3, <3>2
  <2> QED
    BY <1>7, <2>1, <2>2, <2>3
<1>12. Counted'
  BY <1>4, <1>6, <1>7, <1>8, <1>10, <1>11 DEF Counted
<1> QED
  BY <1>5, <1>6, <1>8, <1>12 DEF Watched, ChunkingIsInvisible

\* Other steps leave the observer.
LEMMA WatchedStays == Watched /\ UNCHANGED observer => Watched'
BY DEF Watched, ChunkingIsInvisible, Counted, observer

\* What was counted is what has to be counted.
LEMMA WatchedCounts == Watched => StreamCountedOnce
<1> SUFFICES ASSUME Watched PROVE StreamCountedOnce
  OBVIOUS
<1>1. PICK o \in Observers : o = bytewise.seen
  BY DEF Watched, Readers
<1>2. /\ CoverageOf(o) \in {"observed", "missing", "invalid"}
      /\ CoverageOf(o) = "observed" => o.usage = "observed"
      /\ CoverageOf(o) = "missing" => o.usage = "none" /\ ~o.disabled
  BY DEF CoverageOf, Observers, UsageResults
<1>3. /\ ttft.observed = IF o.content THEN 1 ELSE 0
      /\ ttft.missing = IF finalized /\ ~o.content THEN 1 ELSE 0
      /\ coverage.observed = IF finalized /\ CoverageOf(o) = "observed" THEN 1 ELSE 0
      /\ coverage.missing = IF finalized /\ CoverageOf(o) = "missing" THEN 1 ELSE 0
      /\ coverage.invalid = IF finalized /\ CoverageOf(o) = "invalid" THEN 1 ELSE 0
  BY <1>1 DEF Watched, Counted
<1>4. finalized \in BOOLEAN /\ o.content \in BOOLEAN
  BY DEF Watched, Observers
<1> QED
  BY <1>1, <1>2, <1>3, <1>4 DEF StreamCountedOnce
=============================================================================
