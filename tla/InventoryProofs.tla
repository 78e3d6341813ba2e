--------------------------- MODULE InventoryProofs ---------------------------
(***************************************************************************)
(* Proofs about Inventory for every number of classes, managers and        *)
(* reservations, cabins of any size and rows of any width.                 *)
(***************************************************************************)
EXTENDS InventorySafety, SequenceTheorems, FiniteSetTheorems, WellFoundedInduction, TLAPS

-----------------------------------------------------------------------------
(* Induction over the natural numbers, from their well-foundedness.        *)

\* A set of numbers has a least one.
LEMMA LeastNumber ==
    ASSUME NEW T \in SUBSET Nat, T # {}
    PROVE  \E x \in T : \A y \in T : x <= y
<1> DEFINE R == OpToRel(<, Nat)
<1>1. IsWellFoundedOn(R, Nat)
  BY NatLessThanWellFounded
<1>2. \A x, y \in Nat : x < y => <<x, y>> \in R
  BY DEF OpToRel
<1> HIDE DEF R
<1>3. PICK x \in T : \A y \in T : ~ (<<y, x>> \in R)
  BY <1>1, WFMin
<1>4. ASSUME NEW y \in T PROVE ~(y < x)
  <2>1. x \in Nat /\ y \in Nat
    OBVIOUS
  <2>2. <<y, x>> \notin R
    BY <1>3
  <2>3. y < x => <<y, x>> \in R
    BY <1>2, <2>1
  <2> QED BY <2>2, <2>3
<1>5. x \in Nat OBVIOUS
<1> QED BY <1>4, <1>5

\* Induction, as a statement about a set of numbers.
LEMMA SetInduction ==
    ASSUME NEW T, 0 \in T, \A n \in Nat : n \in T => n + 1 \in T
    PROVE  Nat \subseteq T
<1> SUFFICES ASSUME Nat \ T # {} PROVE FALSE
  OBVIOUS
<1>1. PICK x \in Nat \ T : \A y \in Nat \ T : x <= y
  BY LeastNumber
<1> QED BY <1>1

\* A finite set of numbers has a largest one, which is its Max.
LEMMA MaxFacts ==
    ASSUME NEW X \in SUBSET Nat, IsFiniteSet(X), X # {}
    PROVE  Max(X) \in X /\ \A y \in X : y <= Max(X)
<1> DEFINE Bounded(Y) == \E m \in Y : \A y \in Y : y <= m
           T == {n \in Nat : \A Y \in SUBSET Nat :
                    IsFiniteSet(Y) /\ Cardinality(Y) = n /\ Y # {} => Bounded(Y)}
<1>1. 0 \in T
  BY FS_EmptySet
<1>2. ASSUME NEW n \in Nat, n \in T
      PROVE  n + 1 \in T
  <2> SUFFICES ASSUME NEW Y \in SUBSET Nat, IsFiniteSet(Y), Cardinality(Y) = n + 1, Y # {}
               PROVE  Bounded(Y)
    OBVIOUS
  <2> PICK x \in Y : TRUE
    OBVIOUS
  <2>1. IsFiniteSet(Y \ {x}) /\ Cardinality(Y \ {x}) = n
    <3>1. IsFiniteSet(Y \ {x}) /\ Cardinality(Y \ {x}) = Cardinality(Y) - 1
      BY FS_RemoveElement
    <3> QED BY <3>1
  <2>2. CASE Y \ {x} = {}
    BY <2>2
  <2>3. CASE Y \ {x} # {}
    <3>1. PICK m \in Y \ {x} : \A y \in Y \ {x} : y <= m
      BY <1>2, <2>1, <2>3
    <3>2. CASE x <= m
      BY <3>1, <3>2
    <3>3. CASE m <= x
      <4>1. \A y \in Y : y <= x
        BY <3>1, <3>3
      <4> QED BY <4>1
    <3> QED BY <3>2, <3>3
  <2> QED BY <2>2, <2>3
<1> HIDE DEF T
<1>3. Nat \subseteq T
  BY <1>1, <1>2, SetInduction
<1>4. Cardinality(X) \in Nat
  BY FS_CardinalityType
<1>5. Bounded(X)
  BY <1>3, <1>4 DEF T
<1>6. \E m \in X : \A y \in X : m >= y
  BY <1>5
<1>7. Max(X) \in X /\ \A y \in X : Max(X) >= y
  BY <1>6 DEF Max
<1> QED BY <1>7

\* The sets of places and rows of a cabin are finite sets of numbers.
LEMMA ImageIsFinite ==
    ASSUME NEW S, IsFiniteSet(S), NEW f, f = [s \in S |-> f[s]]
    PROVE  IsFiniteSet({f[s] : s \in S})
<1> DEFINE T == {f[s] : s \in S}
<1>1. f \in Surjection(S, T)
  BY DEF Surjection
<1> QED BY <1>1, FS_Surjection

-----------------------------------------------------------------------------
(* Rows.                                                                   *)

\* What is left over is less than the divisor.
LEMMA Division ==
    ASSUME NEW C \in Nat \ {0}, NEW p \in Nat
    PROVE  p \div C \in Nat /\ (p \div C) * C <= p /\ p < (p \div C) * C + C
  OBVIOUS

\* Two rows of a cabin do not overlap.
LEMMA Products ==
    ASSUME NEW C \in Nat \ {0}, NEW a \in Nat, NEW b \in Nat, a < b
    PROVE  a * C + C <= b * C
<1> PICK d \in Nat : b = a + 1 + d
  <2>1. b - a - 1 \in Nat /\ b = a + 1 + (b - a - 1)
    OBVIOUS
  <2> QED BY <2>1
<1>1. b * C = a * C + C + d * C
  OBVIOUS
<1>2. d * C >= 0
  OBVIOUS
<1> QED BY <1>1, <1>2

\* A place is in row q or behind it when it is past q full rows.
LEMMA RowIsFrom ==
    ASSUME NEW C \in Nat \ {0}, NEW p \in Nat, NEW q \in Nat
    PROVE  /\ q * C <= p <=> q <= p \div C
           /\ p < q * C <=> p \div C < q
<1> PICK r \in Nat : r = p \div C /\ r * C <= p /\ p < r * C + C
  BY Division
<1>1. r < q => r * C + C <= q * C
  BY Products
<1>2. q < r => q * C + C <= r * C
  BY Products
<1>3. r * C \in Nat /\ q * C \in Nat
  OBVIOUS
<1> QED BY <1>1, <1>2, <1>3

\* n seats fit into RowsFor(n) rows.
LEMMA RowsForFits ==
    ASSUME NEW n \in Nat
    PROVE  RowsFor(n) \in Nat /\ n <= RowsFor(n) * Columns
<1> PICK C \in Nat \ {0} : C = Columns
  BY InventoryAssumption
<1> PICK p \in Nat : p = n + C - 1
  OBVIOUS
<1> PICK r \in Nat : r = p \div C /\ r * C <= p /\ p < r * C + C
  BY Division
<1>1. r * C \in Nat
  OBVIOUS
<1>2. n <= r * C
  BY <1>1
<1>3. RowsFor(n) = r
  BY DEF RowsFor
<1> QED BY <1>2, <1>3
-----------------------------------------------------------------------------
(* The cabin.                                                              *)

Seat == [class : Classes, place : Nat]

IsCabin(S) == S \in SUBSET Seat /\ IsFiniteSet(S) /\ \A s \in S : RowOf(s) > 0

OneClassPerRow(S) == \A s, t \in S : RowOf(s) = RowOf(t) => s.class = t.class

\* The same for the row of a seat.
LEMMA RowFacts ==
    ASSUME NEW s \in Seat
    PROVE  /\ RowOf(s) \in Nat
           /\ \A q \in Nat : /\ q * Columns <= s.place <=> q <= RowOf(s)
                             /\ s.place < q * Columns <=> RowOf(s) < q
<1>1. s.place \in Nat /\ Columns \in Nat \ {0}
  BY InventoryAssumption DEF Seat
<1>2. s.place \div Columns \in Nat
  BY <1>1, Division
<1> QED BY <1>1, <1>2, RowIsFrom DEF RowOf

\* Consecutive places of a class are as many seats as were asked for.
LEMMA SpanFacts ==
    ASSUME NEW c \in Classes, NEW first \in Nat, NEW n \in Nat
    PROVE  /\ Span(c, first, n) \subseteq Seat /\ IsFiniteSet(Span(c, first, n))
           /\ Cardinality(Span(c, first, n)) = n
           /\ \A s \in Span(c, first, n) :
                 s.class = c /\ first <= s.place /\ s.place < first + n
<1> DEFINE P == first .. first + n - 1
           f == [p \in P |-> [class |-> c, place |-> p]]
           T == Span(c, first, n)
<1>1. T \subseteq Seat /\ \A s \in T : s.class = c /\ first <= s.place /\ s.place < first + n
  BY DEF Span, Seat
<1>2. IsFiniteSet(P) /\ Cardinality(P) = n
  BY FS_Interval
<1>3. f \in Bijection(P, T)
  <2>1. f \in Injection(P, T)
    <3>1. \A p \in P : f[p] \in T /\ f[p].place = p
      BY DEF Span
    <3>2. f \in [P -> T]
      BY <3>1
    <3>3. \A p, q \in P : f[p] = f[q] => p = q
      BY <3>1
    <3> HIDE DEF f, P, T
    <3> QED BY <3>2, <3>3 DEF Injection, IsInjective
  <2>2. f \in Surjection(P, T)
    BY DEF Surjection, Span
  <2> QED BY <2>1, <2>2 DEF Bijection
<1> HIDE DEF P, f, T
<1>4. IsFiniteSet(T) /\ Cardinality(T) = n
  BY <1>2, <1>3, FS_Bijection DEF ExistsBijection
<1> QED BY <1>1, <1>4 DEF T

\* The seats of one class in a cabin.
LEMMA SeatsOfFacts ==
    ASSUME NEW S, IsCabin(S), NEW c
    PROVE  /\ SeatsOf(S, c) \subseteq S /\ IsCabin(SeatsOf(S, c))
           /\ Cardinality(SeatsOf(S, c)) \in Nat
           /\ Cardinality(SeatsOf(S, c)) = 0 <=> SeatsOf(S, c) = {}
<1>1. SeatsOf(S, c) \subseteq S
  BY DEF SeatsOf
<1> QED BY <1>1, FS_Subset, FS_CardinalityType, FS_EmptySet DEF IsCabin

\* No seat is behind the last row.
LEMMA LastRowFacts ==
    ASSUME NEW S, IsCabin(S)
    PROVE  LastRow(S) \in Nat /\ \A s \in S : RowOf(s) <= LastRow(S)
<1> DEFINE f == [s \in S |-> RowOf(s)]
           X == {RowOf(s) : s \in S}
<1>1. X = {f[s] : s \in S}
  OBVIOUS
<1>2. IsFiniteSet(X)
  <2>1. f = [s \in S |-> f[s]] /\ IsFiniteSet(S)
    BY DEF IsCabin
  <2> HIDE DEF f, X
  <2> QED BY <1>1, <2>1, ImageIsFinite
<1>3. \A s \in S : RowOf(s) \in Nat
  BY RowFacts DEF IsCabin
<1>4. X \cup {0} \in SUBSET Nat /\ IsFiniteSet(X \cup {0}) /\ X \cup {0} # {}
  BY <1>2, <1>3, FS_AddElement
<1>5. Max(X \cup {0}) \in X \cup {0} /\ \A y \in X \cup {0} : y <= Max(X \cup {0})
  BY <1>4, MaxFacts
<1>6. LastRow(S) = Max(X \cup {0})
  BY DEF LastRow
<1> QED BY <1>4, <1>5, <1>6

\* The last seat of a class.
LEMMA LastSeat ==
    ASSUME NEW S, IsCabin(S), NEW c, SeatsOf(S, c) # {}
    PROVE  \E t \in SeatsOf(S, c) :
              /\ t.place = Max({s.place : s \in SeatsOf(S, c)})
              /\ \A s \in SeatsOf(S, c) : s.place <= t.place
<1> DEFINE T == SeatsOf(S, c)
           f == [s \in T |-> s.place]
           X == {s.place : s \in T}
<1>1. X = {f[s] : s \in T}
  OBVIOUS
<1>2. IsFiniteSet(T) /\ T \subseteq Seat
  BY SeatsOfFacts DEF IsCabin
<1>3. IsFiniteSet(X) /\ X \in SUBSET Nat /\ X # {}
  <2>1. f = [s \in T |-> f[s]]
    OBVIOUS
  <2>2. X \in SUBSET Nat /\ X # {}
    BY <1>2 DEF Seat
  <2> HIDE DEF f, X, T
  <2> QED BY <1>1, <1>2, <2>1, <2>2, ImageIsFinite
<1>4. Max(X) \in X /\ \A y \in X : y <= Max(X)
  BY <1>3, MaxFacts
<1> QED BY <1>4

\* Where a class goes on there is nobody else.
LEMMA NewPlaces ==
    ASSUME NEW S, IsCabin(S), NEW c \in Classes, SeatsOf(S, c) # {},
           NEW s \in Seat, s.class = c, s.place >= FirstNewPlace(S, c)
    PROVE  /\ FirstNewPlace(S, c) \in Nat /\ s \notin S /\ RowOf(s) > 0
           /\ OneClassPerRow(S) => \A t \in S : RowOf(t) = RowOf(s) => t.class = c
<1> PICK C \in Nat \ {0} : C = Columns
  BY InventoryAssumption
<1> PICK L \in Nat : L = LastRow(S) /\ \A t \in S : RowOf(t) <= L
  BY LastRowFacts
<1> PICK last \in SeatsOf(S, c) : /\ last.place = Max({t.place : t \in SeatsOf(S, c)})
                                  /\ \A t \in SeatsOf(S, c) : t.place <= last.place
  BY LastSeat
<1>1. last \in S /\ last \in Seat /\ last.class = c /\ last.place \in Nat
      /\ RowOf(last) \in Nat /\ RowOf(last) > 0
  BY RowFacts DEF SeatsOf, IsCabin, Seat
<1>2. s.place \in Nat /\ RowOf(s) \in Nat
  BY RowFacts DEF Seat
<1>3. CASE RowOf(last) = L
  <2>1. FirstNewPlace(S, c) = last.place + 1
    BY <1>3 DEF FirstNewPlace, RowOf
  <2>2. s \notin S
    BY <1>1, <1>2, <2>1 DEF SeatsOf
  <2>3. RowOf(last) <= RowOf(s)
    <3>1. RowOf(last) * Columns <= last.place
      BY <1>1, RowFacts
    <3>2. RowOf(last) * C \in Nat
      BY <1>1
    <3>3. RowOf(last) * Columns <= s.place
      BY <1>1, <1>2, <2>1, <3>1, <3>2
    <3> QED BY <1>1, <3>3, RowFacts
  <2>4. \A t \in S : RowOf(t) = RowOf(s) => RowOf(t) = RowOf(last)
    <3> SUFFICES ASSUME NEW t \in S, RowOf(t) = RowOf(s) PROVE RowOf(t) = RowOf(last)
      OBVIOUS
    <3>1. RowOf(t) <= L /\ RowOf(t) \in Nat
      BY RowFacts DEF IsCabin
    <3> QED BY <1>1, <1>3, <2>3, <3>1
  <2> QED BY <1>1, <1>2, <2>1, <2>2, <2>3, <2>4 DEF OneClassPerRow
<1>4. CASE RowOf(last) # L
  <2>1. FirstNewPlace(S, c) = (L + 1) * C
    BY <1>4 DEF FirstNewPlace, RowOf
  <2>2. (L + 1) * C \in Nat
    OBVIOUS
  <2>3. L + 1 <= RowOf(s)
    BY <1>2, <2>1, RowFacts
  <2>4. \A t \in S : RowOf(t) # RowOf(s)
    <3> SUFFICES ASSUME NEW t \in S PROVE RowOf(t) # RowOf(s)
      OBVIOUS
    <3>1. RowOf(t) <= L /\ RowOf(t) \in Nat
      BY RowFacts DEF IsCabin
    <3> QED BY <1>2, <2>3, <3>1
  <2>5. s \notin S
    BY <2>4
  <2> QED BY <1>2, <2>1, <2>2, <2>3, <2>4, <2>5
<1> QED BY <1>3, <1>4

\* What is added fills a class up, with new seats in rows of its own.
LEMMA ToAddFacts ==
    ASSUME NEW S, IsCabin(S), NEW c \in Classes, NEW n \in Nat, NEW A, A = ToAdd(S, c, n)
    PROVE  /\ IsCabin(A) /\ A \cap S = {} /\ \A s \in A : s.class = c
           /\ SeatsOf(S, c) = {} => A = {}
           /\ n <= Cardinality(SeatsOf(S, c)) => A = {}
           /\ n > Cardinality(SeatsOf(S, c)) /\ SeatsOf(S, c) # {} =>
                 Cardinality(A) = n - Cardinality(SeatsOf(S, c))
           /\ OneClassPerRow(S) => OneClassPerRow(S \cup A)
<1> PICK have \in Nat : have = Cardinality(SeatsOf(S, c)) /\ (have = 0 <=> SeatsOf(S, c) = {})
  BY SeatsOfFacts
<1>1. CASE have = 0 \/ n <= have
  <2>1. A = {}
    BY <1>1 DEF ToAdd
  <2>2. IsCabin(A)
    BY <2>1, FS_EmptySet DEF IsCabin
  <2> QED BY <1>1, <2>1, <2>2
<1>2. CASE have # 0 /\ n > have
  <2> PICK first : first = FirstNewPlace(S, c)
    OBVIOUS
  <2>1. A = Span(c, first, n - have) /\ n - have \in Nat
    BY <1>2 DEF ToAdd
  <2>2. first \in Nat
    <3> PICK L \in Nat : L = LastRow(S)
      BY LastRowFacts
    <3> PICK last \in SeatsOf(S, c) : last.place = Max({t.place : t \in SeatsOf(S, c)})
      BY <1>2, LastSeat
    <3>1. last.place \in Nat /\ Columns \in Nat
      BY InventoryAssumption DEF SeatsOf, IsCabin, Seat
    <3>2. (L + 1) * Columns \in Nat
      BY <3>1
    <3> QED BY <3>1, <3>2 DEF FirstNewPlace
  <2>3. /\ A \subseteq Seat /\ IsFiniteSet(A) /\ Cardinality(A) = n - have
        /\ \A s \in A : s.class = c /\ first <= s.place
    BY <2>1, <2>2, SpanFacts
  <2>4. \A s \in A : s \notin S /\ RowOf(s) > 0
    BY <1>2, <2>2, <2>3, NewPlaces DEF Seat
  <2>5. ASSUME OneClassPerRow(S)
        PROVE  OneClassPerRow(S \cup A)
    <3>1. \A s \in A, t \in S : RowOf(t) = RowOf(s) => t.class = c
      BY <1>2, <2>2, <2>3, <2>5, NewPlaces DEF Seat
    <3> QED BY <2>3, <2>5, <3>1 DEF OneClassPerRow
  <2>6. IsCabin(A)
    BY <2>3, <2>4 DEF IsCabin
  <2> QED BY <1>2, <2>3, <2>4, <2>5, <2>6
<1> QED BY <1>1, <1>2


-----------------------------------------------------------------------------
(* The seats after an edit of the dashboard.                               *)

\* Every class once.
IsOrder(order) ==
    /\ order \in Seq(Classes)
    /\ \A i, j \in 1 .. Len(order) : order[i] = order[j] => i = j
    /\ \A c \in Classes : \E i \in 1 .. Len(order) : order[i] = c

\* An order that reaches every class lists each of them once.
LEMMA OntoIsOrder ==
    ASSUME NEW order \in [1 .. Len(PkOrder) -> Classes], {order[i] : i \in DOMAIN order} = Classes
    PROVE  IsOrder(order) /\ Len(order) = Len(PkOrder)
<1> PICK n \in Nat : n = Len(PkOrder)
  BY InventoryAssumption, LenProperties
<1>1. IsFiniteSet(1 .. n) /\ Cardinality(1 .. n) = n
  BY FS_Interval
<1>2. order \in Surjection(1 .. n, Classes)
  BY DEF Surjection
<1>3. Cardinality(Classes) = n
  BY InventoryAssumption
<1>4. order \in Injection(1 .. n, Classes)
  BY <1>1, <1>2, <1>3, FS_SurjSameCardinalityImpliesInj
<1>5. \A i, j \in 1 .. n : order[i] = order[j] => i = j
  BY <1>4 DEF Injection, IsInjective
<1>6. order \in Seq(Classes) /\ Len(order) = n
  BY LenProperties
<1>7. \A c \in Classes : \E i \in 1 .. n : order[i] = c
  OBVIOUS
<1> QED BY <1>5, <1>6, <1>7 DEF IsOrder

\* Both orders of the classes do.
LEMMA Orders == IsOrder(PkOrder) /\ IsOrder(CabinOrder) /\ DOMAIN CabinOrder = 1 .. Len(CabinOrder)
<1>1. PkOrder \in [1 .. Len(PkOrder) -> Classes] /\ {PkOrder[i] : i \in DOMAIN PkOrder} = Classes
  BY InventoryAssumption, LenProperties DEF Classes
<1>2. CabinOrder \in [1 .. Len(PkOrder) -> Classes] /\ {CabinOrder[i] : i \in DOMAIN CabinOrder} = Classes
  BY InventoryAssumption
<1> QED BY <1>1, <1>2, OntoIsOrder

\* Only free seats of the class are removed, and none without an excess.
LEMMA RemoveFacts ==
    ASSUME NEW S, NEW F, IsCabin(F), NEW c, NEW n
    PROVE  /\ ToRemove(S, F, c, n) \subseteq SeatsOf(F, c)
           /\ Excess(S, c, n) = 0 => ToRemove(S, F, c, n) = {}
<1>1. ToRemove(S, F, c, n) \subseteq SeatsOf(F, c)
  BY DEF ToRemove, Candidates
<1>2. ASSUME Excess(S, c, n) = 0, NEW s \in ToRemove(S, F, c, n)
      PROVE  FALSE
  <2> DEFINE T == {t \in Candidates(S, F, c) : t.place > s.place}
  <2>1. Cardinality(T) < 0
    BY <1>2 DEF ToRemove
  <2>2. T \subseteq SeatsOf(F, c) /\ IsFiniteSet(SeatsOf(F, c))
    BY SeatsOfFacts DEF Candidates, IsCabin
  <2>3. Cardinality(T) \in Nat
    BY <2>2, FS_Subset, FS_CardinalityType
  <2> QED BY <2>1, <2>3
<1> QED BY <1>1, <1>2

\* What is true of a class that has been synchronised: only seats that may go have
\* gone, and there are as many as the capacity says.
ClassSynced(S, c, n) ==
    /\ SeatsOf(seats, c) \ S \subseteq ToRemove(seats, free, c, n)
    /\ SeatsOf(seats, c) = {} => SeatsOf(S, c) = {}
    /\ /\ SeatsOf(seats, c) # {}
       /\ Cardinality(ToRemove(seats, free, c, n)) = Excess(seats, c, n)
       => Cardinality(SeatsOf(S, c)) = n

\* A class that is synchronised has its capacity, the others what they had.
LEMMA SyncedFacts ==
    ASSUME IsCabin(seats), free \subseteq seats, NEW S, IsCabin(S), NEW c \in Classes, NEW n \in Nat,
           SeatsOf(S, c) = SeatsOf(seats, c), NEW T, T = Synced(S, c, n)
    PROVE  /\ IsCabin(T) /\ ClassSynced(T, c, n)
           /\ \A d \in Classes \ {c} : SeatsOf(T, d) = SeatsOf(S, d)
           /\ OneClassPerRow(S) => OneClassPerRow(T)
<1> PICK A : A = ToAdd(S, c, n)
  OBVIOUS
<1> PICK R : R = ToRemove(seats, free, c, n)
  OBVIOUS
<1> PICK have \in Nat : have = Cardinality(SeatsOf(S, c)) /\ (have = 0 <=> SeatsOf(S, c) = {})
  BY SeatsOfFacts
<1>1. Excess(S, c, n) = Excess(seats, c, n)
  BY DEF Excess
<1>2. T = (S \cup A) \ R
  BY <1>1 DEF Synced, ToRemove, Candidates
<1>3. IsCabin(free)
  BY FS_Subset DEF IsCabin
<1>4. R \subseteq SeatsOf(S, c) /\ (Excess(S, c, n) = 0 => R = {})
  <2>1. R \subseteq SeatsOf(free, c)
    BY <1>3, RemoveFacts
  <2>2. SeatsOf(free, c) \subseteq SeatsOf(S, c)
    BY DEF SeatsOf
  <2> QED BY <1>1, <1>3, <2>1, <2>2, RemoveFacts
<1>5. /\ IsCabin(A) /\ A \cap S = {} /\ \A s \in A : s.class = c
      /\ have = 0 => A = {}
      /\ n <= have => A = {}
      /\ n > have /\ have # 0 => Cardinality(A) = n - have
      /\ OneClassPerRow(S) => OneClassPerRow(S \cup A)
  <2>1. /\ IsCabin(A) /\ A \cap S = {} /\ \A s \in A : s.class = c
        /\ SeatsOf(S, c) = {} => A = {}
        /\ n <= Cardinality(SeatsOf(S, c)) => A = {}
        /\ n > Cardinality(SeatsOf(S, c)) /\ SeatsOf(S, c) # {} =>
              Cardinality(A) = n - Cardinality(SeatsOf(S, c))
        /\ OneClassPerRow(S) => OneClassPerRow(S \cup A)
    BY ONLY IsCabin(S), c \in Classes, n \in Nat, A = ToAdd(S, c, n), ToAddFacts
  <2> QED BY <2>1
<1>6. IsCabin(T)
  <2>1. IsFiniteSet(S \cup A)
    <3>1. IsFiniteSet(S) /\ IsFiniteSet(A)
      BY <1>5 DEF IsCabin
    <3> QED BY ONLY <3>1, FS_Union
  <2>2. T \subseteq S \cup A
    BY <1>2
  <2>3. IsFiniteSet(T)
    BY ONLY <2>1, <2>2, FS_Subset
  <2> QED BY <1>5, <2>2, <2>3 DEF IsCabin
<1>7. SeatsOf(T, c) = (SeatsOf(S, c) \cup A) \ R
  BY <1>2, <1>5 DEF SeatsOf
<1>8. \A d \in Classes \ {c} : SeatsOf(T, d) = SeatsOf(S, d)
  BY <1>2, <1>4, <1>5 DEF SeatsOf
<1>9. SeatsOf(seats, c) \ T \subseteq R
  BY <1>2 DEF SeatsOf
<1>10. OneClassPerRow(S) => OneClassPerRow(T)
  BY <1>2, <1>5 DEF OneClassPerRow
<1>11. ASSUME Cardinality(R) = Excess(S, c, n), have # 0
       PROVE  Cardinality(SeatsOf(T, c)) = n
  <2> PICK B : B = SeatsOf(S, c) /\ IsFiniteSet(B)
    BY SeatsOfFacts DEF IsCabin
  <2>1. CASE n > have
    <3>1. Excess(S, c, n) = 0
      BY <2>1 DEF Excess
    <3>2. SeatsOf(T, c) = B \cup A
      BY <1>4, <1>7, <3>1
    <3>3. Cardinality(B \cup A) = Cardinality(B) + Cardinality(A) - Cardinality(B \cap A)
      BY <1>5, FS_Union DEF IsCabin
    <3>4. B \cap A = {} /\ Cardinality(B \cap A) = 0
      BY <1>5, FS_EmptySet DEF SeatsOf
    <3> QED BY <1>5, <1>11, <2>1, <3>2, <3>3, <3>4
  <2>2. CASE n <= have
    <3>1. Excess(S, c, n) = have - n
      BY <2>2 DEF Excess
    <3>2. SeatsOf(T, c) = B \ R /\ B \cap R = R
      BY <1>4, <1>5, <1>7, <2>2
    <3>3. Cardinality(B \ R) = Cardinality(B) - Cardinality(B \cap R)
      BY FS_Difference
    <3> QED BY <1>11, <3>1, <3>2, <3>3
  <2> QED BY <2>1, <2>2
<1>12. have = 0 => SeatsOf(T, c) = {}
  BY <1>5, <1>7
<1>13. ClassSynced(T, c, n)
  BY <1>1, <1>9, <1>11, <1>12 DEF ClassSynced
<1> QED BY <1>6, <1>8, <1>10, <1>13

IsResync(g, k, order, cap) ==
    g = [i \in 0 .. k |-> IF i = 0 THEN seats ELSE Synced(g[i - 1], order[i], cap[order[i]])]

\* The cabin after each class in turn exists.
LEMMA ResyncExists ==
    ASSUME NEW order, NEW cap, NEW k \in Nat
    PROVE  \E g : IsResync(g, k, order, cap)
<1> DEFINE T == {n \in Nat : \E g : IsResync(g, n, order, cap)}
<1>1. 0 \in T
  <2> DEFINE g == [i \in 0 .. 0 |-> seats]
  <2>1. IsResync(g, 0, order, cap)
    BY DEF IsResync
  <2> QED BY <2>1
<1>2. ASSUME NEW n \in Nat, n \in T
      PROVE  n + 1 \in T
  <2> PICK g : IsResync(g, n, order, cap)
    BY <1>2
  <2> DEFINE h == [i \in 0 .. n + 1 |-> IF i = 0 THEN seats
                                        ELSE Synced(g[i - 1], order[i], cap[order[i]])]
  <2>1. \A i \in 0 .. n : h[i] = g[i]
    BY DEF IsResync
  <2>2. \A i \in 0 .. n + 1 : i # 0 => i - 1 \in 0 .. n
    OBVIOUS
  <2>3. h = [i \in 0 .. n + 1 |-> IF i = 0 THEN seats
                                  ELSE Synced(h[i - 1], order[i], cap[order[i]])]
    BY <2>1, <2>2
  <2> HIDE DEF h
  <2>4. IsResync(h, n + 1, order, cap)
    BY <2>3 DEF IsResync
  <2> QED BY <2>4
<1> HIDE DEF T
<1>3. Nat \subseteq T
  BY <1>1, <1>2, SetInduction
<1> QED BY <1>3 DEF T

\* The first i classes are synchronised, the others are as before.
SyncedUpTo(S, i, order, cap) ==
    /\ IsCabin(S) /\ (OneClassPerRow(seats) => OneClassPerRow(S))
    /\ \A j \in 1 .. Len(order) :
          /\ j <= i => ClassSynced(S, order[j], cap[order[j]])
          /\ j > i => SeatsOf(S, order[j]) = SeatsOf(seats, order[j])

\* A cabin that is synchronised class by class is right for all of them.
LEMMA ResyncedFacts ==
    ASSUME IsCabin(seats), free \subseteq seats, NEW order, IsOrder(order),
           NEW cap \in [Classes -> Nat], NEW S, S = Resynced(order, cap)
    PROVE  /\ IsCabin(S) /\ (OneClassPerRow(seats) => OneClassPerRow(S))
           /\ \A c \in Classes : ClassSynced(S, c, cap[c])
<1> PICK n \in Nat : n = Len(order)
  BY LenProperties DEF IsOrder
<1> DEFINE g == CHOOSE f : IsResync(f, n, order, cap)
<1>1. IsResync(g, n, order, cap)
  BY ResyncExists
<1>2. S = g[n]
  BY DEF Resynced, IsResync
<1> HIDE DEF g
<1>3. g[0] = seats /\ \A i \in 0 .. n - 1 : g[i + 1] = Synced(g[i], order[i + 1], cap[order[i + 1]])
  BY <1>1 DEF IsResync
<1> DEFINE T == {i \in Nat : i <= n => SyncedUpTo(g[i], i, order, cap)}
<1>4. 0 \in T
  BY <1>3 DEF SyncedUpTo
<1>5. ASSUME NEW i \in Nat, i \in T
      PROVE  i + 1 \in T
  <2> SUFFICES ASSUME i + 1 <= n PROVE SyncedUpTo(g[i + 1], i + 1, order, cap)
    OBVIOUS
  <2> PICK c : c = order[i + 1]
    OBVIOUS
  <2>1. SyncedUpTo(g[i], i, order, cap) /\ i \in 0 .. n - 1 /\ i + 1 \in 1 .. n
    BY <1>5
  <2>2. c \in Classes /\ cap[c] \in Nat
    BY <2>1 DEF IsOrder
  <2>3. IsCabin(g[i]) /\ SeatsOf(g[i], c) = SeatsOf(seats, c) /\ g[i + 1] = Synced(g[i], c, cap[c])
    BY <1>3, <2>1 DEF SyncedUpTo
  <2>4. /\ IsCabin(g[i + 1]) /\ ClassSynced(g[i + 1], c, cap[c])
        /\ \A d \in Classes \ {c} : SeatsOf(g[i + 1], d) = SeatsOf(g[i], d)
        /\ OneClassPerRow(g[i]) => OneClassPerRow(g[i + 1])
    BY <2>2, <2>3, SyncedFacts
  <2>5. ASSUME NEW j \in 1 .. n
        PROVE  /\ j <= i + 1 => ClassSynced(g[i + 1], order[j], cap[order[j]])
               /\ j > i + 1 => SeatsOf(g[i + 1], order[j]) = SeatsOf(seats, order[j])
    <3>1. CASE j = i + 1
      BY <2>4, <3>1
    <3>2. CASE j # i + 1
      <4> PICK d : d = order[j]
        OBVIOUS
      <4>1. d \in Classes \ {c}
        BY <2>1, <3>2 DEF IsOrder
      <4>2. SeatsOf(g[i + 1], d) = SeatsOf(g[i], d)
        BY <2>4, <4>1
      <4>3. SeatsOf(seats, d) \ g[i] = SeatsOf(seats, d) \ g[i + 1]
        BY <4>2 DEF SeatsOf
      <4>4. j <= i => ClassSynced(g[i], d, cap[d])
        BY <2>1 DEF SyncedUpTo
      <4>5. j <= i => ClassSynced(g[i + 1], d, cap[d])
        BY <4>2, <4>3, <4>4 DEF ClassSynced
      <4>6. j > i => SeatsOf(g[i], d) = SeatsOf(seats, d)
        BY <2>1 DEF SyncedUpTo
      <4> QED BY <3>2, <4>2, <4>5, <4>6
    <3> QED BY <3>1, <3>2
  <2> QED BY <2>1, <2>4, <2>5 DEF SyncedUpTo
<1> HIDE DEF T
<1>6. n \in T
  BY <1>4, <1>5, SetInduction
<1>7. SyncedUpTo(S, n, order, cap)
  BY <1>2, <1>6 DEF T
<1> QED BY <1>7 DEF SyncedUpTo, IsOrder

-----------------------------------------------------------------------------
(* The seats that generate_seats_for_flight adds.                          *)

Fresh(S) == {i \in DOMAIN CabinOrder : SeatsOf(S, CabinOrder[i]) = {}}

Width(S, cap, i) == IF i \in Fresh(S) THEN RowsFor(cap[CabinOrder[i]]) ELSE 0

IsRows(g, D, S, next, cap) ==
    g = [i \in D |-> IF i = 1 THEN next
                     ELSE g[i - 1] + IF i - 1 \in Fresh(S) THEN RowsFor(cap[CabinOrder[i - 1]]) ELSE 0]

\* The first row of each class in turn exists.
LEMMA RowsExist ==
    ASSUME NEW S, NEW next, NEW cap, NEW k \in Nat
    PROVE  \E g : IsRows(g, 1 .. k, S, next, cap)
<1> DEFINE T == {n \in Nat : \E g : IsRows(g, 1 .. n, S, next, cap)}
           After(x, i) == x + IF i - 1 \in Fresh(S) THEN RowsFor(cap[CabinOrder[i - 1]]) ELSE 0
<1>1. 0 \in T
  <2> DEFINE g == [i \in 1 .. 0 |-> next]
  <2>1. IsRows(g, 1 .. 0, S, next, cap)
    BY DEF IsRows
  <2> QED BY <2>1
<1>2. ASSUME NEW n \in Nat, n \in T
      PROVE  n + 1 \in T
  <2> PICK g : IsRows(g, 1 .. n, S, next, cap)
    BY <1>2
  <2> DEFINE h == [i \in 1 .. n + 1 |-> IF i = 1 THEN next ELSE After(g[i - 1], i)]
  <2>1. \A i \in 1 .. n : h[i] = g[i]
    BY DEF IsRows
  <2>2. \A i \in 1 .. n + 1 : i # 1 => i - 1 \in 1 .. n
    OBVIOUS
  <2>3. h = [i \in 1 .. n + 1 |-> IF i = 1 THEN next ELSE After(h[i - 1], i)]
    BY <2>1, <2>2
  <2> HIDE DEF h
  <2>4. IsRows(h, 1 .. n + 1, S, next, cap)
    BY <2>3 DEF IsRows
  <2> QED BY <2>4
<1> HIDE DEF T
<1>3. Nat \subseteq T
  BY <1>1, <1>2, SetInduction
<1> QED BY <1>3 DEF T

\* Each class begins behind the rows of the one before it.
LEMMA RowsFacts ==
    ASSUME NEW S, NEW next \in Nat, NEW cap \in [Classes -> Nat], NEW n \in Nat, n = Len(PkOrder),
           NEW g, IsRows(g, 1 .. n, S, next, cap)
    PROVE  /\ \A i \in 1 .. n : g[i] \in Nat /\ next <= g[i] /\ Width(S, cap, i) \in Nat
           /\ \A i, j \in 1 .. n : i < j => g[i] + Width(S, cap, i) <= g[j]
<1>1. CabinOrder \in [1 .. n -> Classes]
  BY InventoryAssumption
<1>2. \A i \in 1 .. n : Width(S, cap, i) \in Nat
  BY <1>1, RowsForFits DEF Width
<1>3. /\ 1 \in 1 .. n => g[1] = next
      /\ \A i \in 1 .. n : i + 1 \in 1 .. n => g[i + 1] = g[i] + Width(S, cap, i)
  BY DEF IsRows, Width
<1> DEFINE Good(j) == /\ g[j] \in Nat /\ next <= g[j]
                      /\ \A i \in 1 .. n : i < j => g[i] \in Nat /\ g[i] + Width(S, cap, i) <= g[j]
           T == {k \in Nat : k + 1 \in 1 .. n => Good(k + 1)}
<1>4. 0 \in T
  BY <1>3
<1>5. ASSUME NEW k \in Nat, k \in T
      PROVE  k + 1 \in T
  <2> SUFFICES ASSUME k + 2 \in 1 .. n PROVE Good(k + 2)
    OBVIOUS
  <2> PICK j \in 1 .. n : j = k + 1
    OBVIOUS
  <2> PICK w \in Nat : w = Width(S, cap, j)
    BY <1>2
  <2>1. Good(j) /\ g[k + 2] = g[j] + w
    BY <1>3, <1>5
  <2>2. g[k + 2] \in Nat /\ next <= g[k + 2] /\ g[j] <= g[k + 2]
    BY <2>1
  <2>3. ASSUME NEW i \in 1 .. n, i < k + 2
        PROVE  g[i] \in Nat /\ g[i] + Width(S, cap, i) <= g[k + 2]
    <3>1. CASE i = j
      BY <2>1, <2>2, <3>1
    <3>2. CASE i # j
      <4>1. i < j
        BY <2>3, <3>2
      <4>2. g[i] \in Nat /\ g[i] + Width(S, cap, i) <= g[j]
        BY <2>1, <4>1
      <4>3. Width(S, cap, i) \in Nat
        BY <1>2
      <4> QED BY <2>1, <2>2, <4>2, <4>3
    <3> QED BY <3>1, <3>2
  <2> QED BY <2>2, <2>3
<1> HIDE DEF T
<1>6. Nat \subseteq T
  BY <1>4, <1>5, SetInduction
<1>7. \A j \in 1 .. n : j - 1 \in Nat /\ (j - 1) + 1 = j
  OBVIOUS
<1>8. \A j \in 1 .. n : Good(j)
  BY <1>6, <1>7 DEF T
<1> QED BY <1>2, <1>8

\* The place of each class: its seats are in rows that nobody else has.
LEMMA BlockFacts ==
    ASSUME NEW first \in Nat, NEW n \in Nat, NEW c \in Classes, NEW s \in Span(c, first * Columns, n)
    PROVE  /\ s \in Seat /\ s.class = c /\ RowOf(s) \in Nat
           /\ first <= RowOf(s) /\ RowOf(s) < first + RowsFor(n)
<1> PICK C \in Nat \ {0} : C = Columns
  BY InventoryAssumption
<1> PICK w \in Nat : w = RowsFor(n) /\ n <= w * C
  BY RowsForFits
<1>1. first * C \in Nat /\ w * C \in Nat /\ first + w \in Nat /\ (first + w) * C = first * C + w * C
  OBVIOUS
<1>2. s \in Seat /\ s.class = c /\ first * C <= s.place /\ s.place < first * C + n
  BY <1>1, SpanFacts
<1>3. s.place \in Nat /\ RowOf(s) \in Nat
  BY <1>2, RowFacts DEF Seat
<1>4. s.place < (first + w) * C
  BY <1>1, <1>2, <1>3
<1> QED BY <1>1, <1>2, <1>3, <1>4, RowFacts

\* Generation gives every empty class its seats, in rows nobody else has.
LEMMA GeneratedFacts ==
    ASSUME NEW S, IsCabin(S), NEW next \in Nat \ {0}, NEW cap \in [Classes -> Nat],
           NEW N, N = Generated(S, next, cap)
    PROVE  /\ IsCabin(N) /\ N \cap S = {}
           /\ \A s \in N : SeatsOf(S, s.class) = {} /\ next <= RowOf(s)
           /\ \A c \in Classes : SeatsOf(S, c) = {} => Cardinality(SeatsOf(N, c)) = cap[c]
           /\ OneClassPerRow(N)
<1> PICK n \in Nat : n = Len(PkOrder)
  BY InventoryAssumption, LenProperties
<1>1. CabinOrder \in [1 .. n -> Classes] /\ DOMAIN CabinOrder = 1 .. n
  BY InventoryAssumption
<1>2. /\ \A c \in Classes : \E i \in 1 .. n : CabinOrder[i] = c
      /\ \A i, j \in 1 .. n : CabinOrder[i] = CabinOrder[j] => i = j
  BY <1>1, Orders DEF IsOrder
<1> DEFINE g == CHOOSE f : IsRows(f, DOMAIN CabinOrder, S, next, cap)
           B(i) == Span(CabinOrder[i], g[i] * Columns, cap[CabinOrder[i]])
<1>3. N = UNION {B(i) : i \in Fresh(S)}
  BY DEF Generated, IsRows, Fresh
<1>4. IsRows(g, 1 .. n, S, next, cap)
  <2>1. \E f : IsRows(f, 1 .. n, S, next, cap)
    BY ONLY n \in Nat, RowsExist
  <2>2. \E f : IsRows(f, DOMAIN CabinOrder, S, next, cap)
    BY ONLY <1>1, <2>1
  <2>3. IsRows(g, DOMAIN CabinOrder, S, next, cap)
    BY ONLY <2>2
  <2> QED BY ONLY <1>1, <2>3
<1> HIDE DEF g
<1>5. /\ \A i \in 1 .. n : g[i] \in Nat /\ next <= g[i]
      /\ \A i, j \in 1 .. n : i < j => g[i] + Width(S, cap, i) <= g[j]
  BY <1>4, RowsFacts
<1>6. Fresh(S) \subseteq 1 .. n
  BY <1>1 DEF Fresh
<1>7. ASSUME NEW i \in Fresh(S), NEW s \in B(i)
      PROVE  /\ s \in Seat /\ s.class = CabinOrder[i] /\ RowOf(s) \in Nat
             /\ next <= RowOf(s) /\ g[i] <= RowOf(s) /\ RowOf(s) < g[i] + Width(S, cap, i)
  <2>1. i \in 1 .. n /\ CabinOrder[i] \in Classes /\ cap[CabinOrder[i]] \in Nat /\ g[i] \in Nat
    BY <1>1, <1>5, <1>6
  <2>2. /\ s \in Seat /\ s.class = CabinOrder[i] /\ RowOf(s) \in Nat
        /\ g[i] <= RowOf(s) /\ RowOf(s) < g[i] + RowsFor(cap[CabinOrder[i]])
    BY <2>1, BlockFacts
  <2>3. next <= RowOf(s)
    BY <1>5, <2>1, <2>2
  <2> QED BY <2>2, <2>3 DEF Width
<1>8. \A s \in N : SeatsOf(S, s.class) = {} /\ next <= RowOf(s) /\ s \in Seat /\ RowOf(s) > 0
  <2> SUFFICES ASSUME NEW i \in Fresh(S), NEW s \in B(i)
               PROVE  SeatsOf(S, s.class) = {} /\ next <= RowOf(s) /\ s \in Seat /\ RowOf(s) > 0
    BY <1>3
  <2> QED BY <1>7 DEF Fresh
<1>9. IsCabin(N)
  <2> DEFINE b == [i \in Fresh(S) |-> B(i)]
             X == {b[i] : i \in Fresh(S)}
  <2>1. IsFiniteSet(Fresh(S))
    <3>1. IsFiniteSet(1 .. n)
      BY ONLY n \in Nat, FS_Interval
    <3> QED BY ONLY <1>6, <3>1, FS_Subset
  <2>2. N = UNION X /\ b = [i \in Fresh(S) |-> b[i]]
    BY <1>3
  <2>3. \A i \in Fresh(S) : IsFiniteSet(B(i))
    <3> TAKE i \in Fresh(S)
    <3>1. CabinOrder[i] \in Classes /\ cap[CabinOrder[i]] \in Nat /\ g[i] * Columns \in Nat
      <4>1. i \in 1 .. n /\ g[i] \in Nat /\ Columns \in Nat
        BY <1>5, <1>6, InventoryAssumption
      <4>2. g[i] * Columns \in Nat
        BY <4>1
      <4> QED BY <1>1, <4>1, <4>2
    <3> QED BY <3>1, SpanFacts
  <2>4. \A x \in X : IsFiniteSet(x)
    BY <2>3
  <2>5. IsFiniteSet(X)
    <3> HIDE DEF b
    <3> QED BY <2>1, <2>2, ImageIsFinite
  <2> HIDE DEF X, b
  <2>6. IsFiniteSet(N)
    BY <2>2, <2>4, <2>5, FS_UNION
  <2> QED BY <1>8, <2>6 DEF IsCabin
<1>10. N \cap S = {}
  BY <1>8 DEF SeatsOf
<1>11. ASSUME NEW c \in Classes, SeatsOf(S, c) = {}
       PROVE  Cardinality(SeatsOf(N, c)) = cap[c]
  <2>1. PICK i \in 1 .. n : CabinOrder[i] = c
    BY <1>2
  <2>2. i \in Fresh(S)
    BY <1>1, <1>11, <2>1 DEF Fresh
  <2>3. SeatsOf(N, c) = B(i)
    <3>1. B(i) \subseteq SeatsOf(N, c)
      BY <1>3, <1>7, <2>1, <2>2 DEF SeatsOf
    <3>2. ASSUME NEW j \in Fresh(S), NEW s \in B(j), s.class = c
          PROVE  s \in B(i)
      <4>1. CabinOrder[j] = c /\ j \in 1 .. n
        BY <1>6, <1>7, <3>2
      <4>2. i = j
        BY <1>2, <2>1, <4>1
      <4> QED BY <3>2, <4>2
    <3> QED BY <1>3, <3>1, <3>2 DEF SeatsOf
  <2>4. g[i] * Columns \in Nat
    <3>1. g[i] \in Nat /\ Columns \in Nat
      BY <1>5, InventoryAssumption
    <3> QED BY <3>1
  <2> QED BY <2>1, <2>3, <2>4, SpanFacts
<1>12. OneClassPerRow(N)
  <2> SUFFICES ASSUME NEW i \in Fresh(S), NEW s \in B(i), NEW j \in Fresh(S), NEW t \in B(j),
                      RowOf(s) = RowOf(t)
               PROVE  s.class = t.class
    BY <1>3 DEF OneClassPerRow
  <2>1. /\ s.class = CabinOrder[i] /\ t.class = CabinOrder[j] /\ RowOf(s) \in Nat
        /\ g[i] <= RowOf(s) /\ RowOf(s) < g[i] + Width(S, cap, i)
        /\ g[j] <= RowOf(s) /\ RowOf(s) < g[j] + Width(S, cap, j)
    BY <1>7
  <2>2. g[i] \in Nat /\ g[j] \in Nat /\ i \in 1 .. n /\ j \in 1 .. n
    BY <1>5, <1>6
  <2>3. Width(S, cap, i) \in Nat /\ Width(S, cap, j) \in Nat
    BY <1>4, <2>2, RowsFacts
  <2>4. ~(i < j)
    <3>1. i < j => g[i] + Width(S, cap, i) <= g[j]
      BY <1>5, <2>2
    <3> QED BY <2>1, <2>2, <2>3, <3>1
  <2>5. ~(j < i)
    <3>1. j < i => g[j] + Width(S, cap, j) <= g[i]
      BY <1>5, <2>2
    <3> QED BY <2>1, <2>2, <2>3, <3>1
  <2>6. i = j
    BY <2>2, <2>4, <2>5
  <2> QED BY <2>1, <2>6
<1> QED BY <1>8, <1>9, <1>10, <1>11, <1>12

-----------------------------------------------------------------------------
(* The inductive invariant.                                                *)

Statuses == {"none", "pending", "reserved", "cancelled"}

HoldRow == [status : Statuses, class : Classes \cup {None}, seats : SUBSET Seat,
            overdue : BOOLEAN, paying : BOOLEAN]

Transaction ==
    [op : {"none", "generate", "edit", "admin", "recount"},
     pc : {"none", "insert", "classes", "update", "save", "class", "flags"},
     class : Classes \cup {None}, want : [Classes -> 0 .. MaxCapacity],
     derived : [Classes -> Int], row : Nat, added : SUBSET Seat, removed : SUBSET Seat,
     refs : SUBSET Refs, classes : SUBSET Classes]

Shape ==
    /\ capacity \in [Classes -> 0 .. MaxCapacity]
    /\ available \in [Classes -> Nat] /\ \A c \in Classes : available[c] <= capacity[c]
    /\ lock \in [Classes \cup {Flight} -> Managers \cup {None}]
    /\ hold \in [Refs -> HoldRow]
    /\ txn \in [Managers -> Transaction]

Cabin == IsCabin(seats) /\ free \subseteq seats

\* A reservation is linked to seats of its class as long as it is active, and no
\* seat to two reservations.
Holds ==
    /\ \A r \in Refs :
         IF IsActive(r)
         THEN /\ hold[r].class \in Classes /\ hold[r].seats # {}
              /\ hold[r].seats \subseteq SeatsOf(seats, hold[r].class)
         ELSE hold[r].seats = {}
    /\ \A r \in Refs : hold[r].paying => hold[r].status = "pending"
    /\ \A r, q \in Refs : r # q => hold[r].seats \cap hold[q].seats = {}

\* Where each transaction is, and the locks it holds there.
Phase(m) ==
    LET t == txn[m] IN
    \/ t.op = "none" /\ t.pc = "none"
    \/ t.op = "generate" /\ t.pc = "insert" /\ "generate" \in Ops /\ lock[Flight] = m /\ t.row > 0
    \/ t.op = "edit" /\ t.pc \in {"classes", "save"} /\ lock[Flight] = m
    \/ t.op = "admin" /\ t.pc \in {"update", "save"} /\ "admin" \in Ops
    \/ t.op = "recount" /\ t.pc \in {"class", "flags"} /\ "recount" \in Ops

\* What the admin's form derived before it had a lock fits the capacity it writes.
AdminHas(m) ==
    LET t == txn[m] IN
    t.op = "admin" =>
      t.class \in Classes /\ t.classes = {t.class} /\ t.derived[t.class] \in 0 .. t.want[t.class]

\* What is about to be saved concerns classes that are locked, and nobody's seat.
Saved(m, c) ==
    LET t == txn[m] IN
    /\ lock[c] = m /\ t.derived[c] \in 0 .. t.want[c]
    /\ SeatsOf(t.removed, c) \cap SeatsOf(Linked, c) = {}
    /\ SeatsOf(t.added, c) \cap SeatsOf(seats, c) = {}

SaveHas(m) ==
    LET t == txn[m] IN
    t.pc = "save" =>
      /\ IsCabin(t.added) /\ \A s \in t.added \cup t.removed : s.class \in t.classes
      /\ \A c \in t.classes : Saved(m, c)

FlagsHas(m) ==
    LET t == txn[m] IN
    t.pc = "flags" =>
      t.class \in Classes /\ lock[t.class] = m /\ t.derived[t.class] \in 0 .. capacity[t.class]

Steps == \A m \in Managers : Phase(m) /\ AdminHas(m) /\ SaveHas(m) /\ FlagsHas(m)

CabinInv == Shape /\ Cabin /\ Holds /\ Steps


-----------------------------------------------------------------------------
(* What a step leaves alone.                                               *)

Kept(c) ==
    /\ capacity'[c] = capacity[c] /\ available'[c] = available[c]
    /\ SeatsOf(seats', c) = SeatsOf(seats, c) /\ SeatsOf(free', c) = SeatsOf(free, c)
    /\ SeatsOf(Linked', c) = SeatsOf(Linked, c)

\* A step of others: it keeps the transaction, its locks and what they protect.
Foreign(m) ==
    /\ txn'[m] = txn[m]
    /\ \A row \in Classes \cup {Flight} : lock[row] = m => lock'[row] = m
    /\ \A c \in Classes : lock[c] = m => Kept(c)
    /\ "admin" \notin Ops /\ lock[Flight] = m => UNCHANGED <<capacity, seats>>

\* A foreign step leaves what a transaction has decided true.
LEMMA ForeignSteps ==
    ASSUME CabinInv, NEW m \in Managers, Foreign(m)
    PROVE  Phase(m)' /\ AdminHas(m)' /\ SaveHas(m)' /\ FlagsHas(m)'
<1> PICK t \in Transaction : t = txn[m] /\ t = txn'[m]
  BY DEF CabinInv, Shape, Foreign
<1>1. Phase(m) /\ AdminHas(m) /\ SaveHas(m) /\ FlagsHas(m)
  BY DEF CabinInv, Steps
<1>2. Phase(m)'
  BY <1>1 DEF Phase, Foreign
<1>3. AdminHas(m)'
  BY <1>1 DEF AdminHas
<1>4. SaveHas(m)'
  <2> SUFFICES ASSUME t.pc = "save", NEW c \in t.classes PROVE Saved(m, c)'
    BY <1>1 DEF SaveHas
  <2>1. Saved(m, c) /\ c \in Classes
    BY <1>1 DEF SaveHas, Transaction
  <2>2. lock'[c] = m /\ Kept(c)
    BY <2>1 DEF Saved, Foreign
  <2> QED BY <2>1, <2>2 DEF Saved, Kept
<1>5. FlagsHas(m)'
  BY <1>1 DEF FlagsHas, Foreign, Kept
<1> QED BY <1>2, <1>3, <1>4, <1>5

\* The transaction of m goes on with next; the others are where they were.
Moves(m, next) ==
    /\ txn' \in [Managers -> Transaction] /\ txn'[m] = next
    /\ \A k \in Managers \ {m} : txn'[k] = txn[k]

\* An update of one entry of txn.
LEMMA MovesTo ==
    ASSUME Shape, NEW m \in Managers, NEW next \in Transaction, txn' = [txn EXCEPT ![m] = next]
    PROVE  Moves(m, next)
BY DEF Shape, Moves

\* A manager without a transaction has the right type.
LEMMA NoTxnShape == NoTxn \in Transaction
BY InventoryAssumption DEF NoTxn, Transaction

\* A lock that is taken was nobody's, and the others stay.
LEMMA LockingFacts ==
    ASSUME Shape, NEW m \in Managers, NEW row \in Classes \cup {Flight}, NEW next \in Transaction,
           Locking(m, row, next)
    PROVE  /\ Moves(m, next) /\ lock' \in [Classes \cup {Flight} -> Managers \cup {None}]
           /\ lock[row] = None /\ lock'[row] = m
           /\ \A o \in Classes \cup {Flight} : o # row => lock'[o] = lock[o]
<1>1. Moves(m, next)
  BY MovesTo DEF Locking
<1> QED BY <1>1 DEF Locking, Shape

\* A transaction that ends gives back its own locks only.
LEMMA EndTxnFacts ==
    ASSUME Shape, NEW m \in Managers, EndTxn(m)
    PROVE  /\ Moves(m, NoTxn) /\ lock' \in [Classes \cup {Flight} -> Managers \cup {None}]
           /\ \A o \in Classes \cup {Flight} : lock[o] # m => lock'[o] = lock[o]
<1>1. Moves(m, NoTxn)
  BY NoTxnShape, MovesTo DEF EndTxn
<1> QED BY <1>1 DEF EndTxn, Shape

\* A manager that has nothing to save or to flag.
LEMMA IdleSteps ==
    ASSUME NEW m \in Managers, txn'[m] = NoTxn
    PROVE  Phase(m)' /\ AdminHas(m)' /\ SaveHas(m)' /\ FlagsHas(m)'
BY DEF NoTxn, Phase, AdminHas, SaveHas, FlagsHas

\* A step of m that changes no row.
LEMMA RowsKept ==
    ASSUME CabinInv, NEW m \in Managers, UNCHANGED rows, NEW next, Moves(m, next),
           lock' \in [Classes \cup {Flight} -> Managers \cup {None}],
           \A o \in Classes \cup {Flight} : lock[o] \notin {None, m} => lock'[o] = lock[o],
           Phase(m)' /\ AdminHas(m)' /\ SaveHas(m)' /\ FlagsHas(m)'
    PROVE  CabinInv' /\ \A k \in Managers \ {m} : Foreign(k)
<1>1. /\ capacity' = capacity /\ available' = available /\ seats' = seats
      /\ free' = free /\ hold' = hold
  BY DEF rows
<1>2. Linked' = Linked
  BY <1>1 DEF Linked
<1>3. \A c \in Classes : Kept(c)
  BY <1>1, <1>2 DEF Kept
<1>4. \A k \in Managers \ {m} : Foreign(k)
  BY <1>1, <1>3, InventoryAssumption DEF Foreign, Moves
<1>5. Shape'
  BY <1>1 DEF CabinInv, Shape, Moves
<1>6. Cabin' /\ Holds'
  <2>1. \A r \in Refs : IsActive(r)' = IsActive(r)
    BY <1>1 DEF IsActive
  <2> QED BY <1>1, <2>1 DEF CabinInv, Cabin, Holds
<1>7. \A k \in Managers \ {m} : Phase(k)' /\ AdminHas(k)' /\ SaveHas(k)' /\ FlagsHas(k)'
  BY <1>4, ForeignSteps
<1> QED BY <1>4, <1>5, <1>6, <1>7 DEF CabinInv, Steps

-----------------------------------------------------------------------------
(* The steps of a manager that change no row.                              *)

GoesOn(m) == CabinInv' /\ \A k \in Managers \ {m} : Foreign(k)

\* Generation has read the capacities and the last row.
LEMMA GenerateReads ==
    ASSUME CabinInv, NEW m \in Managers, GenerateRead(m)
    PROVE  /\ GoesOn(m)
           /\ txn'[m] = [NoTxn EXCEPT !.op = "generate", !.pc = "insert",
                                      !.want = capacity, !.row = LastRow(seats) + 1]
<1> DEFINE next == [NoTxn EXCEPT !.op = "generate", !.pc = "insert",
                                 !.want = capacity, !.row = LastRow(seats) + 1]
<1> PICK L \in Nat : L = LastRow(seats)
  BY LastRowFacts DEF CabinInv, Cabin
<1>1. next \in Transaction
  <2>1. capacity \in [Classes -> 0 .. MaxCapacity] /\ LastRow(seats) + 1 \in Nat
    BY DEF CabinInv, Shape
  <2> QED BY ONLY <2>1, NoTxnShape DEF Transaction
<1>2. /\ Moves(m, next) /\ lock' \in [Classes \cup {Flight} -> Managers \cup {None}]
      /\ lock'[Flight] = m /\ \A o \in Classes \cup {Flight} : lock[o] # None => lock'[o] = lock[o]
  BY <1>1, LockingFacts DEF GenerateRead, CabinInv
<1>3. Phase(m)' /\ AdminHas(m)' /\ SaveHas(m)' /\ FlagsHas(m)'
  BY <1>2 DEF Moves, Phase, AdminHas, SaveHas, FlagsHas, GenerateRead, NoTxn
<1> QED BY <1>2, <1>3, RowsKept DEF GoesOn, GenerateRead, Moves

\* The form begins with the lock of the flight.
LEMMA EditLocksFlight ==
    ASSUME CabinInv, NEW m \in Managers, NEW want \in [Classes -> 0 .. MaxCapacity],
           EditLockFlight(m, want)
    PROVE  GoesOn(m) /\ txn'[m] = [NoTxn EXCEPT !.op = "edit", !.pc = "classes", !.want = want]
<1> DEFINE next == [NoTxn EXCEPT !.op = "edit", !.pc = "classes", !.want = want]
<1>1. next \in Transaction
  BY NoTxnShape DEF Transaction
<1>2. /\ Moves(m, next) /\ lock' \in [Classes \cup {Flight} -> Managers \cup {None}]
      /\ lock'[Flight] = m /\ \A o \in Classes \cup {Flight} : lock[o] # None => lock'[o] = lock[o]
  BY <1>1, LockingFacts DEF EditLockFlight, CabinInv
<1>3. Phase(m)' /\ AdminHas(m)' /\ SaveHas(m)' /\ FlagsHas(m)'
  BY <1>2 DEF Moves, Phase, AdminHas, SaveHas, FlagsHas, NoTxn
<1> QED BY <1>2, <1>3, RowsKept DEF GoesOn, EditLockFlight, Moves

\* There are as many classes as the order of keys lists.
LEMMA ClassesAreFinite == IsFiniteSet(Classes) /\ Cardinality(Classes) = Len(PkOrder)
<1> PICK n \in Nat : n = Len(PkOrder)
  BY InventoryAssumption, LenProperties
<1> DEFINE P == 1 .. n
<1>1. IsFiniteSet(P)
  BY FS_Interval
<1>2. PkOrder \in [P -> Classes] /\ {PkOrder[i] : i \in P} = Classes
  BY InventoryAssumption, LenProperties DEF Classes
<1>3. PkOrder \in Surjection(P, Classes)
  BY <1>2 DEF Surjection
<1> QED BY <1>1, <1>3, FS_Surjection, InventoryAssumption

\* While a class is to be locked there is a next one.
LEMMA NextToLock ==
    ASSUME NEW m, ToLock(m) # {}
    PROVE  PkOrder[Cardinality(LockedBy(m)) + 1] \in Classes
<1> PICK n \in Nat : n = Len(PkOrder)
  BY InventoryAssumption, LenProperties
<1>1. LockedBy(m) \subseteq Classes /\ LockedBy(m) # Classes
  BY DEF LockedBy, ToLock
<1>2. Cardinality(LockedBy(m)) \in Nat /\ Cardinality(LockedBy(m)) <= n
  BY <1>1, ClassesAreFinite, FS_Subset, FS_CardinalityType
<1>3. Cardinality(LockedBy(m)) # n
  BY <1>1, ClassesAreFinite, FS_Subset
<1>4. Cardinality(LockedBy(m)) + 1 \in 1 .. n
  BY <1>2, <1>3
<1>5. PkOrder \in [1 .. n -> Classes]
  BY InventoryAssumption, LenProperties
<1> QED BY <1>4, <1>5

\* The form locks its classes one after the other.
LEMMA EditLocksClass ==
    ASSUME CabinInv, NEW m \in Managers, EditLockClass(m)
    PROVE  GoesOn(m) /\ txn'[m] = txn[m]
<1> DEFINE row == PkOrder[Cardinality(LockedBy(m)) + 1]
<1>1. row \in Classes
  BY NextToLock DEF EditLockClass
<1>2. txn[m] \in Transaction
  BY DEF CabinInv, Shape
<1>3. Locking(m, row, txn[m])
  BY DEF EditLockClass
<1> HIDE DEF row
<1>4. /\ Moves(m, txn[m]) /\ lock' \in [Classes \cup {Flight} -> Managers \cup {None}]
      /\ \A o \in Classes \cup {Flight} : lock[o] # None => lock'[o] = lock[o]
  BY <1>1, <1>2, <1>3, LockingFacts DEF CabinInv
<1>5. txn'[m].op = "edit" /\ txn'[m].pc = "classes"
  BY <1>4 DEF EditLockClass, Doing, Moves
<1>6. lock[Flight] = m
  BY DEF CabinInv, Steps, Phase, EditLockClass, Doing
<1>7. Phase(m)' /\ AdminHas(m)' /\ SaveHas(m)' /\ FlagsHas(m)'
  BY <1>4, <1>5, <1>6, InventoryAssumption DEF Phase, AdminHas, SaveHas, FlagsHas
<1> QED BY <1>4, <1>7, RowsKept DEF GoesOn, EditLockClass, Moves

\* The admin has read a class.
LEMMA AdminReads ==
    ASSUME CabinInv, NEW m \in Managers, NEW c \in Classes, NEW n \in 0 .. MaxCapacity,
           AdminRead(m, c, n)
    PROVE  /\ GoesOn(m)
           /\ txn'[m].pc = "update" /\ "admin" \in Ops
<1> DEFINE next == [NoTxn EXCEPT !.op = "admin", !.pc = "update", !.class = c, !.classes = {c},
                       !.want[c] = n, !.derived[c] = Derived(n, capacity[c], available[c])]
<1>1. /\ capacity[c] \in Nat /\ available[c] \in Nat /\ available[c] <= capacity[c]
      /\ n \in Nat /\ n >= capacity[c] - available[c]
  BY InventoryAssumption DEF CabinInv, Shape, AdminRead, Booked
<1>2. Derived(n, capacity[c], available[c]) \in 0 .. n
  BY <1>1 DEF Derived, Booked
<1>3. next \in Transaction
  <2>1. NoTxn.want \in [Classes -> 0 .. MaxCapacity] /\ NoTxn.derived \in [Classes -> Int]
    BY NoTxnShape DEF Transaction
  <2>2. [NoTxn.want EXCEPT ![c] = n] \in [Classes -> 0 .. MaxCapacity]
    BY <2>1
  <2>3. [NoTxn.derived EXCEPT ![c] = Derived(n, capacity[c], available[c])] \in [Classes -> Int]
    BY <1>2, <2>1
  <2> QED BY ONLY c \in Classes, <2>2, <2>3, NoTxnShape DEF Transaction
<1>4. next.want[c] = n /\ next.derived[c] = Derived(n, capacity[c], available[c])
      /\ next.op = "admin" /\ next.pc = "update" /\ next.class = c /\ next.classes = {c}
  BY NoTxnShape DEF Transaction
<1>5. Moves(m, next) /\ lock' = lock
  BY <1>3, MovesTo DEF AdminRead, CabinInv
<1> HIDE DEF next
<1>6. Phase(m)' /\ AdminHas(m)' /\ SaveHas(m)' /\ FlagsHas(m)'
  BY <1>2, <1>4, <1>5 DEF Moves, Phase, AdminHas, SaveHas, FlagsHas, AdminRead
<1>7. lock' \in [Classes \cup {Flight} -> Managers \cup {None}]
  BY <1>5 DEF CabinInv, Shape
<1>8. "admin" \in Ops /\ UNCHANGED rows
  BY DEF AdminRead
<1> QED BY <1>4, <1>5, <1>6, <1>7, <1>8, RowsKept DEF GoesOn, Moves

\* The recount begins.
LEMMA RecountBegins ==
    ASSUME CabinInv, NEW m \in Managers, RecountBegin(m)
    PROVE  GoesOn(m) /\ txn'[m].pc = "class"
<1> DEFINE next == [NoTxn EXCEPT !.op = "recount", !.pc = "class", !.classes = Classes,
                       !.refs = {r \in Refs : hold[r].status = "pending" /\ hold[r].overdue}]
<1>1. next \in Transaction
  BY NoTxnShape DEF Transaction
<1>2. Moves(m, next) /\ lock' = lock
  BY <1>1, MovesTo DEF RecountBegin, CabinInv
<1>3. Phase(m)' /\ AdminHas(m)' /\ SaveHas(m)' /\ FlagsHas(m)'
  BY <1>2 DEF Moves, Phase, AdminHas, SaveHas, FlagsHas, RecountBegin, NoTxn
<1>4. lock' \in [Classes \cup {Flight} -> Managers \cup {None}]
  BY <1>2 DEF CabinInv, Shape
<1> QED BY <1>2, <1>3, <1>4, RowsKept DEF GoesOn, RecountBegin, Moves, NoTxn

\* What the seats are when t has been saved.
Becomes(t) == (seats \ t.removed) \cup t.added

FullOrNone(S, c, n) == SeatsOf(S, c) # {} => Cardinality(SeatsOf(S, c)) = n

\* Capacities a form may ask for are numbers.
LEMMA CapacitiesAreNumbers ==
    ASSUME NEW f \in [Classes -> 0 .. MaxCapacity]
    PROVE  f \in [Classes -> Nat] /\ \A c \in Classes : f[c] \in Nat
BY InventoryAssumption

\* A class that could be shrunk is full and loses no seat of a reservation.
LEMMA SyncedIsFull ==
    ASSUME NEW S, NEW c, NEW n, ClassSynced(S, c, n), CanShrink(seats, free, c, n)
    PROVE  FullOrNone(S, c, n) /\ SeatsOf(seats \ S, c) \cap Linked = {}
<1>1. SeatsOf(seats \ S, c) \subseteq ToRemove(seats, free, c, n)
  BY DEF ClassSynced, SeatsOf
<1>2. FullOrNone(S, c, n)
  BY DEF ClassSynced, CanShrink, FullOrNone
<1> QED BY <1>1, <1>2 DEF CanShrink

\* The form has computed counters and seats for every class, or has refused.
LEMMA EditReads ==
    ASSUME CabinInv, NEW m \in Managers, EditRead(m)
    PROVE  /\ GoesOn(m)
           /\ \/ txn'[m] = NoTxn
              \/ /\ txn'[m].pc = "save" /\ lock'[Flight] = m
                 /\ \A c \in Classes :
                       /\ txn'[m].derived[c] = txn'[m].want[c] - (capacity[c] - available[c])
                       /\ FullOrNone(Becomes(txn'[m]), c, txn'[m].want[c])
                 /\ OneClassPerRow(seats) => OneClassPerRow(Becomes(txn'[m]))
<1> PICK t \in Transaction : t = txn[m]
  BY DEF CabinInv, Shape
<1>1. Doing(m, "edit", "classes") /\ ToLock(m) = {} /\ UNCHANGED rows
  BY DEF EditRead
<1>2. CASE EditIsValid(t.want)
  <2>1. \E order \in {PkOrder, CabinOrder} :
           LET after == Resynced(order, t.want) IN
           txn' = [txn EXCEPT ![m] =
             [t EXCEPT !.pc = "save", !.classes = Classes,
                       !.derived = [c \in Classes |-> Derived(t.want[c], capacity[c], available[c])],
                       !.added = after \ seats, !.removed = seats \ after]]
    BY <1>2 DEF EditRead
  <2>2. PICK order \in {PkOrder, CabinOrder} :
           txn' = [txn EXCEPT ![m] =
             [t EXCEPT !.pc = "save", !.classes = Classes,
                       !.derived = [c \in Classes |-> Derived(t.want[c], capacity[c], available[c])],
                       !.added = Resynced(order, t.want) \ seats,
                       !.removed = seats \ Resynced(order, t.want)]]
    BY <2>1
  <2> PICK S : S = Resynced(order, t.want)
    OBVIOUS
  <2> PICK d : d = [c \in Classes |-> Derived(t.want[c], capacity[c], available[c])]
    OBVIOUS
  <2> DEFINE next == [t EXCEPT !.pc = "save", !.classes = Classes, !.derived = d,
                               !.added = S \ seats, !.removed = seats \ S]
  <2>3. txn' = [txn EXCEPT ![m] = next]
    BY <2>2
  <2>4. t.want \in [Classes -> 0 .. MaxCapacity] /\ t.want \in [Classes -> Nat]
    <3>1. t.want \in [Classes -> 0 .. MaxCapacity]
      BY DEF Transaction
    <3> QED BY ONLY <3>1, CapacitiesAreNumbers
  <2>5. /\ IsCabin(S)
        /\ OneClassPerRow(seats) => OneClassPerRow(S)
        /\ \A c \in Classes : ClassSynced(S, c, t.want[c])
    <3>1. IsOrder(order)
      BY Orders
    <3>2. IsCabin(seats) /\ free \subseteq seats
      BY DEF CabinInv, Cabin
    <3> QED BY <2>4, <3>1, <3>2, ResyncedFacts
  <2>6. \A c \in Classes : /\ d[c] = t.want[c] - (capacity[c] - available[c])
                           /\ d[c] \in 0 .. t.want[c]
    <3> TAKE c \in Classes
    <3>1. /\ capacity[c] \in Nat /\ available[c] \in Nat /\ available[c] <= capacity[c]
          /\ t.want[c] \in Nat
      BY <2>4, CapacitiesAreNumbers DEF CabinInv, Shape
    <3>2. t.want[c] >= capacity[c] - available[c]
      BY <1>2 DEF EditIsValid, Booked
    <3>3. d[c] = t.want[c] - (capacity[c] - available[c])
      BY DEF Derived, Booked
    <3> QED BY <3>1, <3>2, <3>3
  <2>7. d \in [Classes -> Int]
    <3>1. \A c \in Classes : d[c] \in Int
      BY <2>4, <2>6
    <3>2. d = [c \in Classes |-> d[c]]
      OBVIOUS
    <3> QED BY <3>1, <3>2
  <2>8. next \in Transaction
    <3>1. S \ seats \in SUBSET Seat /\ seats \ S \in SUBSET Seat
      BY <2>5 DEF IsCabin, CabinInv, Cabin
    <3> QED BY ONLY <2>7, <3>1, t \in Transaction DEF Transaction
  <2>9. /\ next.op = "edit" /\ next.pc = "save" /\ next.classes = Classes /\ next.derived = d
        /\ next.added = S \ seats /\ next.removed = seats \ S /\ next.want = t.want
    BY <1>1 DEF Transaction, Doing
  <2> HIDE DEF next
  <2>10. Moves(m, next) /\ lock' = lock
    BY <1>2, <2>3, <2>8, MovesTo DEF CabinInv, EditRead
  <2>11. txn'[m] = next /\ lock[Flight] = m /\ \A c \in Classes : lock[c] = m
    BY <1>1, <2>10 DEF Moves, CabinInv, Steps, Phase, Doing, ToLock, LockedBy
  <2>12. \A c \in Classes : SeatsOf(seats \ S, c) \cap Linked = {} /\ FullOrNone(S, c, t.want[c])
    BY <1>2, <2>5, SyncedIsFull DEF EditIsValid
  <2>13. Phase(m)' /\ AdminHas(m)' /\ FlagsHas(m)'
    BY <2>9, <2>10, <2>11 DEF Phase, AdminHas, FlagsHas
  <2>14. SaveHas(m)'
    <3>1. IsCabin(S \ seats)
      BY <2>5, FS_Subset DEF IsCabin
    <3>2. \A s \in (S \ seats) \cup (seats \ S) : s.class \in Classes
      BY <2>5 DEF IsCabin, Seat, CabinInv, Cabin
    <3>3. Linked' = Linked /\ seats' = seats
      BY <1>1 DEF rows, Linked
    <3>4. \A c \in Classes : Saved(m, c)'
      BY <2>6, <2>9, <2>10, <2>11, <2>12, <3>3 DEF Saved, SeatsOf
    <3> QED BY <2>9, <2>11, <3>1, <3>2, <3>4 DEF SaveHas, IsCabin, RowOf
  <2>15. lock' \in [Classes \cup {Flight} -> Managers \cup {None}]
    BY <2>10 DEF CabinInv, Shape
  <2>16. Becomes(next) = S
    BY <2>9 DEF Becomes
  <2>17. GoesOn(m)
    BY <1>1, <2>10, <2>13, <2>14, <2>15, RowsKept DEF GoesOn
  <2> QED BY <2>5, <2>6, <2>9, <2>10, <2>11, <2>12, <2>16, <2>17
<1>3. CASE ~EditIsValid(t.want)
  <2>1. EndTxn(m)
    BY <1>3 DEF EditRead
  <2>2. /\ Moves(m, NoTxn) /\ lock' \in [Classes \cup {Flight} -> Managers \cup {None}]
        /\ \A o \in Classes \cup {Flight} : lock[o] # m => lock'[o] = lock[o]
    BY <2>1, EndTxnFacts DEF CabinInv
  <2>3. txn'[m] = NoTxn
    BY <2>2 DEF Moves
  <2> QED BY <1>1, <2>2, <2>3, IdleSteps, RowsKept DEF GoesOn
<1> QED BY <1>2, <1>3

\* The admin has computed seats for the class, or has refused.
LEMMA AdminUpdates ==
    ASSUME CabinInv, NEW m \in Managers, AdminUpdate(m)
    PROVE  /\ GoesOn(m)
           /\ \/ txn'[m] = NoTxn
              \/ /\ txn'[m].pc = "save" /\ "admin" \in Ops
                 /\ \A c \in txn'[m].classes : FullOrNone(Becomes(txn'[m]), c, txn'[m].want[c])
<1> PICK t \in Transaction : t = txn[m]
  BY DEF CabinInv, Shape
<1>1. Doing(m, "admin", "update") /\ Unlocked(t.class) /\ UNCHANGED rows
  BY DEF AdminUpdate
<1> PICK c : c = t.class
  OBVIOUS
<1>2. "admin" \in Ops /\ c \in Classes /\ t.classes = {c} /\ t.derived[c] \in 0 .. t.want[c]
  BY <1>1 DEF Doing, CabinInv, Steps, Phase, AdminHas
<1> PICK n \in Nat : n = t.want[c]
  <2>1. t.want \in [Classes -> 0 .. MaxCapacity]
    BY DEF Transaction
  <2> QED BY <1>2, <2>1, CapacitiesAreNumbers
<1>3. CASE CanShrink(seats, free, c, n)
  <2> PICK A : A = ToAdd(seats, c, n)
    OBVIOUS
  <2> PICK R : R = ToRemove(seats, free, c, n)
    OBVIOUS
  <2> DEFINE next == [t EXCEPT !.pc = "save", !.added = A, !.removed = R]
  <2>1. Locking(m, c, next)
    BY <1>3 DEF AdminUpdate
  <2>2. IsCabin(seats) /\ free \subseteq seats
    BY DEF CabinInv, Cabin
  <2>3. IsCabin(A) /\ A \cap seats = {} /\ \A s \in A : s.class = c
    <3>1. c \in Classes
      BY <1>2
    <3> QED BY ONLY <2>2, <3>1, n \in Nat, A = ToAdd(seats, c, n), ToAddFacts
  <2>4. R \subseteq SeatsOf(seats, c) /\ IsCabin(free)
    <3>1. IsCabin(free)
      BY <2>2, FS_Subset DEF IsCabin
    <3> QED BY <2>2, <3>1, RemoveFacts DEF SeatsOf
  <2>5. next \in Transaction
    <3>1. A \in SUBSET Seat /\ R \in SUBSET Seat
      BY <2>2, <2>3, <2>4 DEF IsCabin, SeatsOf
    <3> QED BY ONLY <3>1, t \in Transaction DEF Transaction
  <2>6. /\ next.op = "admin" /\ next.pc = "save" /\ next.class = c /\ next.classes = {c}
        /\ next.derived = t.derived /\ next.want = t.want /\ next.added = A /\ next.removed = R
    BY <1>1, <1>2 DEF Transaction, Doing
  <2> HIDE DEF next
  <2>7. /\ Moves(m, next) /\ lock' \in [Classes \cup {Flight} -> Managers \cup {None}]
        /\ lock'[c] = m
        /\ \A o \in Classes \cup {Flight} : lock[o] # None => lock'[o] = lock[o]
    BY <1>2, <2>1, <2>5, LockingFacts DEF CabinInv
  <2>8. txn'[m] = next
    BY <2>7 DEF Moves
  <2>9. Phase(m)' /\ AdminHas(m)' /\ FlagsHas(m)'
    BY <1>2, <2>6, <2>8 DEF Phase, AdminHas, FlagsHas
  <2>10. Linked' = Linked /\ seats' = seats
    BY <1>1 DEF rows, Linked
  <2>11. Saved(m, c)'
    <3>1. R \cap Linked = {}
      BY <1>3 DEF CanShrink
    <3> QED BY <1>2, <2>3, <2>6, <2>7, <2>8, <2>10, <3>1 DEF Saved, SeatsOf
  <2>12. SaveHas(m)'
    <3>1. \A s \in A \cup R : s.class = c
      BY <2>3, <2>4 DEF SeatsOf
    <3>2. IsCabin(A)'
      BY <2>3 DEF IsCabin, RowOf
    <3> QED BY <2>6, <2>8, <2>11, <3>1, <3>2 DEF SaveHas
  <2>13. Becomes(next) = Synced(seats, c, n)
    <3>1. Becomes(next) = (seats \ R) \cup A
      BY <2>6 DEF Becomes
    <3>2. Synced(seats, c, n) = (seats \cup A) \ R
      BY DEF Synced
    <3>3. A \cap R = {}
      BY <2>3, <2>4 DEF SeatsOf
    <3> QED BY ONLY <3>1, <3>2, <3>3
  <2>14. FullOrNone(Becomes(next), c, n)
    <3>1. ClassSynced(Synced(seats, c, n), c, n)
      BY <1>2, <2>2, SyncedFacts
    <3> QED BY <1>3, <2>13, <3>1, SyncedIsFull
  <2>15. GoesOn(m)
    BY <1>1, <2>7, <2>9, <2>12, RowsKept DEF GoesOn
  <2> QED BY <1>2, <2>6, <2>8, <2>14, <2>15
<1>4. CASE ~CanShrink(seats, free, c, n)
  <2>1. EndTxn(m)
    BY <1>4 DEF AdminUpdate
  <2>2. /\ Moves(m, NoTxn) /\ lock' \in [Classes \cup {Flight} -> Managers \cup {None}]
        /\ \A o \in Classes \cup {Flight} : lock[o] # m => lock'[o] = lock[o]
    BY <2>1, EndTxnFacts DEF CabinInv
  <2>3. txn'[m] = NoTxn
    BY <2>2 DEF Moves
  <2> QED BY <1>1, <2>2, <2>3, IdleSteps, RowsKept DEF GoesOn
<1> QED BY <1>3, <1>4

\* The seats that a class's reservations hold are finitely many.
LEMMA HeldSeatsFacts ==
    ASSUME CabinInv, NEW c \in Classes
    PROVE  /\ HeldSeats(c) \subseteq SeatsOf(Linked, c) /\ SeatsOf(Linked, c) \subseteq SeatsOf(seats, c)
           /\ IsFiniteSet(SeatsOf(Linked, c)) /\ IsFiniteSet(HeldSeats(c))
           /\ Cardinality(HeldSeats(c)) \in Nat /\ Cardinality(SeatsOf(Linked, c)) \in Nat
<1>1. \A r \in Refs : hold[r].seats # {} =>
         IsActive(r) /\ hold[r].class \in Classes /\ hold[r].seats \subseteq SeatsOf(seats, hold[r].class)
  BY DEF CabinInv, Holds
<1>2. SeatsOf(Linked, c) \subseteq SeatsOf(seats, c)
  BY <1>1 DEF SeatsOf, Linked
<1>3. HeldSeats(c) \subseteq SeatsOf(Linked, c)
  BY <1>1 DEF HeldSeats, Holding, SeatsOf, Linked
<1>4. IsFiniteSet(SeatsOf(seats, c))
  BY SeatsOfFacts DEF CabinInv, Cabin, IsCabin
<1>5. IsFiniteSet(SeatsOf(Linked, c)) /\ IsFiniteSet(HeldSeats(c))
  BY <1>2, <1>3, <1>4, FS_Subset
<1> QED BY <1>2, <1>3, <1>5, FS_CardinalityType

\* The larger of zero and n.
LEMMA MaxOfZero ==
    ASSUME NEW n \in Int
    PROVE  Max({0, n}) = IF n < 0 THEN 0 ELSE n
<1> DEFINE v == IF n < 0 THEN 0 ELSE n
<1>1. v \in {0, n} /\ \A y \in {0, n} : v >= y
  OBVIOUS
<1>2. \A x \in {0, n} : (\A y \in {0, n} : x >= y) => x = v
  OBVIOUS
<1>3. Max({0, n}) \in {0, n} /\ \A y \in {0, n} : Max({0, n}) >= y
  BY <1>1 DEF Max
<1> QED BY <1>2, <1>3

\* The recount has counted the seats of a class that are held.
LEMMA RecountSums ==
    ASSUME CabinInv, NEW m \in Managers, RecountSum(m)
    PROVE  /\ GoesOn(m) /\ txn'[m].pc = "flags" /\ txn'[m].class \in Classes
           /\ txn'[m].derived[txn'[m].class] =
                 Max({0, capacity[txn'[m].class] - Cardinality(HeldSeats(txn'[m].class))})
<1> PICK t \in Transaction : t = txn[m]
  BY DEF CabinInv, Shape
<1>1. Doing(m, "recount", "class") /\ UNCHANGED rows
  BY DEF RecountSum
<1>2. PICK c \in t.classes :
         Locking(m, c, [t EXCEPT !.pc = "flags", !.class = c, !.classes = @ \ {c},
                                 !.derived[c] = Max({0, capacity[c] - Cardinality(HeldSeats(c))})])
  BY DEF RecountSum
<1>3. c \in Classes
  BY DEF Transaction
<1> PICK have \in Nat : have = Cardinality(HeldSeats(c))
  BY <1>3, HeldSeatsFacts
<1> PICK d : d = Max({0, capacity[c] - have})
  OBVIOUS
<1>4. d \in 0 .. capacity[c]
  <2>1. capacity[c] \in Nat
    BY <1>3, CapacitiesAreNumbers DEF CabinInv, Shape
  <2>2. d = IF capacity[c] - have < 0 THEN 0 ELSE capacity[c] - have
    BY <2>1, MaxOfZero
  <2> QED BY <2>1, <2>2
<1> DEFINE next == [t EXCEPT !.pc = "flags", !.class = c, !.classes = @ \ {c}, !.derived[c] = d]
<1>5. Locking(m, c, next)
  BY <1>2
<1>6. next \in Transaction
  <2>1. [t.derived EXCEPT ![c] = d] \in [Classes -> Int]
    BY <1>4 DEF Transaction
  <2> QED BY <1>3, <2>1 DEF Transaction
<1>7. next.op = "recount" /\ next.pc = "flags" /\ next.class = c /\ next.derived[c] = d
  BY <1>1, <1>3 DEF Transaction, Doing
<1> HIDE DEF next
<1>8. /\ Moves(m, next) /\ lock' \in [Classes \cup {Flight} -> Managers \cup {None}]
      /\ lock'[c] = m
      /\ \A o \in Classes \cup {Flight} : lock[o] # None => lock'[o] = lock[o]
  BY <1>3, <1>5, <1>6, LockingFacts DEF CabinInv
<1>9. txn'[m] = next /\ "recount" \in Ops
  BY <1>1, <1>8 DEF Moves, CabinInv, Steps, Phase, Doing
<1>10. capacity' = capacity
  BY <1>1 DEF rows
<1>11. Phase(m)' /\ AdminHas(m)' /\ SaveHas(m)' /\ FlagsHas(m)'
  BY <1>3, <1>4, <1>7, <1>8, <1>9, <1>10 DEF Phase, AdminHas, SaveHas, FlagsHas
<1>12. GoesOn(m)
  BY <1>1, <1>8, <1>11, RowsKept DEF GoesOn
<1> QED BY <1>3, <1>7, <1>9, <1>12

-----------------------------------------------------------------------------
(* The steps that change rows.                                             *)

RowsOK ==
    /\ capacity \in [Classes -> 0 .. MaxCapacity]
    /\ available \in [Classes -> Nat] /\ \A c \in Classes : available[c] <= capacity[c]
    /\ hold \in [Refs -> HoldRow]
    /\ Cabin /\ Holds

\* The rows by themselves are in order.
LEMMA RowsAreOK == CabinInv => RowsOK
BY DEF CabinInv, Shape, RowsOK

\* A step of a manager that is foreign to the others.
LEMMA StepOfAManager ==
    ASSUME CabinInv, RowsOK', NEW m \in Managers, NEW next, Moves(m, next),
           lock' \in [Classes \cup {Flight} -> Managers \cup {None}],
           \A k \in Managers \ {m} : Foreign(k),
           Phase(m)' /\ AdminHas(m)' /\ SaveHas(m)' /\ FlagsHas(m)'
    PROVE  GoesOn(m)
<1>1. \A k \in Managers \ {m} : Phase(k)' /\ AdminHas(k)' /\ SaveHas(k)' /\ FlagsHas(k)'
  BY ForeignSteps
<1>2. Steps'
  BY <1>1 DEF Steps
<1> QED BY <1>2 DEF GoesOn, CabinInv, Shape, RowsOK, Moves

\* A step of a customer, who only touches classes nobody has locked.
LEMMA StepOfACustomer ==
    ASSUME CabinInv, RowsOK', UNCHANGED <<lock, txn, capacity, seats>>,
           \A c \in Classes : lock[c] # None => Kept(c)
    PROVE  CabinInv' /\ \A k \in Managers : Foreign(k)
<1>1. \A k \in Managers : Foreign(k)
  BY InventoryAssumption DEF Foreign
<1>2. \A k \in Managers : Phase(k)' /\ AdminHas(k)' /\ SaveHas(k)' /\ FlagsHas(k)'
  BY <1>1, ForeignSteps
<1>3. Steps'
  BY <1>2 DEF Steps
<1> QED BY <1>1, <1>3 DEF CabinInv, Shape, RowsOK

\* Seats stay linked when no reservation changes its own.
LEMMA LinkedSame ==
    ASSUME \A r \in Refs : hold'[r].seats = hold[r].seats
    PROVE  Linked' = Linked
BY DEF Linked

\* A booking takes free seats of one class.
LEMMA Books ==
    ASSUME CabinInv, NEW r \in Refs, NEW c \in Classes, NEW S \in SUBSET SeatsOf(free, c), Book(r, c, S)
    PROVE  /\ CabinInv' /\ \A k \in Managers : Foreign(k)
           /\ Linked' = Linked \cup S /\ S \cap Linked = {} /\ IsFiniteSet(S) /\ lock[c] = None
           /\ \A d \in Classes : d # c => Kept(d)
           /\ available'[c] = available[c] - Cardinality(S)
<1>1. /\ hold[r].status = "none" /\ Unlocked(c) /\ S # {} /\ S \cap Linked = {}
      /\ Cardinality(S) <= available[c]
      /\ hold' = [hold EXCEPT ![r] = [NoHold EXCEPT !.status = "pending", !.class = c, !.seats = S]]
      /\ available' = [available EXCEPT ![c] = @ - Cardinality(S)]
      /\ free' = free \ S
      /\ UNCHANGED <<capacity, seats, lock, txn>>
  BY DEF Book
<1>2. RowsOK
  BY RowsAreOK
<1>3. IsCabin(seats) /\ free \subseteq seats
  BY <1>2 DEF RowsOK, Cabin
<1>4. S \subseteq SeatsOf(seats, c) /\ S \subseteq seats /\ S \subseteq Seat
  BY <1>3 DEF SeatsOf, IsCabin
<1>5. IsFiniteSet(S) /\ Cardinality(S) \in Nat
  BY <1>3, <1>4, FS_Subset, FS_CardinalityType DEF IsCabin
<1> DEFINE row == [NoHold EXCEPT !.status = "pending", !.class = c, !.seats = S]
<1>6. /\ row \in HoldRow /\ row.status = "pending" /\ row.class = c /\ row.seats = S /\ row.paying = FALSE
  BY <1>4 DEF NoHold, HoldRow, Statuses
<1>7. hold' = [hold EXCEPT ![r] = row]
  BY <1>1
<1> HIDE DEF row
<1>8. hold \in [Refs -> HoldRow] /\ hold' \in [Refs -> HoldRow]
  BY <1>2, <1>6, <1>7 DEF RowsOK
<1>9. hold'[r] = row /\ \A q \in Refs \ {r} : hold'[q] = hold[q]
  BY <1>7, <1>8
<1>10. hold[r].seats = {}
  BY <1>1, <1>2 DEF RowsOK, Holds, IsActive
<1>11. Linked' = Linked \cup S
  BY <1>6, <1>9, <1>10 DEF Linked
<1>12. Holds'
  <2>1. \A q \in Refs \ {r} : hold[q].seats \subseteq Linked
    BY DEF Linked
  <2>2. \A q \in Refs : IF IsActive(q)'
                        THEN /\ hold'[q].class \in Classes /\ hold'[q].seats # {}
                             /\ hold'[q].seats \subseteq SeatsOf(seats', hold'[q].class)
                        ELSE hold'[q].seats = {}
    BY <1>1, <1>2, <1>4, <1>6, <1>9 DEF RowsOK, Holds, IsActive
  <2>3. \A q \in Refs : hold'[q].paying => hold'[q].status = "pending"
    BY <1>2, <1>6, <1>9 DEF RowsOK, Holds
  <2>4. \A p, q \in Refs : p # q => hold'[p].seats \cap hold'[q].seats = {}
    BY <1>1, <1>2, <1>6, <1>9, <2>1 DEF RowsOK, Holds
  <2> QED BY <2>2, <2>3, <2>4 DEF Holds
<1>13. available' \in [Classes -> Nat] /\ \A d \in Classes : available'[d] <= capacity'[d]
  <2>1. available[c] \in Nat /\ available[c] - Cardinality(S) \in Nat
    BY <1>1, <1>2, <1>5 DEF RowsOK
  <2>2. available' \in [Classes -> Nat]
    BY <1>1, <1>2, <2>1 DEF RowsOK
  <2>3. capacity[c] \in Nat
    BY <1>2, CapacitiesAreNumbers DEF RowsOK
  <2> QED BY <1>1, <1>2, <1>5, <2>1, <2>2, <2>3 DEF RowsOK
<1>14. RowsOK'
  BY <1>1, <1>2, <1>8, <1>12, <1>13 DEF RowsOK, Cabin, IsCabin, RowOf
<1>15. \A d \in Classes : d # c => Kept(d)
  BY <1>1, <1>2, <1>4, <1>11 DEF Kept, SeatsOf, RowsOK
<1>16. available'[c] = available[c] - Cardinality(S)
  BY <1>1, <1>2 DEF RowsOK
<1>17. CabinInv' /\ \A k \in Managers : Foreign(k)
  BY <1>1, <1>14, <1>15, StepOfACustomer DEF Unlocked
<1> QED BY <1>1, <1>5, <1>11, <1>15, <1>16, <1>17 DEF Unlocked

\* A step of a payment or of time: no seat changes hands.
HoldGoesOn(r) ==
    /\ hold' \in [Refs -> HoldRow] /\ \A q \in Refs \ {r} : hold'[q] = hold[q]
    /\ IsActive(r) /\ IsActive(r)'
    /\ hold'[r].seats = hold[r].seats /\ hold'[r].class = hold[r].class
    /\ hold[r].overdue => hold'[r].overdue
    /\ hold'[r].paying => hold'[r].status = "pending"

\* Paying and running out of time touch no seat.
LEMMA HoldsGoOn ==
    ASSUME CabinInv, NEW r \in Refs, BeginPay(r) \/ FinishPay(r) \/ Lapse(r)
    PROVE  /\ CabinInv' /\ (\A k \in Managers : Foreign(k)) /\ HoldGoesOn(r)
           /\ UNCHANGED <<capacity, available, seats, free, lock, txn>> /\ Linked' = Linked
<1>1. RowsOK /\ UNCHANGED <<capacity, available, seats, free, lock, txn>>
  BY RowsAreOK DEF BeginPay, FinishPay, Lapse
<1>2. hold \in [Refs -> HoldRow] /\ (hold[r].paying => hold[r].status = "pending")
  BY <1>1 DEF RowsOK, Holds
<1>3. HoldGoesOn(r)
  <2>1. CASE BeginPay(r)
    BY <1>2, <2>1 DEF BeginPay, HoldGoesOn, HoldRow, Statuses, IsActive
  <2>2. CASE FinishPay(r)
    BY <1>2, <2>2 DEF FinishPay, HoldGoesOn, HoldRow, Statuses, IsActive
  <2>3. CASE Lapse(r)
    BY <1>2, <2>3 DEF Lapse, HoldGoesOn, HoldRow, Statuses, IsActive
  <2> QED BY <2>1, <2>2, <2>3
<1>4. \A q \in Refs : /\ hold'[q].seats = hold[q].seats /\ hold'[q].class = hold[q].class
                      /\ IsActive(q)' <=> IsActive(q)
  BY <1>3 DEF HoldGoesOn, IsActive
<1>5. Linked' = Linked
  BY <1>4, LinkedSame
<1>6. Holds'
  <2>1. \A q \in Refs : hold'[q].paying => hold'[q].status = "pending"
    BY <1>1, <1>3 DEF HoldGoesOn, RowsOK, Holds
  <2> QED BY <1>1, <1>4, <2>1 DEF RowsOK, Holds
<1>7. RowsOK'
  BY <1>1, <1>3, <1>6 DEF RowsOK, HoldGoesOn, Cabin, IsCabin, RowOf
<1>8. \A c \in Classes : Kept(c)
  BY <1>1, <1>5 DEF Kept
<1> QED BY <1>1, <1>3, <1>5, <1>7, <1>8, StepOfACustomer

\* A release gives back the seats of one reservation.
LEMMA GivesBack ==
    ASSUME CabinInv, NEW r \in Refs, IsActive(r), ~hold[r].paying,
           CanGiveBack(r), GiveBack(r), UNCHANGED <<capacity, seats>>
    PROVE  /\ RowsOK' /\ hold[r].class \in Classes
           /\ \A d \in Classes : d # hold[r].class => Kept(d)
           /\ hold[r].seats \subseteq SeatsOf(Linked, hold[r].class) /\ IsFiniteSet(hold[r].seats)
           /\ Linked' = Linked \ hold[r].seats
           /\ available'[hold[r].class] = available[hold[r].class] + Cardinality(hold[r].seats)
           /\ free' = free \cup hold[r].seats
           /\ ~IsActive(r)' /\ \A q \in Refs \ {r} : hold'[q] = hold[q]
<1> PICK c : c = hold[r].class
  OBVIOUS
<1> PICK S : S = hold[r].seats
  OBVIOUS
<1>1. RowsOK
  BY RowsAreOK
<1>2. c \in Classes /\ S \subseteq SeatsOf(seats, c) /\ S \subseteq Linked
  BY <1>1 DEF RowsOK, Holds, Linked
<1>3. S \subseteq SeatsOf(Linked, c) /\ S \subseteq seats
  BY <1>2 DEF SeatsOf
<1>4. IsFiniteSet(S) /\ Cardinality(S) \in Nat
  BY <1>1, <1>3, FS_Subset, FS_CardinalityType DEF RowsOK, Cabin, IsCabin
<1>5. /\ available' = [available EXCEPT ![c] = @ + Cardinality(S)]
      /\ free' = free \cup S
      /\ hold' = [hold EXCEPT ![r].status = "cancelled", ![r].seats = {}]
      /\ capacity' = capacity /\ seats' = seats
  BY DEF GiveBack
<1>6. available[c] + Cardinality(S) <= capacity[c]
  BY DEF CanGiveBack
<1>7. hold \in [Refs -> HoldRow]
  BY <1>1 DEF RowsOK
<1>8. /\ hold' \in [Refs -> HoldRow] /\ \A q \in Refs \ {r} : hold'[q] = hold[q]
      /\ hold'[r].status = "cancelled" /\ hold'[r].seats = {} /\ hold'[r].paying = hold[r].paying
  BY <1>5, <1>7 DEF HoldRow, Statuses
<1>9. Linked' = Linked \ S
  <2>1. \A q \in Refs \ {r} : hold[q].seats \cap S = {}
    BY <1>1 DEF RowsOK, Holds
  <2> QED BY <1>8, <2>1 DEF Linked
<1>10. ~IsActive(r)'
  BY <1>8 DEF IsActive
<1>11. Holds'
  BY <1>1, <1>5, <1>8 DEF RowsOK, Holds, IsActive
<1>12. available' \in [Classes -> Nat] /\ available'[c] = available[c] + Cardinality(S)
       /\ \A d \in Classes : d # c => available'[d] = available[d]
  BY <1>1, <1>2, <1>4, <1>5 DEF RowsOK
<1>13. \A d \in Classes : available'[d] <= capacity'[d]
  BY <1>1, <1>5, <1>6, <1>12 DEF RowsOK
<1>14. RowsOK'
  <2>1. free' \subseteq seats'
    BY <1>1, <1>3, <1>5 DEF RowsOK, Cabin
  <2> QED BY <1>1, <1>5, <1>8, <1>11, <1>12, <1>13, <2>1 DEF RowsOK, Cabin, IsCabin, RowOf
<1>15. \A d \in Classes : d # c => Kept(d)
  BY <1>3, <1>5, <1>9, <1>12 DEF Kept, SeatsOf
<1> QED BY <1>2, <1>3, <1>4, <1>5, <1>8, <1>9, <1>10, <1>12, <1>14, <1>15

\* A release keeps the invariant.
LEMMA Releases ==
    ASSUME CabinInv, NEW r \in Refs, Release(r)
    PROVE  CabinInv' /\ \A k \in Managers : Foreign(k)
<1>1. /\ RowsOK' /\ hold[r].class \in Classes
      /\ \A d \in Classes : d # hold[r].class => Kept(d)
  BY GivesBack DEF Release
<1>2. \A d \in Classes : lock[d] # None => Kept(d)
  BY <1>1 DEF Release, Unlocked
<1> QED BY <1>1, <1>2, StepOfACustomer DEF Release

\* So does an edit of the counter by hand.
LEMMA HandEdits ==
    ASSUME CabinInv, NEW c \in Classes, HandEdit(c)
    PROVE  CabinInv' /\ \A k \in Managers : Foreign(k)
<1>1. RowsOK /\ "handEdit" \in Ops /\ Unlocked(c) /\ UNCHANGED <<capacity, seats, hold, lock, txn>>
  BY RowsAreOK DEF HandEdit
<1>2. Linked' = Linked
  BY <1>1, LinkedSame
<1>3. /\ available' \in [Classes -> Nat] /\ \A d \in Classes : available'[d] <= capacity[d]
      /\ free' \subseteq seats
      /\ \A d \in Classes : d # c => /\ available'[d] = available[d]
                                     /\ SeatsOf(free', d) = SeatsOf(free, d)
  <2>1. CASE /\ \E n \in 0 .. capacity[c] : available' = [available EXCEPT ![c] = n]
             /\ UNCHANGED free
    <3>1. capacity[c] \in Nat
      BY <1>1, CapacitiesAreNumbers DEF RowsOK
    <3>2. PICK n \in 0 .. capacity[c] : available' = [available EXCEPT ![c] = n]
      BY <2>1
    <3> QED BY <1>1, <2>1, <3>1, <3>2 DEF RowsOK, Cabin
  <2>2. CASE /\ \E s \in SeatsOf(seats, c) :
                  free' = IF s \in free THEN free \ {s} ELSE free \cup {s}
             /\ UNCHANGED available
    BY <1>1, <2>2 DEF RowsOK, Cabin, SeatsOf
  <2> QED BY <2>1, <2>2 DEF HandEdit
<1>4. RowsOK'
  <2>1. Holds'
    BY <1>1 DEF RowsOK, Holds, IsActive
  <2> QED BY <1>1, <1>3, <2>1 DEF RowsOK, Cabin, IsCabin, RowOf
<1>5. \A d \in Classes : lock[d] # None => Kept(d)
  BY <1>1, <1>2, <1>3 DEF Kept, Unlocked
<1> QED BY <1>1, <1>4, <1>5, StepOfACustomer

\* Generation inserts what it computed from rows that are still as they were.
LEMMA Inserts ==
    ASSUME CabinInv, NEW m \in Managers, GenerateInsert(m),
           NEW N, N = Generated(seats, txn[m].row, txn[m].want)
    PROVE  /\ GoesOn(m) /\ txn'[m] = NoTxn /\ lock[Flight] = m /\ "generate" \in Ops
           /\ UNCHANGED <<capacity, available, hold>> /\ Linked' = Linked
           /\ seats' = seats \cup N /\ free' = free \cup N
           /\ IsCabin(N) /\ N \cap seats = {}
           /\ \A s \in N : SeatsOf(seats, s.class) = {} /\ txn[m].row <= RowOf(s)
           /\ \A c \in Classes : SeatsOf(seats, c) = {} => Cardinality(SeatsOf(N, c)) = txn[m].want[c]
           /\ OneClassPerRow(N)
<1> PICK t \in Transaction : t = txn[m]
  BY DEF CabinInv, Shape
<1>1. /\ Doing(m, "generate", "insert") /\ \A s \in N : Unlocked(s.class)
      /\ seats' = seats \cup N /\ free' = free \cup N /\ EndTxn(m)
      /\ capacity' = capacity /\ available' = available /\ hold' = hold
  BY DEF GenerateInsert
<1>2. lock[Flight] = m /\ t.row \in Nat \ {0} /\ "generate" \in Ops
  BY <1>1 DEF Doing, CabinInv, Steps, Phase, Transaction
<1>3. t.want \in [Classes -> Nat] /\ IsCabin(seats)
  BY CapacitiesAreNumbers DEF CabinInv, Cabin, Transaction
<1>4. /\ IsCabin(N) /\ N \cap seats = {}
      /\ \A s \in N : SeatsOf(seats, s.class) = {} /\ t.row <= RowOf(s)
      /\ \A c \in Classes : SeatsOf(seats, c) = {} => Cardinality(SeatsOf(N, c)) = t.want[c]
      /\ OneClassPerRow(N)
  <2> PICK row \in Nat \ {0} : row = t.row
    BY <1>2
  <2> PICK want \in [Classes -> Nat] : want = t.want
    BY <1>3
  <2>1. N = Generated(seats, row, want)
    OBVIOUS
  <2>2. IsCabin(seats)
    BY <1>3
  <2>3. IsCabin(N) /\ N \cap seats = {}
    BY ONLY <2>1, <2>2, row \in Nat \ {0}, want \in [Classes -> Nat], GeneratedFacts
  <2>4. \A s \in N : SeatsOf(seats, s.class) = {} /\ row <= RowOf(s)
    BY ONLY <2>1, <2>2, row \in Nat \ {0}, want \in [Classes -> Nat], GeneratedFacts
  <2>5. \A c \in Classes : SeatsOf(seats, c) = {} => Cardinality(SeatsOf(N, c)) = want[c]
    BY ONLY <2>1, <2>2, row \in Nat \ {0}, want \in [Classes -> Nat], GeneratedFacts
  <2>6. OneClassPerRow(N)
    BY ONLY <2>1, <2>2, row \in Nat \ {0}, want \in [Classes -> Nat], GeneratedFacts
  <2> QED BY <2>3, <2>4, <2>5, <2>6
<1>5. /\ Moves(m, NoTxn) /\ lock' \in [Classes \cup {Flight} -> Managers \cup {None}]
      /\ \A o \in Classes \cup {Flight} : lock[o] # m => lock'[o] = lock[o]
  BY <1>1, EndTxnFacts DEF CabinInv
<1>6. Linked' = Linked
  BY <1>1 DEF Linked
<1>7. \A c \in Classes : lock[c] # None => Kept(c)
  BY <1>1, <1>6 DEF Kept, SeatsOf, Unlocked
<1>8. ASSUME NEW k \in Managers \ {m}
      PROVE  Foreign(k)
  <2>1. txn'[k] = txn[k] /\ k # None /\ lock[Flight] # k
    BY <1>2, <1>5, InventoryAssumption DEF Moves
  <2>2. \A o \in Classes \cup {Flight} : lock[o] = k => lock'[o] = k
    BY <1>5
  <2>3. \A c \in Classes : lock[c] = k => Kept(c)
    BY <1>7, <2>1
  <2> QED BY <2>1, <2>2, <2>3 DEF Foreign
<1>9. RowsOK'
  <2>1. RowsOK
    BY RowsAreOK
  <2>2. IsCabin(seats') /\ free' \subseteq seats'
    <3>1. IsFiniteSet(seats \cup N)
      BY ONLY <1>3, <1>4, FS_Union DEF IsCabin
    <3> QED BY <1>1, <1>3, <1>4, <2>1, <3>1 DEF IsCabin, RowsOK, Cabin
  <2>3. Holds'
    BY <1>1, <2>1 DEF RowsOK, Holds, IsActive, SeatsOf
  <2> QED BY <1>1, <2>1, <2>2, <2>3 DEF RowsOK, Cabin, IsCabin, RowOf
<1>10. txn'[m] = NoTxn
  BY <1>5 DEF Moves
<1>11. GoesOn(m)
  BY <1>5, <1>8, <1>9, <1>10, IdleSteps, StepOfAManager
<1> QED BY <1>1, <1>2, <1>4, <1>6, <1>10, <1>11

\* A form saves what it computed from rows that are still as they were.
LEMMA Saves ==
    ASSUME CabinInv, NEW m \in Managers, SaveClasses(m)
    PROVE  /\ GoesOn(m) /\ txn'[m] = NoTxn /\ UNCHANGED hold /\ Linked' = Linked
           /\ seats' = Becomes(txn[m]) /\ free' = (free \ txn[m].removed) \cup txn[m].added
           /\ txn[m].pc = "save" /\ txn[m].classes \subseteq Classes
           /\ "admin" \notin Ops => lock[Flight] = m
           /\ \A c \in txn[m].classes : /\ lock[c] = m
                                        /\ capacity'[c] = txn[m].want[c]
                                        /\ available'[c] = txn[m].derived[c]
           /\ \A c \in Classes \ txn[m].classes : Kept(c)
<1> PICK t \in Transaction : t = txn[m]
  BY DEF CabinInv, Shape
<1>1. /\ t.pc = "save" /\ EndTxn(m) /\ hold' = hold
      /\ capacity' = [c \in Classes |-> IF c \in t.classes THEN t.want[c] ELSE capacity[c]]
      /\ available' = [c \in Classes |-> IF c \in t.classes THEN t.derived[c] ELSE available[c]]
      /\ seats' = (seats \ t.removed) \cup t.added
      /\ free' = (free \ t.removed) \cup t.added
  BY DEF SaveClasses
<1>2. RowsOK
  BY RowsAreOK
<1>3. /\ IsCabin(t.added) /\ \A s \in t.added \cup t.removed : s.class \in t.classes
      /\ \A c \in t.classes : Saved(m, c)
      /\ t.classes \subseteq Classes
  BY <1>1 DEF CabinInv, Steps, SaveHas, Transaction
<1>4. "admin" \notin Ops => lock[Flight] = m
  BY <1>1 DEF CabinInv, Steps, Phase
<1>5. /\ Moves(m, NoTxn) /\ lock' \in [Classes \cup {Flight} -> Managers \cup {None}]
      /\ \A o \in Classes \cup {Flight} : lock[o] # m => lock'[o] = lock[o]
  BY <1>1, EndTxnFacts DEF CabinInv
<1>6. Linked' = Linked
  BY <1>1 DEF Linked
<1>7. /\ \A c \in t.classes : /\ lock[c] = m /\ capacity'[c] = t.want[c]
                              /\ available'[c] = t.derived[c] /\ t.derived[c] \in 0 .. t.want[c]
      /\ \A c \in Classes \ t.classes : capacity'[c] = capacity[c] /\ available'[c] = available[c]
  BY <1>1, <1>3 DEF Saved
<1>8. \A c \in Classes \ t.classes : Kept(c)
  <2>1. ASSUME NEW c \in Classes \ t.classes
        PROVE  SeatsOf(seats', c) = SeatsOf(seats, c) /\ SeatsOf(free', c) = SeatsOf(free, c)
    BY <1>1, <1>3 DEF SeatsOf
  <2> QED BY <1>6, <1>7, <2>1 DEF Kept
<1>9. ASSUME NEW k \in Managers \ {m}
      PROVE  Foreign(k)
  <2>1. txn'[k] = txn[k]
    BY <1>5 DEF Moves
  <2>2. \A o \in Classes \cup {Flight} : lock[o] = k => lock'[o] = k
    BY <1>5
  <2>3. \A c \in Classes : lock[c] = k => Kept(c)
    BY <1>7, <1>8
  <2> QED BY <1>4, <2>1, <2>2, <2>3 DEF Foreign
<1>10. capacity' \in [Classes -> 0 .. MaxCapacity]
  <2>1. \A c \in t.classes : t.want[c] \in 0 .. MaxCapacity
    BY <1>3 DEF Transaction
  <2> QED BY <1>1, <1>2, <2>1 DEF RowsOK
<1>11. available' \in [Classes -> Nat] /\ \A c \in Classes : available'[c] <= capacity'[c]
  <2>1. \A c \in t.classes : t.derived[c] \in Nat /\ t.derived[c] <= t.want[c]
    <3>1. \A c \in t.classes : t.want[c] \in Nat
      BY <1>3, CapacitiesAreNumbers DEF Transaction
    <3> QED BY <1>7, <3>1
  <2>2. available' \in [Classes -> Nat]
    BY <1>1, <1>2, <2>1 DEF RowsOK
  <2> QED BY <1>2, <1>7, <2>1, <2>2 DEF RowsOK
<1>12. IsCabin(seats') /\ free' \subseteq seats'
  <2>1. IsCabin(seats) /\ free \subseteq seats
    BY <1>2 DEF RowsOK, Cabin
  <2>2. IsFiniteSet(seats \ t.removed) /\ IsFiniteSet(t.added)
    BY <1>3, <2>1, FS_Subset DEF IsCabin
  <2>3. IsFiniteSet((seats \ t.removed) \cup t.added)
    BY ONLY <2>2, FS_Union
  <2> QED BY <1>1, <1>3, <2>1, <2>3 DEF IsCabin
<1>13. Holds'
  <2>1. ASSUME NEW r \in Refs, IsActive(r)
        PROVE  hold[r].seats \subseteq SeatsOf(seats', hold[r].class)
    <3>1. hold[r].seats \subseteq SeatsOf(seats, hold[r].class) /\ hold[r].seats \subseteq Linked
      BY <1>2, <2>1 DEF RowsOK, Holds, Linked
    <3>2. hold[r].seats \cap t.removed = {}
      BY <1>3, <3>1 DEF Saved, SeatsOf
    <3> QED BY <1>1, <3>1, <3>2 DEF SeatsOf
  <2>2. \A r \in Refs : IsActive(r)' = IsActive(r)
    BY <1>1 DEF IsActive
  <2> QED BY <1>1, <1>2, <2>1, <2>2 DEF RowsOK, Holds
<1>14. RowsOK'
  BY <1>1, <1>2, <1>10, <1>11, <1>12, <1>13 DEF RowsOK, Cabin, IsCabin, RowOf
<1>15. txn'[m] = NoTxn
  BY <1>5 DEF Moves
<1>16. GoesOn(m)
  BY <1>5, <1>9, <1>14, <1>15, IdleSteps, StepOfAManager
<1>17. seats' = Becomes(t)
  BY <1>1 DEF Becomes
<1> QED BY <1>1, <1>3, <1>4, <1>6, <1>7, <1>8, <1>15, <1>16, <1>17

\* The recount writes the counter it has computed and flags the same class.
LEMMA Flags ==
    ASSUME CabinInv, NEW m \in Managers, RecountFlags(m), NEW c, c = txn[m].class
    PROVE  /\ GoesOn(m) /\ txn[m].pc = "flags" /\ c \in Classes /\ lock[c] = m /\ "recount" \in Ops
           /\ txn'[m].pc \in {"none", "class"} /\ UNCHANGED <<capacity, seats, hold>>
           /\ Linked' = Linked
           /\ available'[c] = txn[m].derived[c]
           /\ SeatsOf(free', c) = SeatsOf(seats, c) \ HeldSeats(c)
           /\ \A d \in Classes : d # c => Kept(d)
<1> PICK t \in Transaction : t = txn[m]
  BY DEF CabinInv, Shape
<1>1. /\ t.op = "recount" /\ t.pc = "flags"
      /\ available' = [available EXCEPT ![c] = t.derived[c]]
      /\ free' = (free \ SeatsOf(seats, c)) \cup (SeatsOf(seats, c) \ HeldSeats(c))
      /\ lock' = [lock EXCEPT ![c] = None]
      /\ capacity' = capacity /\ seats' = seats /\ hold' = hold
  BY DEF RecountFlags, Doing
<1>2. RowsOK
  BY RowsAreOK
<1>3. c \in Classes /\ lock[c] = m /\ t.derived[c] \in 0 .. capacity[c] /\ "recount" \in Ops
  BY <1>1 DEF CabinInv, Steps, FlagsHas, Phase
<1>4. lock \in [Classes \cup {Flight} -> Managers \cup {None}]
  BY DEF CabinInv, Shape
<1> DEFINE next == IF t.classes = {} THEN NoTxn ELSE [t EXCEPT !.pc = "class", !.class = None]
<1>5. next \in Transaction /\ next.pc \in {"none", "class"}
      /\ (next = NoTxn \/ (next.op = "recount" /\ next.pc = "class"))
  BY <1>1, NoTxnShape DEF Transaction, NoTxn
<1>6. txn' = [txn EXCEPT ![m] = next]
  BY DEF RecountFlags
<1> HIDE DEF next
<1>7. Moves(m, next)
  BY <1>5, <1>6, MovesTo DEF CabinInv
<1>8. lock' \in [Classes \cup {Flight} -> Managers \cup {None}]
      /\ \A o \in Classes \cup {Flight} : lock[o] # m => lock'[o] = lock[o]
  BY <1>1, <1>3, <1>4
<1>9. Linked' = Linked
  BY <1>1 DEF Linked
<1>10. /\ SeatsOf(free', c) = SeatsOf(seats, c) \ HeldSeats(c)
       /\ free' \subseteq seats
       /\ \A d \in Classes : d # c => SeatsOf(free', d) = SeatsOf(free, d)
  BY <1>1, <1>2 DEF SeatsOf, RowsOK, Cabin
<1>11. capacity[c] \in Nat
  BY <1>2, <1>3, CapacitiesAreNumbers DEF RowsOK
<1>12. available' \in [Classes -> Nat] /\ (\A d \in Classes : available'[d] <= capacity[d])
       /\ available'[c] = t.derived[c] /\ \A d \in Classes : d # c => available'[d] = available[d]
  BY <1>1, <1>2, <1>3, <1>11 DEF RowsOK
<1>13. \A d \in Classes : d # c => Kept(d)
  BY <1>1, <1>9, <1>10, <1>12 DEF Kept
<1>14. ASSUME NEW k \in Managers \ {m}
       PROVE  Foreign(k)
  <2>1. txn'[k] = txn[k]
    BY <1>7 DEF Moves
  <2>2. \A o \in Classes \cup {Flight} : lock[o] = k => lock'[o] = k
    BY <1>8
  <2>3. \A d \in Classes : lock[d] = k => Kept(d)
    BY <1>3, <1>13
  <2> QED BY <1>1, <2>1, <2>2, <2>3 DEF Foreign
<1>15. RowsOK'
  <2>1. Holds'
    BY <1>1, <1>2 DEF RowsOK, Holds, IsActive
  <2> QED BY <1>1, <1>2, <1>10, <1>12, <2>1 DEF RowsOK, Cabin, IsCabin, RowOf
<1>16. Phase(m)' /\ AdminHas(m)' /\ SaveHas(m)' /\ FlagsHas(m)'
  <2>1. CASE next = NoTxn
    BY <1>7, <2>1, IdleSteps DEF Moves
  <2>2. CASE next.op = "recount" /\ next.pc = "class"
    BY <1>3, <1>7, <2>2 DEF Moves, Phase, AdminHas, SaveHas, FlagsHas
  <2> QED BY <1>5, <2>1, <2>2
<1>17. GoesOn(m)
  BY <1>7, <1>8, <1>14, <1>15, <1>16, StepOfAManager
<1> QED BY <1>1, <1>3, <1>5, <1>7, <1>9, <1>10, <1>12, <1>13, <1>17 DEF Moves

\* The recount's expiry releases one reservation or none.
LEMMA Expires ==
    ASSUME CabinInv, NEW m \in Managers, RecountExpire(m)
    PROVE  /\ GoesOn(m) /\ txn'[m].pc \in {"none", "class"} /\ "recount" \in Ops
           /\ \/ UNCHANGED rows
              \/ \E r \in Refs : /\ IsActive(r) /\ ~hold[r].paying /\ Unlocked(hold[r].class)
                                 /\ CanGiveBack(r) /\ GiveBack(r) /\ UNCHANGED <<capacity, seats>>
<1> PICK t \in Transaction : t = txn[m]
  BY DEF CabinInv, Shape
<1>1. t.op = "recount" /\ t.pc = "class" /\ lock' = lock
  BY DEF RecountExpire, Doing
<1>2. lock \in [Classes \cup {Flight} -> Managers \cup {None}] /\ "recount" \in Ops
  BY <1>1 DEF CabinInv, Shape, Steps, Phase
<1>3. PICK r \in t.refs :
         /\ ~hold[r].paying
         /\ IF hold[r].status # "pending"
            THEN UNCHANGED rows /\ txn' = [txn EXCEPT ![m].refs = @ \ {r}]
            ELSE /\ Unlocked(hold[r].class)
                 /\ IF CanGiveBack(r)
                    THEN /\ GiveBack(r) /\ UNCHANGED <<capacity, seats>>
                         /\ txn' = [txn EXCEPT ![m].refs = @ \ {r}]
                    ELSE UNCHANGED rows /\ txn' = [txn EXCEPT ![m] = NoTxn]
  BY DEF RecountExpire
<1> DEFINE next == [t EXCEPT !.refs = @ \ {r}]
<1>4. next \in Transaction /\ next.op = "recount" /\ next.pc = "class"
  BY <1>1 DEF Transaction
<1>5. \/ txn' = [txn EXCEPT ![m] = next]
      \/ UNCHANGED rows /\ txn' = [txn EXCEPT ![m] = NoTxn]
  BY <1>3 DEF CabinInv, Shape
<1> HIDE DEF next
<1>6. \/ Moves(m, next)
      \/ UNCHANGED rows /\ Moves(m, NoTxn)
  BY <1>4, <1>5, NoTxnShape, MovesTo DEF CabinInv
<1>7. /\ Phase(m)' /\ AdminHas(m)' /\ SaveHas(m)' /\ FlagsHas(m)'
      /\ txn'[m].pc \in {"none", "class"} /\ \E x : Moves(m, x)
  <2>1. CASE Moves(m, next)
    BY <1>2, <1>4, <2>1 DEF Moves, Phase, AdminHas, SaveHas, FlagsHas
  <2>2. CASE Moves(m, NoTxn)
    <3>1. txn'[m] = NoTxn /\ NoTxn.pc = "none"
      BY <2>2 DEF Moves, NoTxn
    <3> QED BY <2>2, <3>1, IdleSteps
  <2> QED BY <1>6, <2>1, <2>2
<1>8. PICK x : Moves(m, x)
  BY <1>7
<1>9. CASE UNCHANGED rows
  BY <1>1, <1>2, <1>7, <1>8, <1>9, RowsKept DEF GoesOn
<1>10. CASE /\ hold[r].status = "pending" /\ Unlocked(hold[r].class)
            /\ CanGiveBack(r) /\ GiveBack(r) /\ UNCHANGED <<capacity, seats>>
  <2>1. r \in Refs /\ IsActive(r)
    BY <1>10 DEF Transaction, IsActive
  <2>2. RowsOK' /\ \A d \in Classes : d # hold[r].class => Kept(d)
    BY <1>3, <1>10, <2>1, GivesBack
  <2>3. ASSUME NEW k \in Managers \ {m}
        PROVE  Foreign(k)
    <3>1. txn'[k] = txn[k] /\ k # None
      BY <1>8, InventoryAssumption DEF Moves
    <3>2. \A d \in Classes : lock[d] = k => Kept(d)
      BY <1>10, <2>2, <3>1 DEF Unlocked
    <3> QED BY <1>1, <1>10, <3>1, <3>2 DEF Foreign
  <2>4. GoesOn(m)
    BY <1>1, <1>2, <1>7, <1>8, <2>2, <2>3, StepOfAManager
  <2> QED BY <1>2, <1>3, <1>7, <1>10, <2>1, <2>4
<1> QED BY <1>3, <1>9, <1>10

-----------------------------------------------------------------------------
(* CabinInv is an invariant.                                               *)

\* The first cabin is full.
LEMMA FirstCabin ==
    ASSUME Init
    PROVE  /\ IsCabin(seats) /\ OneClassPerRow(seats)
           /\ \A c \in Classes : FullOrNone(seats, c, capacity[c])
<1> PICK cap \in [Classes -> Nat] : cap = InitialCapacity
  BY InventoryAssumption, CapacitiesAreNumbers
<1> PICK N : N = Generated({}, 1, cap)
  OBVIOUS
<1>1. seats = {} \/ seats = N
  BY DEF Init
<1>2. IsCabin({})
  BY FS_EmptySet DEF IsCabin
<1>3. IsCabin(N) /\ OneClassPerRow(N)
  BY ONLY <1>2, cap \in [Classes -> Nat], N = Generated({}, 1, cap), GeneratedFacts
<1>4. \A c \in Classes : SeatsOf({}, c) = {} => Cardinality(SeatsOf(N, c)) = cap[c]
  BY ONLY <1>2, cap \in [Classes -> Nat], N = Generated({}, 1, cap), GeneratedFacts
<1>5. \A c \in Classes : Cardinality(SeatsOf(N, c)) = cap[c]
  BY <1>4 DEF SeatsOf
<1>6. capacity = cap
  BY DEF Init
<1>7. CASE seats = {}
  BY <1>2, <1>7 DEF OneClassPerRow, FullOrNone, SeatsOf
<1>8. CASE seats = N
  BY <1>3, <1>5, <1>6, <1>8 DEF FullOrNone
<1> QED BY <1>1, <1>7, <1>8

\* It is where the invariant begins.
LEMMA InitCabin == Init => CabinInv
<1> SUFFICES ASSUME Init PROVE CabinInv
  OBVIOUS
<1>1. /\ capacity = InitialCapacity /\ available = InitialCapacity /\ free = seats
      /\ hold = [r \in Refs |-> NoHold]
      /\ lock = [row \in Classes \cup {Flight} |-> None]
      /\ txn = [m \in Managers |-> NoTxn]
  BY DEF Init
<1>2. InitialCapacity \in [Classes -> 0 .. MaxCapacity]
  BY InventoryAssumption
<1>3. /\ capacity \in [Classes -> 0 .. MaxCapacity]
      /\ available \in [Classes -> Nat] /\ \A c \in Classes : available[c] <= capacity[c]
  BY <1>1, <1>2, CapacitiesAreNumbers
<1>4. NoHold \in HoldRow /\ NoHold.status = "none" /\ NoHold.seats = {} /\ NoHold.paying = FALSE
  BY DEF NoHold, HoldRow, Statuses
<1>5. Shape
  BY <1>1, <1>3, <1>4, NoTxnShape DEF Shape
<1>6. Cabin /\ Holds
  BY <1>1, <1>4, FirstCabin DEF Cabin, Holds, IsActive
<1>7. Steps
  BY <1>1 DEF Steps, NoTxn, Phase, AdminHas, SaveHas, FlagsHas
<1> QED BY <1>5, <1>6, <1>7 DEF CabinInv

\* Every step of a manager keeps the invariant.
LEMMA ManagersGoOn ==
    ASSUME CabinInv, NEW m \in Managers, Manager(m)
    PROVE  GoesOn(m)
<1>1. CASE GenerateRead(m)
  BY <1>1, GenerateReads
<1>2. CASE GenerateInsert(m)
  BY <1>2, Inserts
<1>3. CASE \E want \in [Classes -> 0 .. MaxCapacity] : EditLockFlight(m, want)
  BY <1>3, EditLocksFlight
<1>4. CASE EditLockClass(m)
  BY <1>4, EditLocksClass
<1>5. CASE EditRead(m)
  BY <1>5, EditReads
<1>6. CASE \E c \in Classes, n \in 0 .. MaxCapacity : AdminRead(m, c, n)
  BY <1>6, AdminReads
<1>7. CASE AdminUpdate(m)
  BY <1>7, AdminUpdates
<1>8. CASE SaveClasses(m)
  BY <1>8, Saves
<1>9. CASE RecountBegin(m)
  BY <1>9, RecountBegins
<1>10. CASE RecountExpire(m)
  BY <1>10, Expires
<1>11. CASE RecountSum(m)
  BY <1>11, RecountSums
<1>12. CASE RecountFlags(m)
  BY <1>12, Flags
<1> QED BY <1>1, <1>2, <1>3, <1>4, <1>5, <1>6, <1>7, <1>8, <1>9, <1>10, <1>11, <1>12 DEF Manager

\* Whoever takes a step, the transactions of the others are left alone.
LEMMA Idles ==
    ASSUME CabinInv, UNCHANGED vars
    PROVE  CabinInv' /\ \A k \in Managers : Foreign(k)
<1>1. /\ capacity' = capacity /\ available' = available /\ seats' = seats /\ free' = free
      /\ hold' = hold /\ lock' = lock /\ txn' = txn
  BY DEF vars, rows
<1>2. Linked' = Linked
  BY <1>1 DEF Linked
<1>3. RowsOK'
  <2>1. Holds'
    BY <1>1 DEF CabinInv, Holds, IsActive
  <2> QED BY <1>1, <2>1, RowsAreOK DEF RowsOK, Cabin, IsCabin, RowOf
<1>4. \A c \in Classes : Kept(c)
  BY <1>1, <1>2 DEF Kept
<1> QED BY <1>1, <1>3, <1>4, StepOfACustomer

\* Every step of a customer keeps the invariant and all capacities.
LEMMA Customers ==
    ASSUME CabinInv, Customer
    PROVE  /\ CabinInv' /\ \A k \in Managers : Foreign(k)
           /\ UNCHANGED <<capacity, seats>>
<1>1. CASE \E r \in Refs, c \in Classes : \E S \in SUBSET SeatsOf(free, c) : Book(r, c, S)
  BY <1>1, Books DEF Book
<1>2. CASE \E r \in Refs : BeginPay(r) \/ FinishPay(r) \/ Lapse(r)
  BY <1>2, HoldsGoOn
<1>3. CASE \E r \in Refs : Release(r)
  BY <1>3, Releases DEF Release
<1> QED BY <1>1, <1>2, <1>3 DEF Customer

\* A step is one manager's, or foreign to all of them.
LEMMA WhoSteps ==
    ASSUME CabinInv, [Next]_vars
    PROVE  /\ CabinInv'
           /\ \/ (\A k \in Managers : Foreign(k)) /\ UNCHANGED <<capacity, seats>>
              \/ \E m \in Managers : Manager(m) /\ \A k \in Managers \ {m} : Foreign(k)
<1>1. CASE Customer
  BY <1>1, Customers
<1>2. CASE \E m \in Managers : Manager(m)
  BY <1>2, ManagersGoOn DEF GoesOn
<1>3. CASE \E c \in Classes : HandEdit(c)
  BY <1>3, HandEdits DEF HandEdit
<1>4. CASE UNCHANGED vars
  BY <1>4, Idles DEF vars, rows
<1> QED BY <1>1, <1>2, <1>3, <1>4 DEF Next, Quiet

\* Every step keeps the invariant.
LEMMA CabinIsKept == CabinInv /\ [Next]_vars => CabinInv'
BY WhoSteps

\* It holds for every instance of Inventory.
LEMMA CabinInvariant == Spec => []CabinInv
BY InitCabin, CabinIsKept, PTL DEF Spec

\* It has the types in it.
LEMMA CabinIsTyped == CabinInv => InventoryTypeOK
<1> SUFFICES ASSUME CabinInv PROVE InventoryTypeOK
  OBVIOUS
<1>1. RowsOK
  BY RowsAreOK
<1>2. \A c \in Classes : available[c] \in 0 .. capacity[c]
  <2> TAKE c \in Classes
  <2>1. available[c] \in Nat /\ available[c] <= capacity[c] /\ capacity[c] \in Nat
    BY <1>1, CapacitiesAreNumbers DEF RowsOK
  <2> QED BY <2>1
<1>3. \A s \in seats : s.class \in Classes /\ s.place \in Nat /\ RowOf(s) > 0
  BY <1>1 DEF RowsOK, Cabin, IsCabin, Seat
<1>4. \A r \in Refs : /\ hold[r].status \in {"none", "pending", "reserved", "cancelled"}
                      /\ hold[r].overdue \in BOOLEAN /\ hold[r].paying \in BOOLEAN
  BY <1>1 DEF RowsOK, HoldRow, Statuses
<1>5. \A m \in Managers : txn[m].op \in {"none", "generate", "edit", "admin", "recount"}
  BY DEF CabinInv, Shape, Transaction
<1> QED BY <1>1, <1>2, <1>3, <1>4, <1>5 DEF InventoryTypeOK, RowsOK, Cabin, CabinInv, Shape

\* Whatever managers, customers and the recount do, and in whatever order, the
\* rows keep their types and the constraints of the tables hold: no class has
\* more available seats than its capacity, and every seat is of a class of the flight.
THEOREM InventoryTypeCorrect == Spec => []InventoryTypeOK
BY CabinInvariant, CabinIsTyped, PTL

\* It says that seats of reservations are there.
LEMMA CabinKeepsBooked == CabinInv => BookedSeatsStay
BY DEF CabinInv, Holds, BookedSeatsStay

\* No change of a capacity, and no generation of seats, takes a seat or the class
\* of a seat from a reservation, although the Django admin decides from values
\* that it read without a lock.
THEOREM BookedSeatsAreKept == Spec => []BookedSeatsStay
BY CabinInvariant, CabinKeepsBooked, PTL

-----------------------------------------------------------------------------
(* As many seats as the capacity says.                                     *)

\* Seats are not generated from capacities that the Django admin changes meanwhile:
\* it does not lock the Flight.
NotBoth == ~({"generate", "admin"} \subseteq Ops)

WillFill(m) ==
    /\ txn[m].pc = "save" =>
         \A c \in txn[m].classes : FullOrNone(Becomes(txn[m]), c, txn[m].want[c])
    /\ txn[m].pc = "insert" => txn[m].want = capacity

FillInv ==
    /\ CabinInv
    /\ \A c \in Classes : FullOrNone(seats, c, capacity[c])
    /\ \A m \in Managers : WillFill(m)

\* What a transaction will fill is not changed by the others.
LEMMA ForeignFill ==
    ASSUME NotBoth, FillInv, NEW m \in Managers, Foreign(m)
    PROVE  WillFill(m)'
<1> PICK t \in Transaction : t = txn[m] /\ t = txn'[m]
  BY DEF FillInv, CabinInv, Shape, Foreign
<1>1. WillFill(m) /\ Phase(m) /\ SaveHas(m)
  BY DEF FillInv, CabinInv, Steps
<1>2. ASSUME t.pc = "save", NEW c \in t.classes
      PROVE  FullOrNone(Becomes(t)', c, t.want[c])
  <2>1. lock[c] = m /\ c \in Classes
    BY <1>1, <1>2 DEF SaveHas, Saved, Transaction
  <2>2. SeatsOf(seats', c) = SeatsOf(seats, c)
    BY <2>1 DEF Foreign, Kept
  <2>3. SeatsOf(Becomes(t)', c) = SeatsOf(Becomes(t), c)
    BY <2>2 DEF SeatsOf, Becomes
  <2>4. FullOrNone(Becomes(t), c, t.want[c])
    BY <1>1, <1>2 DEF WillFill
  <2> QED BY <2>3, <2>4 DEF FullOrNone
<1>3. ASSUME t.pc = "insert"
      PROVE  t.want = capacity'
  <2>1. t.want = capacity /\ lock[Flight] = m /\ "generate" \in Ops
    BY <1>1, <1>3 DEF WillFill, Phase
  <2> QED BY <2>1 DEF Foreign, NotBoth
<1>4. Becomes(txn[m])' = Becomes(t)'
  BY DEF Becomes
<1> QED BY <1>2, <1>3, <1>4 DEF WillFill

\* A step of m that changes neither the seats nor a capacity, and leaves m with
\* nothing to save or to insert.
LEMMA StillFull ==
    ASSUME FillInv, NEW m \in Managers, UNCHANGED <<capacity, seats>>,
           txn'[m].pc \notin {"save", "insert"}
    PROVE  (\A c \in Classes : FullOrNone(seats, c, capacity[c])') /\ WillFill(m)'
BY DEF FillInv, WillFill, FullOrNone

\* A manager leaves every class full or empty.
LEMMA ManagersFill ==
    ASSUME FillInv, NEW m \in Managers, Manager(m)
    PROVE  (\A c \in Classes : FullOrNone(seats, c, capacity[c])') /\ WillFill(m)'
<1>1. CabinInv
  BY DEF FillInv
<1>2. CASE GenerateRead(m)
  <2>1. UNCHANGED <<capacity, seats>>
    BY <1>2 DEF GenerateRead, rows
  <2>2. txn'[m] = [NoTxn EXCEPT !.op = "generate", !.pc = "insert",
                                !.want = capacity, !.row = LastRow(seats) + 1]
    BY <1>1, <1>2, GenerateReads
  <2>3. txn'[m].pc = "insert" /\ txn'[m].want = capacity
    BY <2>2, NoTxnShape DEF Transaction
  <2> QED BY <2>1, <2>3 DEF FillInv, WillFill, FullOrNone
<1>3. CASE GenerateInsert(m)
  <2> PICK N : N = Generated(seats, txn[m].row, txn[m].want)
    OBVIOUS
  <2>1. /\ txn'[m] = NoTxn /\ capacity' = capacity /\ seats' = seats \cup N
        /\ \A s \in N : SeatsOf(seats, s.class) = {}
    BY <1>1, <1>3, Inserts
  <2>2. \A c \in Classes : SeatsOf(seats, c) = {} => Cardinality(SeatsOf(N, c)) = txn[m].want[c]
    BY <1>1, <1>3, Inserts
  <2>3. txn[m].want = capacity
    BY <1>3 DEF GenerateInsert, Doing, FillInv, WillFill
  <2>4. ASSUME NEW c \in Classes
        PROVE  FullOrNone(seats', c, capacity'[c])
    <3>1. CASE SeatsOf(seats, c) = {}
      <4>1. SeatsOf(seats', c) = SeatsOf(N, c)
        BY <2>1, <3>1 DEF SeatsOf
      <4> QED BY <2>1, <2>2, <2>3, <3>1, <4>1 DEF FullOrNone
    <3>2. CASE SeatsOf(seats, c) # {}
      <4>1. SeatsOf(seats', c) = SeatsOf(seats, c)
        BY <2>1, <3>2 DEF SeatsOf
      <4> QED BY <2>1, <4>1 DEF FullOrNone, FillInv
    <3> QED BY <3>1, <3>2
  <2> QED BY <2>1, <2>4 DEF WillFill, NoTxn
<1>4. CASE \E want \in [Classes -> 0 .. MaxCapacity] : EditLockFlight(m, want)
  <2>1. UNCHANGED <<capacity, seats>>
    BY <1>4 DEF EditLockFlight, rows
  <2>2. txn'[m].pc = "classes"
    <3>1. PICK want \in [Classes -> 0 .. MaxCapacity] : EditLockFlight(m, want)
      BY <1>4
    <3>2. txn'[m] = [NoTxn EXCEPT !.op = "edit", !.pc = "classes", !.want = want]
      BY <1>1, <3>1, EditLocksFlight
    <3> QED BY <3>2, NoTxnShape DEF Transaction
  <2> QED BY <2>1, <2>2, StillFull
<1>5. CASE EditLockClass(m)
  <2>1. UNCHANGED <<capacity, seats>> /\ txn[m].pc = "classes"
    BY <1>5 DEF EditLockClass, rows, Doing
  <2>2. txn'[m] = txn[m]
    BY <1>1, <1>5, EditLocksClass
  <2> QED BY <2>1, <2>2, StillFull
<1>6. CASE EditRead(m)
  <2>1. UNCHANGED <<capacity, seats>>
    BY <1>6 DEF EditRead, rows
  <2>2. \/ txn'[m] = NoTxn
        \/ /\ txn'[m].pc = "save"
           /\ \A c \in Classes : FullOrNone(Becomes(txn'[m]), c, txn'[m].want[c])
    BY <1>1, <1>6, EditReads
  <2>3. CASE txn'[m] = NoTxn
    BY <2>1, <2>3, StillFull DEF NoTxn
  <2>4. CASE txn'[m].pc = "save" /\ \A c \in Classes : FullOrNone(Becomes(txn'[m]), c, txn'[m].want[c])
    <3>1. txn'[m] \in Transaction
      BY <1>1, <1>6, EditReads DEF GoesOn, CabinInv, Shape
    <3>2. txn'[m].classes \subseteq Classes
      BY <3>1 DEF Transaction
    <3>3. Becomes(txn[m])' = Becomes(txn'[m])
      BY <2>1 DEF Becomes
    <3> QED BY <2>1, <2>4, <3>2, <3>3 DEF FillInv, WillFill, FullOrNone
  <2> QED BY <2>2, <2>3, <2>4
<1>7. CASE \E c \in Classes, n \in 0 .. MaxCapacity : AdminRead(m, c, n)
  <2>1. UNCHANGED <<capacity, seats>>
    BY <1>7 DEF AdminRead, rows
  <2>2. txn'[m].pc = "update"
    BY <1>1, <1>7, AdminReads
  <2> QED BY <2>1, <2>2, StillFull
<1>8. CASE AdminUpdate(m)
  <2>1. UNCHANGED <<capacity, seats>>
    BY <1>8 DEF AdminUpdate, rows
  <2>2. \/ txn'[m] = NoTxn
        \/ /\ txn'[m].pc = "save"
           /\ \A c \in txn'[m].classes : FullOrNone(Becomes(txn'[m]), c, txn'[m].want[c])
    BY <1>1, <1>8, AdminUpdates
  <2>3. CASE txn'[m] = NoTxn
    BY <2>1, <2>3, StillFull DEF NoTxn
  <2>4. CASE /\ txn'[m].pc = "save"
             /\ \A c \in txn'[m].classes : FullOrNone(Becomes(txn'[m]), c, txn'[m].want[c])
    <3>1. Becomes(txn[m])' = Becomes(txn'[m])
      BY <2>1 DEF Becomes
    <3> QED BY <2>1, <2>4, <3>1 DEF FillInv, WillFill, FullOrNone
  <2> QED BY <2>2, <2>3, <2>4
<1>9. CASE SaveClasses(m)
  <2>1. /\ txn'[m] = NoTxn /\ seats' = Becomes(txn[m]) /\ txn[m].pc = "save"
        /\ \A c \in txn[m].classes : capacity'[c] = txn[m].want[c]
        /\ \A c \in Classes \ txn[m].classes : Kept(c)
    BY <1>1, <1>9, Saves
  <2>2. ASSUME NEW c \in Classes
        PROVE  FullOrNone(seats', c, capacity'[c])
    <3>1. CASE c \in txn[m].classes
      BY <2>1, <3>1 DEF FillInv, WillFill
    <3>2. CASE c \notin txn[m].classes
      BY <2>1, <3>2 DEF FillInv, Kept, FullOrNone
    <3> QED BY <3>1, <3>2
  <2> QED BY <2>1, <2>2 DEF WillFill, NoTxn
<1>10. CASE RecountBegin(m)
  <2>1. UNCHANGED <<capacity, seats>>
    BY <1>10 DEF RecountBegin, rows
  <2> QED BY <1>1, <1>10, <2>1, RecountBegins, StillFull
<1>11. CASE RecountExpire(m)
  <2>1. UNCHANGED <<capacity, seats>>
    BY <1>1, <1>11, Expires DEF rows
  <2>2. txn'[m].pc \in {"none", "class"}
    BY <1>1, <1>11, Expires
  <2> QED BY <2>1, <2>2, StillFull
<1>12. CASE RecountSum(m)
  <2>1. UNCHANGED <<capacity, seats>>
    BY <1>12 DEF RecountSum, rows
  <2>2. txn'[m].pc = "flags"
    BY <1>1, <1>12, RecountSums
  <2> QED BY <2>1, <2>2, StillFull
<1>13. CASE RecountFlags(m)
  <2>1. UNCHANGED <<capacity, seats>> /\ txn'[m].pc \in {"none", "class"}
    BY <1>1, <1>13, Flags
  <2> QED BY <2>1, StillFull
<1> QED BY <1>2, <1>3, <1>4, <1>5, <1>6, <1>7, <1>8, <1>9, <1>10, <1>11, <1>12, <1>13 DEF Manager

\* The first cabin is full.
LEMMA InitFill == Init => FillInv
BY InitCabin, FirstCabin DEF FillInv, WillFill, Init, NoTxn

\* Every step keeps the classes full.
LEMMA FillIsKept ==
    ASSUME NotBoth, FillInv, [Next]_vars
    PROVE  FillInv'
<1>1. CabinInv
  BY DEF FillInv
<1>2. CASE (\A k \in Managers : Foreign(k)) /\ UNCHANGED <<capacity, seats>>
  <2>1. \A m \in Managers : WillFill(m)'
    BY <1>2, ForeignFill
  <2> QED BY <1>1, <1>2, <2>1, WhoSteps DEF FillInv, FullOrNone
<1>3. CASE \E m \in Managers : Manager(m) /\ \A k \in Managers \ {m} : Foreign(k)
  <2>1. PICK m \in Managers : Manager(m) /\ \A k \in Managers \ {m} : Foreign(k)
    BY <1>3
  <2>2. \A k \in Managers \ {m} : WillFill(k)'
    BY <2>1, ForeignFill
  <2>3. (\A c \in Classes : FullOrNone(seats, c, capacity[c])') /\ WillFill(m)'
    BY <2>1, ManagersFill
  <2> QED BY <1>1, <2>2, <2>3, WhoSteps DEF FillInv
<1> QED BY <1>1, <1>2, <1>3, WhoSteps

\* It holds for every instance with not both of the operations.
LEMMA FillInvariant ==
    ASSUME NotBoth
    PROVE  Spec => []FillInv
<1>1. FillInv /\ [Next]_vars => FillInv'
  BY FillIsKept
<1> QED BY <1>1, InitFill, PTL DEF Spec

\* It has the property in it.
LEMMA FullIsFilled == FillInv => SeatsFillCapacity
BY DEF FillInv, FullOrNone, SeatsFillCapacity

\* A class that has seats has as many as its capacity, whichever managers edit
\* capacities and generate seats while customers book, unless the Django admin
\* changes a capacity while seats are generated.
THEOREM SeatsFollowCapacity == NotBoth /\ Spec => []SeatsFillCapacity
<1>1. ASSUME NotBoth PROVE Spec => []SeatsFillCapacity
  BY <1>1, FillInvariant, FullIsFilled, PTL
<1> QED BY <1>1

-----------------------------------------------------------------------------
(* The recount.                                                            *)

Overdue(c) == \E r \in Refs : IsActive(r) /\ hold[r].class = c /\ hold[r].overdue

\* What the sum says is still right when the flags are written, unless a deadline
\* of the class passed.
SumHas(m) ==
    txn[m].pc = "flags" =>
      \/ Overdue(txn[m].class)
      \/ txn[m].derived[txn[m].class] =
           Max({0, capacity[txn[m].class] - Cardinality(SeatsOf(Linked, txn[m].class))})

SumInv == FillInv /\ \A m \in Managers : SumHas(m)

\* While no hold of a class has run out, its linked seats are those the recount counts.
LEMMA HeldIsLinked ==
    ASSUME CabinInv, NEW c \in Classes, ~Overdue(c)
    PROVE  HeldSeats(c) = SeatsOf(Linked, c)
<1>1. HeldSeats(c) \subseteq SeatsOf(Linked, c)
  BY HeldSeatsFacts
<1>2. ASSUME NEW r \in Refs, NEW s \in hold[r].seats, s.class = c
      PROVE  s \in HeldSeats(c)
  <2>1. IsActive(r) /\ hold[r].seats \subseteq SeatsOf(seats, hold[r].class)
    BY DEF CabinInv, Holds
  <2>2. hold[r].class = c
    BY <1>2, <2>1 DEF SeatsOf
  <2>3. r \in Holding(c)
    BY <2>1, <2>2 DEF Overdue, Holding, IsActive
  <2> QED BY <2>3 DEF HeldSeats
<1>3. SeatsOf(Linked, c) \subseteq HeldSeats(c)
  BY <1>2 DEF SeatsOf, Linked
<1> QED BY <1>1, <1>3

\* A reservation of a class that is locked stays active, and overdue if it is.
LEMMA ActiveStays ==
    ASSUME CabinInv, [Next]_vars, NEW r \in Refs, IsActive(r), ~Unlocked(hold[r].class)
    PROVE  /\ IsActive(r)' /\ hold'[r].class = hold[r].class
           /\ hold[r].overdue => hold'[r].overdue
<1>1. CASE \E q \in Refs, c \in Classes : \E S \in SUBSET SeatsOf(free, c) : Book(q, c, S)
  <2>1. PICK q \in Refs, c \in Classes : \E S \in SUBSET SeatsOf(free, c) : Book(q, c, S)
    BY <1>1
  <2> PICK S \in SUBSET SeatsOf(free, c) : Book(q, c, S)
    BY <2>1
  <2>2. q # r /\ hold' = [hold EXCEPT ![q] = [NoHold EXCEPT !.status = "pending", !.class = c, !.seats = S]]
    BY DEF Book, IsActive
  <2>3. hold \in [Refs -> HoldRow]
    BY DEF CabinInv, Shape
  <2>4. hold'[r] = hold[r]
    BY <2>2, <2>3
  <2> QED BY <2>4 DEF IsActive
<1>2. CASE \E q \in Refs : BeginPay(q) \/ FinishPay(q) \/ Lapse(q)
  <2>1. PICK q \in Refs : BeginPay(q) \/ FinishPay(q) \/ Lapse(q)
    BY <1>2
  <2>2. HoldGoesOn(q)
    BY <2>1, HoldsGoOn
  <2> QED BY <2>2 DEF HoldGoesOn, IsActive
<1>3. CASE \E q \in Refs : /\ IsActive(q) /\ ~hold[q].paying /\ Unlocked(hold[q].class)
                           /\ CanGiveBack(q) /\ GiveBack(q) /\ UNCHANGED <<capacity, seats>>
  <2>1. PICK q \in Refs : /\ IsActive(q) /\ ~hold[q].paying /\ Unlocked(hold[q].class)
                          /\ CanGiveBack(q) /\ GiveBack(q) /\ UNCHANGED <<capacity, seats>>
    BY <1>3
  <2>2. q # r /\ \A p \in Refs \ {q} : hold'[p] = hold[p]
    BY <2>1, GivesBack
  <2> QED BY <2>2 DEF IsActive
<1>4. CASE hold' = hold
  BY <1>4 DEF IsActive
<1>5. CASE \E q \in Refs : Release(q)
  BY <1>3, <1>5 DEF Release
<1>6. CASE \E m \in Managers : RecountExpire(m)
  BY <1>3, <1>4, <1>6, Expires DEF rows
<1>7. CASE \E m \in Managers : Manager(m) /\ ~RecountExpire(m)
  <2>1. PICK m \in Managers : Manager(m) /\ ~RecountExpire(m)
    BY <1>7
  <2>2. CASE GenerateRead(m) \/ EditLockClass(m) \/ EditRead(m)
    BY <1>4, <2>2 DEF GenerateRead, EditLockClass, EditRead, rows
  <2>3. CASE \E want \in [Classes -> 0 .. MaxCapacity] : EditLockFlight(m, want)
    BY <1>4, <2>3 DEF EditLockFlight, rows
  <2>4. CASE \E c \in Classes, n \in 0 .. MaxCapacity : AdminRead(m, c, n)
    BY <1>4, <2>4 DEF AdminRead, rows
  <2>5. CASE AdminUpdate(m) \/ RecountBegin(m) \/ RecountSum(m)
    BY <1>4, <2>5 DEF AdminUpdate, RecountBegin, RecountSum, rows
  <2>6. CASE GenerateInsert(m) \/ SaveClasses(m) \/ RecountFlags(m)
    BY <1>4, <2>6 DEF GenerateInsert, SaveClasses, RecountFlags
  <2> QED BY <2>1, <2>2, <2>3, <2>4, <2>5, <2>6 DEF Manager
<1>8. CASE \E c \in Classes : HandEdit(c)
  BY <1>4, <1>8 DEF HandEdit
<1>9. CASE UNCHANGED vars
  BY <1>4, <1>9 DEF vars, rows
<1> QED BY <1>1, <1>2, <1>5, <1>6, <1>7, <1>8, <1>9 DEF Next, Customer, Quiet

\* The others do not change what the recount has counted.
LEMMA ForeignSum ==
    ASSUME CabinInv, [Next]_vars, NEW m \in Managers, Foreign(m), SumHas(m)
    PROVE  SumHas(m)'
<1> SUFFICES ASSUME txn'[m].pc = "flags" PROVE SumHas(m)'
  BY DEF SumHas
<1> PICK c : c = txn[m].class
  OBVIOUS
<1>1. txn'[m] = txn[m] /\ txn[m].pc = "flags"
  BY DEF Foreign
<1>2. c \in Classes /\ lock[c] = m /\ m # None
  BY <1>1, InventoryAssumption DEF CabinInv, Steps, FlagsHas
<1>3. Kept(c)
  BY <1>2 DEF Foreign
<1>4. CASE Overdue(c)
  <2>1. PICK r \in Refs : IsActive(r) /\ hold[r].class = c /\ hold[r].overdue
    BY <1>4 DEF Overdue
  <2>2. IsActive(r)' /\ hold'[r].class = c /\ hold'[r].overdue
    BY <1>2, <2>1, ActiveStays DEF Unlocked
  <2>3. Overdue(c)'
    BY <2>2 DEF Overdue
  <2>4. txn'[m].class = c
    BY <1>1
  <2> QED BY <2>3, <2>4 DEF SumHas, Overdue
<1>5. CASE txn[m].derived[c] = Max({0, capacity[c] - Cardinality(SeatsOf(Linked, c))})
  BY <1>1, <1>3, <1>5 DEF SumHas, Kept
<1> QED BY <1>1, <1>4, <1>5 DEF SumHas

\* Only the count of a class leads to its flags.
LEMMA OnlySumsFlag ==
    ASSUME CabinInv, NEW m \in Managers, Manager(m), ~RecountSum(m)
    PROVE  txn'[m].pc # "flags"
<1>1. CASE GenerateRead(m)
  <2>1. txn'[m] = [NoTxn EXCEPT !.op = "generate", !.pc = "insert",
                                !.want = capacity, !.row = LastRow(seats) + 1]
    BY <1>1, GenerateReads
  <2> QED BY <2>1, NoTxnShape DEF Transaction
<1>2. CASE GenerateInsert(m)
  BY <1>2, Inserts DEF NoTxn
<1>3. CASE \E want \in [Classes -> 0 .. MaxCapacity] : EditLockFlight(m, want)
  <2>1. PICK want \in [Classes -> 0 .. MaxCapacity] : EditLockFlight(m, want)
    BY <1>3
  <2>2. txn'[m] = [NoTxn EXCEPT !.op = "edit", !.pc = "classes", !.want = want]
    BY <2>1, EditLocksFlight
  <2> QED BY <2>2, NoTxnShape DEF Transaction
<1>4. CASE EditLockClass(m)
  BY <1>4, EditLocksClass DEF EditLockClass, Doing
<1>5. CASE EditRead(m)
  BY <1>5, EditReads DEF NoTxn
<1>6. CASE \E c \in Classes, n \in 0 .. MaxCapacity : AdminRead(m, c, n)
  BY <1>6, AdminReads
<1>7. CASE AdminUpdate(m)
  BY <1>7, AdminUpdates DEF NoTxn
<1>8. CASE SaveClasses(m)
  BY <1>8, Saves DEF NoTxn
<1>9. CASE RecountBegin(m)
  BY <1>9, RecountBegins
<1>10. CASE RecountExpire(m)
  BY <1>10, Expires
<1>11. CASE RecountFlags(m)
  BY <1>11, Flags
<1> QED BY <1>1, <1>2, <1>3, <1>4, <1>5, <1>6, <1>7, <1>8, <1>9, <1>10, <1>11 DEF Manager

\* The count is right when it is made.
LEMMA SumsAreRight ==
    ASSUME CabinInv, NEW m \in Managers, RecountSum(m)
    PROVE  SumHas(m)'
<1> PICK c : c = txn'[m].class
  OBVIOUS
<1>1. /\ c \in Classes
      /\ txn'[m].derived[c] = Max({0, capacity[c] - Cardinality(HeldSeats(c))})
  BY RecountSums
<1>2. capacity' = capacity /\ hold' = hold /\ seats' = seats
  BY DEF RecountSum, rows
<1>3. Linked' = Linked /\ Overdue(c)' = Overdue(c)
  BY <1>2 DEF Linked, Overdue, IsActive
<1>4. CASE Overdue(c)
  BY <1>3, <1>4 DEF SumHas, Overdue
<1>5. CASE ~Overdue(c)
  <2>1. HeldSeats(c) = SeatsOf(Linked, c)
    BY <1>1, <1>5, HeldIsLinked
  <2> QED BY <1>1, <1>2, <1>3, <2>1 DEF SumHas
<1> QED BY <1>4, <1>5

\* Nobody counts in the beginning.
LEMMA InitSum == Init => SumInv
BY InitFill DEF SumInv, SumHas, Init, NoTxn

\* A count stays right until its flags are written.
LEMMA SumIsKept ==
    ASSUME NotBoth, SumInv, [Next]_vars
    PROVE  SumInv'
<1>1. CabinInv /\ FillInv /\ FillInv'
  BY FillIsKept DEF SumInv, FillInv
<1>2. CASE \A k \in Managers : Foreign(k)
  BY <1>1, <1>2, ForeignSum DEF SumInv
<1>3. CASE \E m \in Managers : Manager(m) /\ \A k \in Managers \ {m} : Foreign(k)
  <2>1. PICK m \in Managers : Manager(m) /\ \A k \in Managers \ {m} : Foreign(k)
    BY <1>3
  <2>2. \A k \in Managers \ {m} : SumHas(k)'
    BY <1>1, <2>1, ForeignSum DEF SumInv
  <2>3. SumHas(m)'
    <3>1. CASE RecountSum(m)
      BY <1>1, <3>1, SumsAreRight
    <3>2. CASE ~RecountSum(m)
      BY <1>1, <2>1, <3>2, OnlySumsFlag DEF SumHas
    <3> QED BY <3>1, <3>2
  <2> QED BY <1>1, <2>2, <2>3 DEF SumInv
<1> QED BY <1>1, <1>2, <1>3, WhoSteps

\* After a count the flags are written.
LEMMA OnlyFlagsEnd ==
    ASSUME CabinInv, NEW m \in Managers, Doing(m, "recount", "flags"), Manager(m)
    PROVE  RecountFlags(m)
<1>1. txn[m].op = "recount" /\ txn[m].pc = "flags" /\ ~Idle(m)
  BY DEF Doing, Idle, NoTxn
<1>2. ~GenerateRead(m) /\ ~RecountBegin(m) /\ \A want : ~EditLockFlight(m, want)
  BY <1>1 DEF GenerateRead, RecountBegin, EditLockFlight, MayBegin
<1>3. \A c, n : ~AdminRead(m, c, n)
  BY <1>1 DEF AdminRead, MayBegin
<1>4. ~GenerateInsert(m) /\ ~EditLockClass(m) /\ ~EditRead(m)
  BY <1>1 DEF GenerateInsert, EditLockClass, EditRead, Doing
<1>5. ~AdminUpdate(m) /\ ~SaveClasses(m) /\ ~RecountExpire(m) /\ ~RecountSum(m)
  BY <1>1 DEF AdminUpdate, SaveClasses, RecountExpire, RecountSum, Doing
<1> QED BY <1>2, <1>3, <1>4, <1>5 DEF Manager

\* Then counter and flags of the class agree with its reservations.
LEMMA RepairStep ==
    ASSUME SumInv, [Next]_vars, NEW m \in Managers, Doing(m, "recount", "flags"), txn'[m].pc # "flags",
           NEW c \in Classes, c = txn[m].class, ~Overdue(c)
    PROVE  InAgreement(c)'
<1>1. CabinInv /\ FillInv /\ SumHas(m)
  BY DEF SumInv, FillInv
<1>2. ~Foreign(m)
  BY DEF Foreign, Doing
<1>3. RecountFlags(m)
  BY <1>1, <1>2, OnlyFlagsEnd, WhoSteps
<1>4. /\ capacity' = capacity /\ seats' = seats /\ Linked' = Linked
      /\ available'[c] = txn[m].derived[c]
      /\ SeatsOf(free', c) = SeatsOf(seats, c) \ HeldSeats(c)
  BY <1>1, <1>3, Flags
<1>5. HeldSeats(c) = SeatsOf(Linked, c)
  BY <1>1, HeldIsLinked
<1> PICK n \in Nat : n = capacity[c]
  BY <1>1, CapacitiesAreNumbers DEF CabinInv, Shape
<1> PICK k \in Nat : k = Cardinality(SeatsOf(Linked, c))
  BY <1>1, HeldSeatsFacts
<1>6. k <= n
  <2>1. SeatsOf(Linked, c) \subseteq SeatsOf(seats, c) /\ IsFiniteSet(SeatsOf(seats, c))
    BY <1>1, HeldSeatsFacts, SeatsOfFacts DEF CabinInv, Cabin, IsCabin
  <2>2. k <= Cardinality(SeatsOf(seats, c))
    BY <2>1, FS_Subset
  <2>3. CASE SeatsOf(seats, c) = {}
    BY <2>2, <2>3, FS_EmptySet
  <2>4. CASE SeatsOf(seats, c) # {}
    BY <1>1, <2>2, <2>4 DEF FillInv, FullOrNone
  <2> QED BY <2>3, <2>4
<1>7. txn[m].derived[c] = Max({0, n - k})
  BY <1>1 DEF SumHas, Doing
<1>8. Max({0, n - k}) = n - k
  BY <1>6, MaxOfZero
<1>9. SeatsOf(free', c) = SeatsOf(seats', c) \ Linked'
  BY <1>4, <1>5 DEF SeatsOf
<1> QED BY <1>4, <1>7, <1>8, <1>9 DEF InAgreement

\* The same, as the property has it.
LEMMA RepairsStep ==
    ASSUME SumInv, [Next]_vars
    PROVE  \A m \in Managers :
              /\ Doing(m, "recount", "flags") /\ txn'[m].pc # "flags"
              /\ \A r \in Refs : IsActive(r) /\ hold[r].class = txn[m].class => ~hold[r].overdue
              => \A c \in Classes : c = txn[m].class => InAgreement(c)'
BY RepairStep DEF Overdue

\* The recount repairs a class, however its counter and flags had drifted, and
\* whatever is booked, paid, given back or edited by hand between the two times
\* it reads the reservations, unless a deadline of the class passed meanwhile.
THEOREM RecountIsRight == NotBoth /\ Spec => RecountRepairs
<1>1. ASSUME NotBoth PROVE Spec => RecountRepairs
  <2>1. SumInv /\ [Next]_vars => SumInv'
    BY <1>1, SumIsKept
  <2>2. SumInv /\ [Next]_vars =>
          (\A m \in Managers :
             /\ Doing(m, "recount", "flags") /\ txn'[m].pc # "flags"
             /\ \A r \in Refs : IsActive(r) /\ hold[r].class = txn[m].class => ~hold[r].overdue
             => \A c \in Classes : c = txn[m].class => InAgreement(c)')
    BY RepairsStep
  <2> QED BY <2>1, <2>2, InitSum, PTL DEF Spec, RecountRepairs
<1> QED BY <1>1

-----------------------------------------------------------------------------
(* Rows of one class.                                                      *)

\* Every change of the seats is made under the lock of the Flight.
NoAdmin == "admin" \notin Ops

RowHas(m) ==
    /\ txn[m].pc = "insert" => \A s \in seats : RowOf(s) < txn[m].row
    /\ txn[m].pc = "save" => OneClassPerRow(Becomes(txn[m]))

RowInv == CabinInv /\ OneClassPerRow(seats) /\ \A m \in Managers : RowHas(m)

\* The others do not change the rows that generation has counted.
LEMMA ForeignRow ==
    ASSUME NoAdmin, RowInv, NEW m \in Managers, Foreign(m)
    PROVE  RowHas(m)'
<1> PICK t : t = txn[m] /\ t = txn'[m]
  BY DEF Foreign
<1>1. RowHas(m) /\ Phase(m)
  BY DEF RowInv, CabinInv, Steps
<1>2. t.pc \in {"insert", "save"} => seats' = seats
  BY <1>1 DEF Phase, NoAdmin, Foreign
<1>3. t.pc = "insert" => \A s \in seats' : RowOf(s) < t.row
  BY <1>1, <1>2 DEF RowHas
<1>4. t.pc = "save" => OneClassPerRow((seats' \ t.removed) \cup t.added)
  BY <1>1, <1>2 DEF RowHas, Becomes
<1>5. OneClassPerRow(Becomes(txn[m]))' <=> OneClassPerRow((seats' \ t.removed) \cup t.added)
  BY DEF OneClassPerRow, Becomes, RowOf
<1>6. (\A s \in seats : RowOf(s) < txn[m].row)' <=> \A s \in seats' : RowOf(s) < t.row
  BY DEF RowOf
<1> QED BY <1>3, <1>4, <1>5, <1>6 DEF RowHas

\* A manager leaves every row to one class.
LEMMA ManagersRow ==
    ASSUME NoAdmin, RowInv, NEW m \in Managers, Manager(m)
    PROVE  OneClassPerRow(seats)' /\ RowHas(m)'
<1>1. CabinInv /\ OneClassPerRow(seats) /\ RowHas(m)
  BY DEF RowInv
<1> PICK t : t = txn'[m]
  OBVIOUS
<1>2. ASSUME OneClassPerRow(seats'),
             t.pc = "insert" => \A s \in seats' : RowOf(s) < t.row,
             t.pc = "save" => OneClassPerRow((seats' \ t.removed) \cup t.added)
      PROVE  OneClassPerRow(seats)' /\ RowHas(m)'
  <2>1. OneClassPerRow(Becomes(txn[m]))' <=> OneClassPerRow((seats' \ t.removed) \cup t.added)
    BY DEF OneClassPerRow, Becomes, RowOf
  <2>2. (\A s \in seats : RowOf(s) < txn[m].row)' <=> \A s \in seats' : RowOf(s) < t.row
    BY DEF RowOf
  <2>3. OneClassPerRow(seats)' <=> OneClassPerRow(seats')
    BY DEF OneClassPerRow, RowOf
  <2> QED BY <1>2, <2>1, <2>2, <2>3 DEF RowHas
<1>3. ASSUME seats' = seats, t.pc \notin {"insert", "save"}
      PROVE  OneClassPerRow(seats)' /\ RowHas(m)'
  BY <1>1, <1>2, <1>3
<1>4. CASE GenerateRead(m)
  <2>1. /\ seats' = seats
        /\ t = [NoTxn EXCEPT !.op = "generate", !.pc = "insert",
                             !.want = capacity, !.row = LastRow(seats) + 1]
    BY <1>1, <1>4, GenerateReads DEF GenerateRead, rows
  <2>2. t.pc = "insert" /\ t.row = LastRow(seats) + 1
    BY <2>1, NoTxnShape DEF Transaction
  <2>3. \A s \in seats : RowOf(s) < LastRow(seats) + 1
    <3>1. IsCabin(seats)
      BY <1>1 DEF CabinInv, Cabin
    <3>2. \A s \in seats : RowOf(s) \in Nat
      BY <3>1, RowFacts DEF IsCabin
    <3> QED BY <3>1, <3>2, LastRowFacts
  <2> QED BY <1>1, <1>2, <2>1, <2>2, <2>3
<1>5. CASE GenerateInsert(m)
  <2> PICK N : N = Generated(seats, txn[m].row, txn[m].want)
    OBVIOUS
  <2>1. t = NoTxn /\ seats' = seats \cup N /\ IsCabin(N) /\ OneClassPerRow(N)
    BY <1>1, <1>5, Inserts
  <2>2. \A s \in N : txn[m].row <= RowOf(s)
    BY <1>1, <1>5, Inserts
  <2>3. \A s \in seats : RowOf(s) < txn[m].row
    BY <1>1, <1>5 DEF RowHas, GenerateInsert, Doing
  <2>4. /\ \A s \in N : RowOf(s) \in Nat
        /\ \A s \in seats : RowOf(s) \in Nat
        /\ txn[m].row \in Nat
    BY <1>1, <2>1, RowFacts DEF IsCabin, CabinInv, Cabin, Shape, Transaction
  <2>5. \A s \in seats, n \in N : RowOf(s) # RowOf(n)
    BY <2>2, <2>3, <2>4
  <2>6. OneClassPerRow(seats \cup N)
    BY <1>1, <2>1, <2>5 DEF OneClassPerRow
  <2> QED BY <1>2, <2>1, <2>6 DEF NoTxn
<1>6. CASE \E want \in [Classes -> 0 .. MaxCapacity] : EditLockFlight(m, want)
  <2>1. PICK want \in [Classes -> 0 .. MaxCapacity] : EditLockFlight(m, want)
    BY <1>6
  <2>2. t = [NoTxn EXCEPT !.op = "edit", !.pc = "classes", !.want = want]
    BY <1>1, <2>1, EditLocksFlight
  <2>3. t.pc = "classes" /\ seats' = seats
    BY <2>1, <2>2, NoTxnShape DEF Transaction, EditLockFlight, rows
  <2> QED BY <1>3, <2>3
<1>7. CASE EditLockClass(m)
  BY <1>1, <1>3, <1>7, EditLocksClass DEF EditLockClass, Doing, rows
<1>8. CASE EditRead(m)
  <2>1. seats' = seats
    BY <1>8 DEF EditRead, rows
  <2>2. t = NoTxn \/ (t.pc = "save" /\ OneClassPerRow(Becomes(t)))
    BY <1>1, <1>8, EditReads
  <2>3. CASE t = NoTxn
    BY <1>3, <2>1, <2>3 DEF NoTxn
  <2>4. CASE t.pc = "save" /\ OneClassPerRow(Becomes(t))
    <3>1. OneClassPerRow((seats' \ t.removed) \cup t.added)
      BY <2>1, <2>4 DEF Becomes
    <3> QED BY <1>1, <1>2, <2>1, <2>4, <3>1
  <2> QED BY <2>2, <2>3, <2>4
<1>9. CASE SaveClasses(m)
  <2>1. t = NoTxn /\ seats' = Becomes(txn[m]) /\ txn[m].pc = "save"
    BY <1>1, <1>9, Saves
  <2>2. OneClassPerRow(seats')
    BY <1>1, <2>1 DEF RowHas
  <2> QED BY <1>2, <2>1, <2>2 DEF NoTxn
<1>10. CASE RecountBegin(m)
  BY <1>1, <1>3, <1>10, RecountBegins DEF RecountBegin, rows
<1>11. CASE RecountExpire(m)
  <2>1. seats' = seats
    BY <1>1, <1>11, Expires DEF rows
  <2>2. t.pc \in {"none", "class"}
    BY <1>1, <1>11, Expires
  <2> QED BY <1>3, <2>1, <2>2
<1>12. CASE RecountSum(m)
  BY <1>1, <1>3, <1>12, RecountSums DEF RecountSum, rows
<1>13. CASE RecountFlags(m)
  <2>1. t.pc \in {"none", "class"} /\ seats' = seats
    BY <1>1, <1>13, Flags
  <2> QED BY <1>3, <2>1
<1>14. CASE \E c \in Classes, n \in 0 .. MaxCapacity : AdminRead(m, c, n)
  BY <1>14 DEF AdminRead, NoAdmin
<1>15. CASE AdminUpdate(m)
  BY <1>1, <1>15 DEF AdminUpdate, Doing, CabinInv, Steps, Phase, NoAdmin
<1> QED BY <1>4, <1>5, <1>6, <1>7, <1>8, <1>9, <1>10, <1>11, <1>12, <1>13, <1>14, <1>15 DEF Manager

\* So is the first cabin.
LEMMA InitRow == Init => RowInv
BY InitCabin, FirstCabin DEF RowInv, RowHas, Init, NoTxn

\* Every step leaves every row to one class.
LEMMA RowIsKept ==
    ASSUME NoAdmin, RowInv, [Next]_vars
    PROVE  RowInv'
<1>1. CabinInv /\ CabinInv'
  BY CabinIsKept DEF RowInv
<1>2. CASE (\A k \in Managers : Foreign(k)) /\ UNCHANGED <<capacity, seats>>
  <2>1. \A m \in Managers : RowHas(m)'
    BY <1>2, ForeignRow
  <2>2. OneClassPerRow(seats)'
    BY <1>2 DEF RowInv, OneClassPerRow, RowOf
  <2> QED BY <1>1, <2>1, <2>2 DEF RowInv
<1>3. CASE \E m \in Managers : Manager(m) /\ \A k \in Managers \ {m} : Foreign(k)
  <2>1. PICK m \in Managers : Manager(m) /\ \A k \in Managers \ {m} : Foreign(k)
    BY <1>3
  <2>2. \A k \in Managers \ {m} : RowHas(k)'
    BY <2>1, ForeignRow
  <2>3. OneClassPerRow(seats)' /\ RowHas(m)'
    BY <2>1, ManagersRow
  <2> QED BY <1>1, <2>2, <2>3 DEF RowInv
<1> QED BY <1>1, <1>2, <1>3, WhoSteps

\* It has the property in it.
LEMMA RowsOfRowInv == RowInv => RowsAreOfOneClass
BY DEF RowInv, OneClassPerRow, RowsAreOfOneClass

\* No row of the cabin is shared by two classes: a class that grows goes on in a
\* row of its own, and generation begins behind every row there is, which it
\* counted under the lock of the Flight; the Django admin, which takes no such
\* lock, is left out.
THEOREM RowsStayApart == NoAdmin /\ Spec => []RowsAreOfOneClass
<1>1. ASSUME NoAdmin PROVE Spec => []RowsAreOfOneClass
  <2>1. RowInv /\ [Next]_vars => RowInv'
    BY <1>1, RowIsKept
  <2> QED BY <2>1, InitRow, RowsOfRowInv, PTL DEF Spec
<1> QED BY <1>1

-----------------------------------------------------------------------------
(* The counter and the flags.                                              *)

\* Nobody writes the counter or a flag without the locks of the booking path.
NoDrift == {"admin", "recount", "handEdit"} \cap Ops = {}

EditHas(m) ==
    txn[m].pc = "save" =>
      \A c \in txn[m].classes : txn[m].derived[c] = txn[m].want[c] - Cardinality(SeatsOf(Linked, c))

CounterInv == CabinInv /\ CounterAndFlagsMatchLinks /\ \A m \in Managers : EditHas(m)

\* A class nobody touches stays in agreement.
LEMMA KeptAgrees ==
    ASSUME NEW c \in Classes, Kept(c), InAgreement(c)
    PROVE  InAgreement(c)'
<1>1. SeatsOf(seats', c) \ Linked' = SeatsOf(seats, c) \ Linked
  BY DEF Kept, SeatsOf
<1> QED BY <1>1 DEF Kept, InAgreement

\* The others do not change what a form has derived its counters from.
LEMMA ForeignEdit ==
    ASSUME CounterInv, NEW m \in Managers, Foreign(m)
    PROVE  EditHas(m)'
<1> PICK t \in Transaction : t = txn[m] /\ t = txn'[m]
  BY DEF CounterInv, CabinInv, Shape, Foreign
<1> SUFFICES ASSUME t.pc = "save", NEW c \in t.classes
             PROVE  t.derived[c] = t.want[c] - Cardinality(SeatsOf(Linked', c))
  BY DEF EditHas
<1>1. lock[c] = m /\ c \in Classes
  BY DEF CounterInv, CabinInv, Steps, SaveHas, Saved, Transaction
<1>2. SeatsOf(Linked', c) = SeatsOf(Linked, c)
  BY <1>1 DEF Foreign, Kept
<1> QED BY <1>2 DEF CounterInv, EditHas

\* A booking takes as many from the counter as seats.
LEMMA BooksAgree ==
    ASSUME CounterInv, NEW r \in Refs, NEW c \in Classes, NEW S \in SUBSET SeatsOf(free, c), Book(r, c, S)
    PROVE  CounterAndFlagsMatchLinks'
<1>1. CabinInv /\ CounterAndFlagsMatchLinks
  BY DEF CounterInv
<1>2. /\ Linked' = Linked \cup S /\ S \cap Linked = {} /\ IsFiniteSet(S)
      /\ \A d \in Classes : d # c => Kept(d)
      /\ available'[c] = available[c] - Cardinality(S)
  BY <1>1, Books
<1>3. capacity' = capacity /\ seats' = seats /\ free' = free \ S
  BY DEF Book
<1> PICK B : B = SeatsOf(Linked, c) /\ IsFiniteSet(B)
  BY <1>1, HeldSeatsFacts
<1>4. SeatsOf(Linked', c) = B \cup S /\ B \cap S = {}
  BY <1>2 DEF SeatsOf
<1>5. Cardinality(B \cup S) = Cardinality(B) + Cardinality(S)
  <2>1. Cardinality(B \cup S) = Cardinality(B) + Cardinality(S) - Cardinality(B \cap S)
    BY <1>2, FS_Union
  <2>2. Cardinality(B) \in Nat /\ Cardinality(S) \in Nat /\ Cardinality(B \cap S) = 0
    BY <1>2, <1>4, FS_CardinalityType, FS_EmptySet
  <2> QED BY <2>1, <2>2
<1>6. available[c] = capacity[c] - Cardinality(B) /\ SeatsOf(free, c) = SeatsOf(seats, c) \ Linked
  BY <1>1 DEF CounterAndFlagsMatchLinks, InAgreement
<1>7. SeatsOf(free', c) = SeatsOf(seats', c) \ Linked'
  BY <1>2, <1>3, <1>6 DEF SeatsOf
<1>8. Cardinality(B) \in Nat /\ Cardinality(S) \in Nat /\ capacity[c] \in Nat
  BY <1>1, <1>2, FS_CardinalityType, CapacitiesAreNumbers DEF CabinInv, Shape
<1>9. available'[c] = capacity'[c] - Cardinality(SeatsOf(Linked', c))
  <2> PICK b \in Nat, s \in Nat, n \in Nat : b = Cardinality(B) /\ s = Cardinality(S) /\ n = capacity[c]
    BY <1>8
  <2>1. Cardinality(SeatsOf(Linked', c)) = b + s
    BY <1>4, <1>5
  <2>2. available'[c] = (n - b) - s /\ capacity'[c] = n
    BY <1>2, <1>3, <1>6
  <2>3. (n - b) - s = n - (b + s)
    OBVIOUS
  <2> QED BY ONLY <2>1, <2>2, <2>3
<1>10. InAgreement(c)'
  BY <1>7, <1>9 DEF InAgreement
<1>11. \A d \in Classes \ {c} : InAgreement(d)'
  BY <1>1, <1>2, KeptAgrees DEF CounterAndFlagsMatchLinks
<1> QED BY <1>10, <1>11 DEF CounterAndFlagsMatchLinks

\* A release gives back as many as seats.
LEMMA ReleasesAgree ==
    ASSUME CounterInv, NEW r \in Refs, Release(r)
    PROVE  CounterAndFlagsMatchLinks'
<1>1. CabinInv /\ CounterAndFlagsMatchLinks /\ capacity' = capacity /\ seats' = seats
  BY DEF CounterInv, Release
<1> PICK c : c = hold[r].class
  OBVIOUS
<1> PICK S : S = hold[r].seats
  OBVIOUS
<1>2. /\ c \in Classes /\ \A d \in Classes : d # c => Kept(d)
      /\ S \subseteq SeatsOf(Linked, c) /\ IsFiniteSet(S) /\ Linked' = Linked \ S
      /\ available'[c] = available[c] + Cardinality(S) /\ free' = free \cup S
  BY <1>1, GivesBack DEF Release
<1> PICK B : B = SeatsOf(Linked, c) /\ IsFiniteSet(B) /\ B \subseteq SeatsOf(seats, c)
  BY <1>1, <1>2, HeldSeatsFacts
<1>3. SeatsOf(Linked', c) = B \ S /\ B \cap S = S
  BY <1>2 DEF SeatsOf
<1>4. Cardinality(B \ S) = Cardinality(B) - Cardinality(S)
  <2>1. Cardinality(B \ S) = Cardinality(B) - Cardinality(B \cap S)
    BY ONLY IsFiniteSet(B), FS_Difference
  <2> QED BY ONLY <1>3, <2>1
<1>5. available[c] = capacity[c] - Cardinality(B) /\ SeatsOf(free, c) = SeatsOf(seats, c) \ Linked
  BY <1>1, <1>2 DEF CounterAndFlagsMatchLinks, InAgreement
<1>6. SeatsOf(free', c) = SeatsOf(seats', c) \ Linked'
  BY <1>1, <1>2, <1>5 DEF SeatsOf
<1>7. Cardinality(B) \in Nat /\ Cardinality(S) \in Nat /\ capacity[c] \in Nat
  BY <1>1, <1>2, FS_CardinalityType, CapacitiesAreNumbers DEF CabinInv, Shape
<1>8. available'[c] = capacity'[c] - Cardinality(SeatsOf(Linked', c))
  <2> PICK b \in Nat, s \in Nat, n \in Nat : b = Cardinality(B) /\ s = Cardinality(S) /\ n = capacity[c]
    BY <1>7
  <2>1. Cardinality(SeatsOf(Linked', c)) = b - s
    BY <1>3, <1>4
  <2>2. available'[c] = (n - b) + s /\ capacity'[c] = n
    BY <1>1, <1>2, <1>5
  <2>3. (n - b) + s = n - (b - s)
    OBVIOUS
  <2> QED BY ONLY <2>1, <2>2, <2>3
<1>9. InAgreement(c)'
  BY <1>6, <1>8 DEF InAgreement
<1>10. \A d \in Classes \ {c} : InAgreement(d)'
  BY <1>1, <1>2, KeptAgrees DEF CounterAndFlagsMatchLinks
<1> QED BY <1>9, <1>10 DEF CounterAndFlagsMatchLinks

\* Generated seats are free, and their class had none.
LEMMA InsertsAgree ==
    ASSUME CounterInv, NEW m \in Managers, GenerateInsert(m)
    PROVE  CounterAndFlagsMatchLinks' /\ EditHas(m)'
<1>1. CabinInv /\ CounterAndFlagsMatchLinks
  BY DEF CounterInv
<1> PICK N : N = Generated(seats, txn[m].row, txn[m].want)
  OBVIOUS
<1>2. /\ txn'[m] = NoTxn /\ Linked' = Linked /\ capacity' = capacity /\ available' = available
      /\ seats' = seats \cup N /\ free' = free \cup N /\ N \cap seats = {}
  BY <1>1, Inserts
<1>3. ASSUME NEW c \in Classes
      PROVE  InAgreement(c)'
  <2>1. SeatsOf(Linked, c) \subseteq SeatsOf(seats, c)
    BY <1>1, HeldSeatsFacts
  <2>2. /\ available[c] = capacity[c] - Cardinality(SeatsOf(Linked, c))
        /\ SeatsOf(free, c) = SeatsOf(seats, c) \ Linked
    BY <1>1 DEF CounterAndFlagsMatchLinks, InAgreement
  <2>3. SeatsOf(free', c) = SeatsOf(seats', c) \ Linked'
    BY <1>2, <2>1, <2>2 DEF SeatsOf
  <2> QED BY <1>2, <2>2, <2>3 DEF InAgreement
<1> QED BY <1>2, <1>3 DEF CounterAndFlagsMatchLinks, EditHas, NoTxn

\* A form changes counter, seats and capacity by the same number.
LEMMA SavesAgree ==
    ASSUME CounterInv, NEW m \in Managers, SaveClasses(m)
    PROVE  CounterAndFlagsMatchLinks' /\ EditHas(m)'
<1>1. CabinInv /\ CounterAndFlagsMatchLinks /\ EditHas(m)
  BY DEF CounterInv
<1> PICK t : t = txn[m]
  OBVIOUS
<1>2. /\ txn'[m] = NoTxn /\ Linked' = Linked /\ t.pc = "save" /\ t.classes \subseteq Classes
      /\ seats' = (seats \ t.removed) \cup t.added /\ free' = (free \ t.removed) \cup t.added
      /\ \A c \in t.classes : capacity'[c] = t.want[c] /\ available'[c] = t.derived[c]
      /\ \A c \in Classes \ t.classes : Kept(c)
  BY <1>1, Saves DEF Becomes
<1>3. ASSUME NEW c \in t.classes
      PROVE  InAgreement(c)'
  <2>1. c \in Classes /\ SeatsOf(Linked, c) \subseteq SeatsOf(seats, c)
    BY <1>1, <1>2, HeldSeatsFacts
  <2>2. Saved(m, c)
    BY <1>1, <1>2 DEF CabinInv, Steps, SaveHas
  <2>3. /\ SeatsOf(t.removed, c) \cap SeatsOf(Linked, c) = {}
        /\ SeatsOf(t.added, c) \cap SeatsOf(seats, c) = {}
    BY <2>2 DEF Saved
  <2>4. SeatsOf(free, c) = SeatsOf(seats, c) \ Linked
    BY <1>1, <2>1 DEF CounterAndFlagsMatchLinks, InAgreement
  <2>5. SeatsOf(free', c) = SeatsOf(seats', c) \ Linked'
    <3>1. SeatsOf(free', c) = (SeatsOf(free, c) \ SeatsOf(t.removed, c)) \cup SeatsOf(t.added, c)
      BY <1>2 DEF SeatsOf
    <3>2. SeatsOf(seats', c) = (SeatsOf(seats, c) \ SeatsOf(t.removed, c)) \cup SeatsOf(t.added, c)
      BY <1>2 DEF SeatsOf
    <3>3. \A x : x \in SeatsOf(t.added, c) => x \notin Linked
      BY <2>1, <2>3 DEF SeatsOf
    <3> QED BY <1>2, <2>4, <3>1, <3>2, <3>3
  <2>6. available'[c] = capacity'[c] - Cardinality(SeatsOf(Linked', c))
    BY <1>1, <1>2 DEF EditHas
  <2> QED BY <2>5, <2>6 DEF InAgreement
<1>4. \A c \in Classes \ t.classes : InAgreement(c)'
  BY <1>1, <1>2, KeptAgrees DEF CounterAndFlagsMatchLinks
<1> QED BY <1>2, <1>3, <1>4 DEF CounterAndFlagsMatchLinks, EditHas, NoTxn

\* The counter a form derives fits the seats it will leave.
LEMMA EditsAgree ==
    ASSUME CounterInv, NEW m \in Managers, EditRead(m)
    PROVE  EditHas(m)'
<1>1. CabinInv /\ CounterAndFlagsMatchLinks /\ Linked' = Linked
  BY DEF CounterInv, EditRead, rows, Linked
<1> PICK t : t = txn'[m]
  OBVIOUS
<1>2. \/ t = NoTxn
      \/ \A c \in Classes : t.derived[c] = t.want[c] - (capacity[c] - available[c])
  BY <1>1, EditReads
<1>3. t.classes \subseteq Classes
  BY <1>1, EditReads DEF GoesOn, CabinInv, Shape, Transaction
<1>4. CASE t = NoTxn
  BY <1>4 DEF EditHas, NoTxn
<1>5. CASE \A c \in Classes : t.derived[c] = t.want[c] - (capacity[c] - available[c])
  <2>1. \A c \in Classes : capacity[c] - available[c] = Cardinality(SeatsOf(Linked, c))
    <3> TAKE c \in Classes
    <3>1. available[c] = capacity[c] - Cardinality(SeatsOf(Linked, c))
      BY <1>1 DEF CounterAndFlagsMatchLinks, InAgreement
    <3>2. capacity[c] \in Nat /\ Cardinality(SeatsOf(Linked, c)) \in Nat
      BY <1>1, HeldSeatsFacts, CapacitiesAreNumbers DEF CabinInv, Shape
    <3> QED BY <3>1, <3>2
  <2> QED BY <1>1, <1>3, <1>5, <2>1 DEF EditHas
<1> QED BY <1>2, <1>4, <1>5

\* A step that changes no row.
LEMMA RowsAgree ==
    ASSUME CounterInv, UNCHANGED rows
    PROVE  CounterAndFlagsMatchLinks'
<1>1. /\ capacity' = capacity /\ available' = available /\ seats' = seats
      /\ free' = free /\ Linked' = Linked
  BY DEF rows, Linked
<1>2. \A c \in Classes : Kept(c)
  BY <1>1 DEF Kept
<1> QED BY <1>2, KeptAgrees DEF CounterInv, CounterAndFlagsMatchLinks

\* Every step of a manager keeps counter and flags right.
LEMMA ManagersAgree ==
    ASSUME NoDrift, CounterInv, NEW m \in Managers, Manager(m)
    PROVE  CounterAndFlagsMatchLinks' /\ EditHas(m)'
<1>1. CabinInv
  BY DEF CounterInv
<1>2. CASE GenerateRead(m)
  <2>1. txn'[m] = [NoTxn EXCEPT !.op = "generate", !.pc = "insert",
                                !.want = capacity, !.row = LastRow(seats) + 1]
    BY <1>1, <1>2, GenerateReads
  <2>2. txn'[m].pc = "insert"
    BY <2>1, NoTxnShape DEF Transaction
  <2> QED BY <1>2, <2>2, RowsAgree DEF GenerateRead, EditHas
<1>3. CASE GenerateInsert(m)
  BY <1>3, InsertsAgree
<1>4. CASE \E want \in [Classes -> 0 .. MaxCapacity] : EditLockFlight(m, want)
  <2>1. PICK want \in [Classes -> 0 .. MaxCapacity] : EditLockFlight(m, want)
    BY <1>4
  <2>2. txn'[m] = [NoTxn EXCEPT !.op = "edit", !.pc = "classes", !.want = want]
    BY <1>1, <2>1, EditLocksFlight
  <2>3. txn'[m].pc = "classes"
    BY <2>2, NoTxnShape DEF Transaction
  <2> QED BY <2>1, <2>3, RowsAgree DEF EditLockFlight, EditHas
<1>5. CASE EditLockClass(m)
  <2>1. txn[m].pc = "classes" /\ UNCHANGED rows
    BY <1>5 DEF EditLockClass, Doing
  <2>2. txn'[m] = txn[m]
    BY <1>1, <1>5, EditLocksClass
  <2>3. EditHas(m)'
    BY <2>1, <2>2 DEF EditHas
  <2> QED BY <2>1, <2>3, RowsAgree
<1>6. CASE EditRead(m)
  BY <1>6, EditsAgree, RowsAgree DEF EditRead
<1>7. CASE SaveClasses(m)
  BY <1>7, SavesAgree
<1>8. CASE AdminUpdate(m) \/ RecountExpire(m) \/ RecountSum(m) \/ RecountFlags(m)
  <2>1. txn[m].op \in {"admin", "recount"}
    BY <1>8 DEF AdminUpdate, RecountExpire, RecountSum, RecountFlags, Doing
  <2>2. Phase(m)
    BY <1>1 DEF CabinInv, Steps
  <2>3. txn[m].op = "admin" => "admin" \in Ops
    BY <2>2 DEF Phase
  <2>4. txn[m].op = "recount" => "recount" \in Ops
    BY <2>2 DEF Phase
  <2> QED BY ONLY <2>1, <2>3, <2>4, NoDrift DEF NoDrift
<1>9. CASE RecountBegin(m) \/ \E c \in Classes, n \in 0 .. MaxCapacity : AdminRead(m, c, n)
  BY <1>9 DEF RecountBegin, AdminRead, NoDrift
<1> QED BY <1>2, <1>3, <1>4, <1>5, <1>6, <1>7, <1>8, <1>9 DEF Manager

\* They are right in the beginning.
LEMMA InitCounter == Init => CounterInv
<1> SUFFICES ASSUME Init PROVE CounterInv
  OBVIOUS
<1>1. CabinInv /\ available = capacity /\ free = seats
  BY InitCabin DEF Init
<1>2. Linked = {}
  BY DEF Init, Linked, NoHold
<1>3. \A c \in Classes : InAgreement(c)
  <2> TAKE c \in Classes
  <2>1. SeatsOf(Linked, c) = {} /\ Cardinality(SeatsOf(Linked, c)) = 0
    BY <1>2, FS_EmptySet DEF SeatsOf
  <2>2. capacity[c] \in Nat
    BY <1>1, CapacitiesAreNumbers DEF CabinInv, Shape
  <2> QED BY <1>1, <1>2, <2>1, <2>2 DEF InAgreement
<1>4. \A m \in Managers : EditHas(m)
  BY DEF EditHas, Init, NoTxn
<1> QED BY <1>1, <1>3, <1>4 DEF CounterInv, CounterAndFlagsMatchLinks

\* Every step keeps them right.
LEMMA CounterIsKept ==
    ASSUME NoDrift, CounterInv, [Next]_vars
    PROVE  CounterInv'
<1>1. CabinInv /\ CabinInv'
  BY CabinIsKept DEF CounterInv
<1>2. CASE Customer
  <2>1. \A m \in Managers : EditHas(m)'
    BY <1>1, <1>2, Customers, ForeignEdit
  <2>2. CounterAndFlagsMatchLinks'
    <3>1. CASE \E r \in Refs, c \in Classes : \E S \in SUBSET SeatsOf(free, c) : Book(r, c, S)
      BY <3>1, BooksAgree
    <3>2. CASE \E r \in Refs : BeginPay(r) \/ FinishPay(r) \/ Lapse(r)
      <4>1. UNCHANGED <<capacity, available, seats, free>> /\ Linked' = Linked
        BY <1>1, <3>2, HoldsGoOn
      <4>2. \A c \in Classes : Kept(c)
        BY <4>1 DEF Kept
      <4> QED BY <4>2, KeptAgrees DEF CounterInv, CounterAndFlagsMatchLinks
    <3>3. CASE \E r \in Refs : Release(r)
      BY <3>3, ReleasesAgree
    <3> QED BY <1>2, <3>1, <3>2, <3>3 DEF Customer
  <2> QED BY <1>1, <2>1, <2>2 DEF CounterInv
<1>3. CASE \E m \in Managers : Manager(m)
  <2>1. PICK m \in Managers : Manager(m)
    BY <1>3
  <2>2. \A k \in Managers \ {m} : EditHas(k)'
    BY <1>1, <2>1, ManagersGoOn, ForeignEdit DEF GoesOn
  <2>3. CounterAndFlagsMatchLinks' /\ EditHas(m)'
    BY <2>1, ManagersAgree
  <2> QED BY <1>1, <2>2, <2>3 DEF CounterInv
<1>4. CASE \E c \in Classes : HandEdit(c)
  BY <1>4 DEF HandEdit, NoDrift
<1>5. CASE UNCHANGED vars
  <2>1. \A m \in Managers : EditHas(m)'
    BY <1>1, <1>5, Idles, ForeignEdit
  <2> QED BY <1>1, <1>5, <2>1, RowsAgree DEF CounterInv, vars
<1> QED BY <1>2, <1>3, <1>4, <1>5 DEF Next, Quiet

\* It has the property in it.
LEMMA CounterIsRight == CounterInv => CounterAndFlagsMatchLinks
BY DEF CounterInv

\* The counter, the flags and the reservations of every class agree, whichever
\* managers edit capacities in the dashboard and generate seats while customers
\* book, pay and leave.  Left out are those who write without the locks of the
\* booking path, and the recount, which does not count an overdue reservation.
THEOREM CounterIsExact == NoDrift /\ Spec => []CounterAndFlagsMatchLinks
<1>1. ASSUME NoDrift PROVE Spec => []CounterAndFlagsMatchLinks
  <2>1. CounterInv /\ [Next]_vars => CounterInv'
    BY <1>1, CounterIsKept
  <2> QED BY <2>1, InitCounter, CounterIsRight, PTL DEF Spec
<1> QED BY <1>1

=============================================================================
