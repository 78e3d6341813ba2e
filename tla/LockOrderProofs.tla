--------------------------- MODULE LockOrderProofs ---------------------------
(***************************************************************************)
(* The transactions of customers, of the dashboard, of the commands and of *)
(* the admin's saves (LockOrder!Usual) cannot deadlock, however many       *)
(* processes, flights, classes, reservations and users there are.  The     *)
(* hypothesis NoAdminPages leaves out what is known to deadlock: the       *)
(* cancellation of a flight, deletions, and moving a class to another      *)
(* flight, in the Django admin.  Rows are locked level by level; only the  *)
(* classes of a flight are of the same level, and whoever locks two of     *)
(* them has locked their flight.  In a waiting circle, take a row of the   *)
(* highest level somebody waits for: its holder waits for a row of the     *)
(* same level, so it holds the flight; and so does the holder of that row. *)
(***************************************************************************)
EXTENDS LockOrder, TLAPS, FiniteSetTheorems, WellFoundedInduction

USE DEF Rows

\* No page of the admin that cancels a flight, deletes, or moves a class.
NoAdminPages == Ops \cap {"adminCancel", "adminDelete", "adminMove"} = {}

\* Reservation -> Flight -> SeatClass -> User, and the flights as an UPDATE of
\* several of them meets them.
ClassLevel == Cardinality(Flights) + 1

Level(row) ==
    IF row \in Reservations THEN 0
    ELSE IF row \in Flights THEN ScanOrder[row]
    ELSE IF row \in Classes THEN ClassLevel
    ELSE ClassLevel + 1

\* Classes of one flight: only who has the flight's lock takes more than one.
SameFlight(a, b) == a \in Classes /\ b \in Classes /\ FlightOf[a] = FlightOf[b]

\* Every transaction locks level by level; before two classes it locks their
\* flight, or (H) it holds that flight already.
InOrder(t, H) ==
    /\ t \in Seq(Rows)
    /\ \A i, j \in 1 .. Len(t) : i < j =>
          \/ Level(t[i]) < Level(t[j])
          \/ SameFlight(t[i], t[j]) /\ (FlightOf[t[i]] \in H \/ t[1] = FlightOf[t[i]])

\* What a process has locked comes before all it has still to lock.
Ordered ==
    /\ lock \in [Rows -> Processes \cup {None}]
    /\ plan \in [Processes -> Seq(Rows)]
    /\ \A p \in Processes : InOrder(plan[p], Held(p))
    /\ \A p \in Processes, row \in Rows : lock[row] = p =>
          \A i \in 1 .. Len(plan[p]) :
             \/ Level(row) < Level(plan[p][i])
             \/ SameFlight(row, plan[p][i]) /\ lock[FlightOf[row]] = p

-----------------------------------------------------------------------------

\* The levels of the rows of each kind.
LEMMA Levels ==
    /\ ClassLevel \in Nat
    /\ \A r \in Reservations : Level(r) = 0
    /\ \A f \in Flights : Level(f) = ScanOrder[f] /\ Level(f) \in 1 .. ClassLevel - 1
    /\ \A c \in Classes : Level(c) = ClassLevel /\ FlightOf[c] \in Flights
    /\ \A u \in Users : Level(u) = ClassLevel + 1
    /\ \A row \in Rows : Level(row) \in 0 .. ClassLevel + 1
<1>1. Cardinality(Flights) \in Nat
  BY LockOrderAssumption, FS_CardinalityType
<1>2. \A f \in Flights : ScanOrder[f] \in 1 .. Cardinality(Flights)
  BY LockOrderAssumption
<1> QED BY LockOrderAssumption, <1>1, <1>2 DEF Level, ClassLevel

Less == {pair \in Nat \X Nat : pair[1] < pair[2]}

\* A set of natural numbers has a least element.
LEMMA Least ==
    ASSUME NEW D \in SUBSET Nat, D # {}
    PROVE  \E m \in D : \A n \in D : m <= n
<1>1. IsWellFoundedOn(Less, Nat)
  BY NatLessThanWellFounded DEF OpToRel, Less
<1>2. D \subseteq Nat /\ D # {}
  OBVIOUS
<1>3. PICK m \in D : \A n \in D : <<n, m>> \notin Less
  BY <1>1, <1>2, WFMin
<1>4. \A n \in D : ~ (n < m)
  <2> TAKE n \in D
  <2>1. n \in Nat /\ m \in Nat
    BY <1>2
  <2>2. n < m => <<n, m>> \in Less
    BY <2>1 DEF Less
  <2> QED BY <1>3, <2>2
<1> QED BY <1>2, <1>4

\* Some row of T is of the highest level in T.
LEMMA HighestLevel ==
    ASSUME NEW T \in SUBSET Rows, T # {}
    PROVE  \E row \in T : \A other \in T : Level(other) <= Level(row)
<1> DEFINE Below(row) == ClassLevel + 1 - Level(row)
           D == {Below(row) : row \in T}
<1>1. \A row \in T : Level(row) \in Int /\ Below(row) \in Nat
  BY Levels
<1>2. D \in SUBSET Nat /\ D # {}
  BY <1>1
<1>3. PICK m \in D : \A n \in D : m <= n
  <2> HIDE DEF D
  <2> QED BY <1>2, Least
<1>4. PICK row \in T : m = Below(row)
  OBVIOUS
<1>5. \A other \in T : Below(row) <= Below(other)
  BY <1>3, <1>4
<1>6. ClassLevel \in Nat
  BY Levels
<1> QED BY <1>1, <1>5, <1>6

-----------------------------------------------------------------------------

\* A plan of one row is in order.
LEMMA OneInOrder == \A a \in Rows : InOrder(<<a>>, {})
  BY DEF InOrder

\* A plan of two rows of ascending level is in order.
LEMMA TwoInOrder ==
    ASSUME NEW a \in Rows, NEW b \in Rows, Level(a) < Level(b)
    PROVE  InOrder(<<a, b>>, {})
  BY DEF InOrder

\* A plan of three rows of ascending level is in order.
LEMMA ThreeInOrder ==
    ASSUME NEW a \in Rows, NEW b \in Rows, NEW c \in Rows,
           Level(a) < Level(b), Level(b) < Level(c)
    PROVE  InOrder(<<a, b, c>>, {})
<1> DEFINE t == <<a, b, c>>
<1>1. t \in Seq(Rows) /\ Len(t) = 3 /\ t[1] = a /\ t[2] = b /\ t[3] = c
  OBVIOUS
<1>2. Level(a) \in Int /\ Level(b) \in Int /\ Level(c) \in Int
  BY Levels
<1> HIDE DEF t
<1>3. ASSUME NEW i \in 1 .. 3, NEW j \in 1 .. 3, i < j PROVE Level(t[i]) < Level(t[j])
  <2>1. (i = 1 /\ j = 2) \/ (i = 1 /\ j = 3) \/ (i = 2 /\ j = 3)
    BY <1>3
  <2> QED BY <2>1, <1>1, <1>2
<1>4. InOrder(t, {})
  BY <1>1, <1>3 DEF InOrder
<1> QED BY <1>4 DEF t

\* A flight, then any of its classes in any order.
LEMMA EditInOrder ==
    ASSUME NEW f \in Flights, NEW n \in Nat, NEW order \in Orders(ClassesOf(f), n)
    PROVE  InOrder(<<f>> \o order, {})
<1> DEFINE t == <<f>> \o order
<1>1. order \in [1 .. n -> ClassesOf(f)]
  BY DEF Orders
<1>2. \A i \in 1 .. n : order[i] \in Classes /\ FlightOf[order[i]] = f
  BY <1>1 DEF ClassesOf
<1>3. order \in Seq(Classes) /\ Len(order) = n
  BY <1>1, <1>2
<1>4. t \in Seq(Rows) /\ Len(t) = n + 1 /\ t[1] = f /\ \A i \in 2 .. n + 1 : t[i] = order[i - 1]
  BY <1>3
<1> HIDE DEF t
<1>5. \A i \in 2 .. n + 1 : t[i] \in Classes /\ FlightOf[t[i]] = f
  BY <1>2, <1>4
<1>6. ASSUME NEW i \in 1 .. n + 1, NEW j \in 1 .. n + 1, i < j
      PROVE  Level(t[i]) < Level(t[j]) \/ (SameFlight(t[i], t[j]) /\ t[1] = FlightOf[t[i]])
  <2>1. t[j] \in Classes /\ FlightOf[t[j]] = f
    BY <1>5, <1>6
  <2>2. CASE i = 1
    BY <2>1, <2>2, <1>4, Levels
  <2>3. CASE i # 1
    BY <2>1, <2>3, <1>4, <1>5, <1>6 DEF SameFlight
  <2> QED BY <2>2, <2>3
<1> QED BY <1>4, <1>6 DEF InOrder, t

\* The flights of one status update are in order.
LEMMA SyncInOrder ==
    ASSUME NEW t \in Sync
    PROVE  InOrder(t, {})
<1>1. PICK n \in 1 .. Cardinality(Flights) : t \in Orders(Flights, n)
  BY DEF Sync
<1>2. n \in Nat
  BY LockOrderAssumption, FS_CardinalityType
<1>3. t \in [1 .. n -> Flights]
  BY <1>1 DEF Orders
<1>4. t \in Seq(Rows) /\ Len(t) = n /\ DOMAIN t = 1 .. n
  BY <1>2, <1>3
<1>5. \A i, j \in 1 .. n : i < j => ScanOrder[t[i]] < ScanOrder[t[j]]
  BY <1>4 DEF Sync
<1>6. \A i \in 1 .. n : Level(t[i]) = ScanOrder[t[i]]
  BY <1>3, Levels
<1> QED BY <1>4, <1>5, <1>6 DEF InOrder

\* Every transaction of Usual is in order.
LEMMA TransactionsInOrder ==
    ASSUME NoAdminPages, NEW t \in Transactions
    PROVE  InOrder(t, {})
<1> USE LockOrderAssumption, Levels
<1>0. t \in Usual
  BY DEF Transactions, NoAdminPages
<1>1. CASE t \in Booking
  BY <1>1, TwoInOrder DEF Booking
<1>2. CASE t \in Payment
  BY <1>2, TwoInOrder DEF Payment
<1>3. CASE t \in Release
  BY <1>3, ThreeInOrder DEF Release
<1>4. CASE t \in Passengers
  BY <1>4, TwoInOrder DEF Passengers
<1>5. CASE t \in FlightEdit
  <2>1. PICK f \in Flights, n \in 0 .. Cardinality(Classes) : t \in EditOf(f, n)
    BY <1>5 DEF FlightEdit
  <2>2. PICK order \in Orders(ClassesOf(f), n) : t = <<f>> \o order
    BY <2>1 DEF EditOf
  <2>3. n \in Nat
    BY FS_CardinalityType
  <2> QED BY <2>2, <2>3, EditInOrder
<1>6. CASE t \in OneRow
  BY <1>6, OneInOrder DEF OneRow
<1>7. CASE t \in Sync
  BY <1>7, SyncInOrder
<1> QED BY <1>0, <1>1, <1>2, <1>3, <1>4, <1>5, <1>6, <1>7 DEF Usual

-----------------------------------------------------------------------------
(* The invariant.                                                          *)

\* At first nobody holds or plans anything.
LEMMA InitOrdered == Init => Ordered
  BY LockOrderAssumption DEF Init, Ordered, InOrder

\* Holding more flights does no harm.
LEMMA MoreHeld ==
    ASSUME NEW t, NEW H, NEW G, H \subseteq G, InOrder(t, H)
    PROVE  InOrder(t, G)
  BY DEF InOrder

\* A process takes up a transaction while it holds nothing.
LEMMA BeginOrdered ==
    ASSUME NoAdminPages, Ordered, NEW p \in Processes, Begin(p)
    PROVE  Ordered'
<1>1. PICK t \in Transactions : plan' = [plan EXCEPT ![p] = t]
  BY DEF Begin
<1>2. InOrder(t, {}) /\ t \in Seq(Rows)
  BY TransactionsInOrder DEF InOrder
<1>3. \A row \in Rows : lock[row] # p
  BY DEF Begin, Idle, Held
<1>4. lock' = lock /\ \A q \in Processes : Held(q)' = Held(q)
  BY DEF Begin, Held
<1>5. \A q \in Processes : plan'[q] = IF q = p THEN t ELSE plan[q]
  BY <1>1 DEF Ordered
<1>6. ASSUME NEW q \in Processes PROVE InOrder(plan[q], Held(q))'
  <2>1. CASE q = p
    BY <1>2, <1>4, <1>5, <2>1, MoreHeld
  <2>2. CASE q # p
    <3>1. InOrder(plan[q], Held(q)) /\ plan'[q] = plan[q] /\ Held(q)' = Held(q)
      BY <1>4, <1>5, <2>2 DEF Ordered
    <3> QED BY <3>1 DEF InOrder
  <2> QED BY <2>1, <2>2
<1>7. plan' \in [Processes -> Seq(Rows)]
  BY <1>1, <1>2 DEF Ordered
<1>8. ASSUME NEW q \in Processes, NEW row \in Rows, lock'[row] = q, NEW i \in 1 .. Len(plan'[q])
      PROVE  \/ Level(row) < Level(plan'[q][i])
             \/ SameFlight(row, plan'[q][i]) /\ lock'[FlightOf[row]] = q
  BY <1>3, <1>4, <1>5, <1>8 DEF Ordered
<1> QED BY <1>4, <1>6, <1>7, <1>8 DEF Ordered

\* The row that is locked comes before the rest of the transaction.
LEMMA LockNextOrdered ==
    ASSUME Ordered, NEW p \in Processes, LockNext(p)
    PROVE  Ordered'
<1> DEFINE t == plan[p]
           row == Head(t)
<1>1. t \in Seq(Rows) /\ t # <<>> /\ InOrder(t, Held(p))
  BY DEF Ordered, LockNext
<1>2. row \in Rows /\ row = t[1] /\ Tail(t) \in Seq(Rows) /\ Len(Tail(t)) = Len(t) - 1
      /\ Len(t) \in Nat \ {0} /\ \A i \in 1 .. Len(t) - 1 : Tail(t)[i] = t[i + 1]
  BY <1>1
<1>3. lock[row] = None /\ lock' = [lock EXCEPT ![row] = p] /\ plan' = [plan EXCEPT ![p] = Tail(t)]
  BY DEF LockNext
<1>4. Held(p)' = Held(p) \cup {row}
      /\ \A q \in Processes \ {p} : Held(q)' = Held(q) /\ plan'[q] = plan[q]
  BY <1>2, <1>3, LockOrderAssumption DEF Held, Ordered
<1>5. plan'[p] = Tail(t) /\ lock' \in [Rows -> Processes \cup {None}]
      /\ plan' \in [Processes -> Seq(Rows)]
  BY <1>2, <1>3 DEF Ordered
<1>6. InOrder(Tail(t), Held(p) \cup {row})
  <2> SUFFICES ASSUME NEW i \in 1 .. Len(t) - 1, NEW j \in 1 .. Len(t) - 1, i < j
               PROVE  \/ Level(t[i + 1]) < Level(t[j + 1])
                      \/ SameFlight(t[i + 1], t[j + 1]) /\ FlightOf[t[i + 1]] \in Held(p) \cup {row}
    BY <1>2 DEF InOrder
  <2>1. i + 1 \in 1 .. Len(t) /\ j + 1 \in 1 .. Len(t) /\ i + 1 < j + 1
    BY <1>2
  <2> QED BY <1>1, <1>2, <2>1 DEF InOrder
<1>7. ASSUME NEW q \in Processes PROVE InOrder(plan[q], Held(q))'
  <2>1. CASE q = p
    <3>1. Held(q)' = Held(p) \cup {row} /\ plan'[q] = Tail(t)
      BY <1>4, <1>5, <2>1 DEF Held
    <3> QED BY <1>6, <3>1 DEF InOrder
  <2>2. CASE q # p
    <3>1. InOrder(plan[q], Held(q)) /\ plan'[q] = plan[q] /\ Held(q)' = Held(q)
      BY <1>4, <2>2 DEF Ordered
    <3> QED BY <3>1 DEF InOrder
  <2> QED BY <2>1, <2>2
<1>8. ASSUME NEW q \in Processes, NEW other \in Rows, lock'[other] = q,
             NEW i \in 1 .. Len(plan'[q])
      PROVE  \/ Level(other) < Level(plan'[q][i])
             \/ SameFlight(other, plan'[q][i]) /\ lock'[FlightOf[other]] = q
  <2>1. \A x \in Rows : lock[x] \in Processes => lock'[x] = lock[x]
    BY <1>2, <1>3, LockOrderAssumption DEF Ordered
  <2>2. \A c \in Classes : FlightOf[c] \in Rows
    BY LockOrderAssumption
  <2>3. CASE q # p
    <3>1. lock[other] = q /\ plan'[q] = plan[q]
      BY <1>2, <1>3, <1>4, <1>8, <2>3 DEF Ordered
    <3> QED BY <1>8, <2>1, <2>2, <3>1 DEF Ordered, SameFlight
  <2>4. CASE q = p
    <3>1. i \in 1 .. Len(t) - 1 /\ i + 1 \in 1 .. Len(t) /\ 1 < i + 1 /\ plan'[q][i] = t[i + 1]
          /\ 1 \in 1 .. Len(t)
      <4>1. plan'[q] = Tail(t) /\ i \in 1 .. Len(Tail(t))
        BY <1>5, <1>8, <2>4
      <4> QED BY <1>2, <4>1
    <3>2. CASE other = row
      <4>1. \/ Level(t[1]) < Level(t[i + 1])
            \/ SameFlight(t[1], t[i + 1]) /\ (FlightOf[t[1]] \in Held(p) \/ t[1] = FlightOf[t[1]])
        BY <1>1, <3>1 DEF InOrder
      <4>2. SameFlight(t[1], t[i + 1]) => t[1] # FlightOf[t[1]]
        BY LockOrderAssumption DEF SameFlight
      <4> QED BY <1>2, <2>1, <2>4, <3>1, <3>2, <4>1, <4>2 DEF Held
    <3>3. CASE other # row
      <4>1. lock[other] = p
        BY <1>2, <1>3, <1>8, <2>4, <3>3 DEF Ordered
      <4> QED BY <2>1, <2>2, <2>4, <3>1, <4>1 DEF Ordered, SameFlight
    <3> QED BY <3>2, <3>3
  <2> QED BY <2>3, <2>4
<1> QED BY <1>5, <1>7, <1>8 DEF Ordered

\* An end gives everything back.
LEMMA EndOrdered ==
    ASSUME Ordered, NEW p \in Processes, End(p)
    PROVE  Ordered'
<1>1. lock' \in [Rows -> Processes \cup {None}] /\ plan' \in [Processes -> Seq(Rows)]
  BY DEF Ordered, End
<1>2. plan'[p] = <<>> /\ \A q \in Processes \ {p} : plan'[q] = plan[q] /\ Held(q)' = Held(q)
  BY LockOrderAssumption DEF Ordered, End, Held
<1>3. \A row \in Rows : lock'[row] # p /\ \A q \in Processes \ {p} : lock[row] = q <=> lock'[row] = q
  BY LockOrderAssumption DEF Ordered, End
<1>4. ASSUME NEW q \in Processes PROVE InOrder(plan[q], Held(q))'
  <2>1. CASE q = p
    <3>1. plan'[q] = <<>> /\ Len(<<>>) = 0 /\ plan'[q] \in Seq(Rows)
      BY <1>1, <1>2, <2>1
    <3>2. Len(plan'[q]) = 0
      BY <3>1
    <3> QED BY <3>1, <3>2 DEF InOrder
  <2>2. CASE q # p
    <3>1. InOrder(plan[q], Held(q)) /\ plan'[q] = plan[q] /\ Held(q)' = Held(q)
      BY <1>2, <2>2 DEF Ordered
    <3> QED BY <3>1 DEF InOrder
  <2> QED BY <2>1, <2>2
<1>5. ASSUME NEW q \in Processes, NEW row \in Rows, lock'[row] = q, NEW i \in 1 .. Len(plan'[q])
      PROVE  \/ Level(row) < Level(plan'[q][i])
             \/ SameFlight(row, plan'[q][i]) /\ lock'[FlightOf[row]] = q
  <2>1. q # p /\ lock[row] = q /\ plan'[q] = plan[q]
    BY <1>2, <1>3, <1>5
  <2>2. \A c \in Classes : FlightOf[c] \in Rows
    BY LockOrderAssumption
  <2> QED BY <1>3, <1>5, <2>1, <2>2 DEF Ordered, SameFlight
<1> QED BY <1>1, <1>4, <1>5 DEF Ordered

\* Ordered holds in every state: without the admin's three pages, every transaction
\* follows the lock order that tickets/services.py states, or holds the flight of
\* its classes.
THEOREM LocksAreOrdered == NoAdminPages /\ Spec => []Ordered
<1> SUFFICES ASSUME NoAdminPages PROVE Spec => []Ordered
  OBVIOUS
<1>1. Ordered /\ [Next]_vars => Ordered'
  <2> SUFFICES ASSUME Ordered, [Next]_vars PROVE Ordered'
    OBVIOUS
  <2>1. CASE UNCHANGED vars
    BY <2>1 DEF vars, Ordered, InOrder, Held
  <2>2. ASSUME NEW p \in Processes, Begin(p) \/ Continue(p) \/ GiveUp(p) PROVE Ordered'
    BY <2>2, BeginOrdered, LockNextOrdered, EndOrdered DEF Continue, Finish, GiveUp
  <2> QED BY <2>1, <2>2 DEF Next
<1> QED BY InitOrdered, <1>1, PTL DEF Spec

\* Whoever is waited for waits for a higher level, or holds the flight.
LEMMA Climbing ==
    ASSUME Ordered, NEW p \in Processes, NEW q \in Processes, WaitsFor(p, q), plan[q] # <<>>
    PROVE  LET a == plan[p][1]
               b == plan[q][1]
           IN  /\ a \in Rows /\ b \in Rows /\ lock[a] = q
               /\ Level(a) < Level(b) \/ (SameFlight(a, b) /\ lock[FlightOf[a]] = q)
<1>1. plan[p] \in Seq(Rows) /\ plan[q] \in Seq(Rows) /\ plan[p] # <<>>
  BY DEF Ordered, WaitsFor
<1>2. Head(plan[p]) = plan[p][1] /\ plan[p][1] \in Rows /\ plan[q][1] \in Rows
      /\ 1 \in 1 .. Len(plan[q])
  BY <1>1
<1>3. lock[plan[p][1]] = q
  BY <1>2 DEF WaitsFor
<1> QED BY <1>2, <1>3 DEF Ordered

\* Without the admin's three pages nobody waits for somebody in a circle
\* ("concurrent requests cannot deadlock").
THEOREM CannotDeadlock == NoAdminPages /\ Spec => []NoWaitCycle
<1>1. Ordered => NoWaitCycle
  <2> SUFFICES ASSUME Ordered,
                      NEW S \in SUBSET Processes, S # {},
                      \A p \in S : \E q \in S : WaitsFor(p, q)
               PROVE  FALSE
    BY DEF NoWaitCycle
  <2> DEFINE T == {plan[p][1] : p \in S}
  <2>1. \A p \in S : plan[p] # <<>> /\ plan[p] \in Seq(Rows) /\ plan[p][1] \in Rows
    BY DEF WaitsFor, Ordered
  <2>2. PICK p \in S : \A o \in S : Level(plan[o][1]) <= Level(plan[p][1])
    <3>1. T \subseteq Rows /\ T # {}
      BY <2>1
    <3>2. PICK row \in T : \A other \in T : Level(other) <= Level(row)
      BY <3>1, HighestLevel
    <3> QED BY <3>2
  <2>3. PICK q \in S : WaitsFor(p, q)
    OBVIOUS
  <2>4. PICK o \in S : WaitsFor(q, o)
    OBVIOUS
  <2> DEFINE a == plan[p][1]
             b == plan[q][1]
             c == plan[o][1]
  <2>5. a \in Rows /\ b \in Rows /\ c \in Rows
        /\ (Level(a) < Level(b) \/ (SameFlight(a, b) /\ lock[FlightOf[a]] = q))
        /\ (Level(b) < Level(c) \/ (SameFlight(b, c) /\ lock[FlightOf[b]] = o))
    BY <2>1, <2>3, <2>4, Climbing
  <2>6. Level(b) <= Level(a) /\ Level(c) <= Level(a)
    BY <2>2
  <2>7. o # q
    BY <2>4 DEF WaitsFor
  <2> HIDE DEF a, b, c
  <2>8. Level(a) \in Int /\ Level(b) \in Int /\ Level(c) \in Int
    BY <2>5, Levels
  <2>9. SameFlight(a, b) /\ lock[FlightOf[a]] = q
    BY <2>5, <2>6, <2>8
  <2>10. Level(a) = Level(b)
    BY <2>9, Levels DEF SameFlight
  <2>11. lock[FlightOf[b]] = o
    BY <2>5, <2>6, <2>8, <2>10
  <2> QED BY <2>7, <2>9, <2>11 DEF SameFlight
<1> QED BY LocksAreOrdered, <1>1, PTL

=============================================================================
