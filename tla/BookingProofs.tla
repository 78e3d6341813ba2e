---------------------------- MODULE BookingProofs ----------------------------
(***************************************************************************)
(* Proofs about Booking for every number of users, seats, workers ...:     *)
(* types, that what a transaction read under its locks stays true, that    *)
(* seats are never lost or sold twice, and that Booking implements         *)
(* SeatSale.                                                               *)
(***************************************************************************)
EXTENDS BookingSafety, TLAPS, FiniteSetTheorems

USE DEF Rows

\* The records of a worker that does nothing have the type of its variables.
LEMMA NoTxnType == NoTxn \in Txn
  BY DEF NoTxn, Txn

\* The same of its job.
LEMMA NoJobType == NoJob \in Job
  BY DEF NoJob, Job

\* A product of naturals; the provers are given it as a fact of its own.
LEMMA TimesType == \A m, n \in Nat : m * n \in Nat
  OBVIOUS

\* The first state has the right types.
LEMMA InitTypeOK == Init => TypeOK
<1> SUFFICES ASSUME Init PROVE TypeOK
  OBVIOUS
<1> USE DEF Init
<1>1. available \in [Classes -> Int]
  <2>1. \A c \in Classes : Cardinality(SeatsIn(c)) \in Nat
    BY KeysAssumption, FS_Subset, FS_CardinalityType DEF SeatsIn
  <2> QED BY <2>1
<1>2. ledger \in [Users -> Seq(Entry)]
  BY SettingsAssumption DEF Entry
<1>3. now \in Nat /\ flightStatus \in [Flights -> {"scheduled", "active", "completed", "cancelled"}]
      /\ freeSeats \in SUBSET Seats /\ holder \in [Seats -> Refs \cup {None}]
      /\ wallet \in [Users -> Nat] /\ swept \in SUBSET Flights
      /\ lock \in [Rows -> Workers \cup {None}]
  BY SettingsAssumption
<1>4. res \in [Refs -> Reservation \cup {Absent}]
  OBVIOUS
<1>5. txn \in [Workers -> Txn] /\ job \in [Workers -> Job]
  BY NoTxnType, NoJobType
<1> QED BY <1>1, <1>2, <1>3, <1>4, <1>5 DEF TypeOK

-----------------------------------------------------------------------------
(* A step of w leaves alone what the other workers rely on.                *)

Inv == TypeOK /\ ReadsStayTrue

Undisturbed(v) ==
    /\ txn'[v] = txn[v]
    /\ \A row \in Rows : lock[row] = v => lock'[row] = v
    /\ \A r \in Refs : lock[r] = v /\ res[r].status # "none" => res'[r] = res[r]
    /\ \A u \in Users : lock[u] = v => wallet'[u] = wallet[u]
    /\ \A c \in Classes : lock[c] = v => freeSeats \cap SeatsIn(c) \subseteq freeSeats'

\* Whatever a worker has read stays true in a step that leaves its rows alone.
LEMMA Undisturbing ==
    ASSUME TypeOK, NEW v \in Workers, TxnOK(v), Undisturbed(v)
    PROVE  TxnOK(v)'
<1> USE DEF Undisturbed
<1>1. CASE txn[v] = NoTxn
  BY <1>1 DEF TxnOK
<1>2. CASE txn[v].op = "create" /\ BookingReads(v)
  BY <1>2 DEF TxnOK, BookingReads, SeatsIn, SideBySide
<1>3. CASE txn[v].op = "pay" /\ txn[v].pc \in {"user", "charge"} /\ PaymentReads(v)
  <2>1. res'[txn[v].ref] = res[txn[v].ref] /\ lock'[txn[v].ref] = v
    BY <1>3 DEF PaymentReads
  <2>2. ASSUME txn[v].pc = "charge"
        PROVE  lock'[txn[v].user] = v /\ wallet'[txn[v].user] = wallet[txn[v].user]
    <3>1. txn[v].user \in Users
      BY <1>3 DEF PaymentReads, TypeOK, Reservation, Absent
    <3> QED BY <1>3, <2>2, <3>1 DEF PaymentReads
  <2> QED BY <1>3, <2>1, <2>2 DEF TxnOK, PaymentReads
<1>4. CASE txn[v].op \in Releasing /\ txn[v].pc \in {"class", "refund", "release"} /\ ReleaseReads(v)
  <2>1. res'[txn[v].ref] = res[txn[v].ref] /\ lock'[txn[v].ref] = v
    BY <1>4 DEF ReleaseReads, IsActive
  <2>2. res[txn[v].ref].user \in Users /\ res[txn[v].ref].class \in Classes
    BY <1>4 DEF ReleaseReads, TypeOK, Reservation, Absent, IsActive
  <2> QED BY <1>4, <2>1, <2>2 DEF TxnOK, ReleaseReads, IsActive
<1>5. CASE txn[v].op = "passengers" /\ PassengerReads(v)
  <2>1. res'[txn[v].ref] = res[txn[v].ref] /\ lock'[txn[v].ref] = v
    BY <1>5 DEF PassengerReads, IsActive
  <2>2. FlightFor(txn[v].ref) \in Flights
    BY <1>5, ShapeAssumption DEF PassengerReads, TypeOK, Reservation, Absent, IsActive, FlightFor
  <2> QED BY <1>5, <2>1, <2>2 DEF TxnOK, PassengerReads, IsActive, FlightFor
<1>6. CASE txn[v].op = "deposit" /\ DepositReads(v)
  BY <1>6 DEF TxnOK, DepositReads
<1> QED BY <1>1, <1>2, <1>3, <1>4, <1>5, <1>6 DEF TxnOK

\* Taking a free row for w.
LEMMA Advancing ==
    ASSUME TypeOK, NEW w \in Workers, NEW row \in Rows, NEW next \in Txn,
           CanLock(row), Advance(w, row, next), UNCHANGED <<res, wallet, freeSeats>>
    PROVE  /\ lock' \in [Rows -> Workers \cup {None}] /\ txn' \in [Workers -> Txn]
           /\ txn'[w] = next /\ lock'[row] = w
           /\ \A x \in Rows : lock[x] = w => lock'[x] = w
           /\ \A v \in Workers \ {w} : Undisturbed(v)
  BY KeysAssumption DEF TypeOK, CanLock, Advance, Take, Undisturbed

\* COMMIT or ROLLBACK of w, with writes to nothing but rows that w has locked.
LEMMA Ending ==
    ASSUME TypeOK, NEW w \in Workers, EndTxn(w),
           \A r \in Refs : lock[r] # w /\ res[r].status # "none" => res'[r] = res[r],
           \A u \in Users : lock[u] # w => wallet'[u] = wallet[u],
           \A c \in Classes : lock[c] # w => freeSeats \cap SeatsIn(c) \subseteq freeSeats'
    PROVE  /\ lock' \in [Rows -> Workers \cup {None}] /\ txn' \in [Workers -> Txn]
           /\ TxnOK(w)'
           /\ \A v \in Workers \ {w} : Undisturbed(v)
<1>1. lock' \in [Rows -> Workers \cup {None}] /\ txn' \in [Workers -> Txn] /\ txn'[w] = NoTxn
  BY NoTxnType DEF TypeOK, EndTxn, Unlocked
<1>2. TxnOK(w)'
  BY <1>1 DEF TxnOK
<1>3. ASSUME NEW v \in Workers \ {w}
      PROVE  Undisturbed(v)
  BY KeysAssumption DEF TypeOK, EndTxn, Unlocked, Undisturbed
<1> QED BY <1>1, <1>2, <1>3

\* What w has read and what it leaves alone is all that ReadsStayTrue needs.
LEMMA OthersUndisturbed ==
    ASSUME Inv, NEW w \in Workers, TxnOK(w)', \A v \in Workers \ {w} : Undisturbed(v)
    PROVE  ReadsStayTrue'
<1>1. ASSUME NEW v \in Workers \ {w}
      PROVE  TxnOK(v)'
  BY Undisturbing DEF Inv, ReadsStayTrue
<1> QED BY <1>1 DEF ReadsStayTrue

\* A step that takes a free row and writes nothing else keeps the invariant if
\* the transaction it leads to may rely on what it has read.
LEMMA AdvancingInv ==
    ASSUME Inv, NEW w \in Workers, NEW row \in Rows, NEW next \in Txn,
           CanLock(row), Advance(w, row, next), UNCHANGED <<now, db, swept>>,
           job' \in [Workers -> Job], TxnOK(w)'
    PROVE  Inv'
<1>1. TypeOK BY DEF Inv
<1>2. UNCHANGED <<res, wallet, freeSeats, flightStatus, available, holder, ledger>>
  BY DEF db, seatVars, moneyVars
<1>3. lock' \in [Rows -> Workers \cup {None}] /\ txn' \in [Workers -> Txn]
      /\ \A v \in Workers \ {w} : Undisturbed(v)
  BY <1>1, <1>2, Advancing
<1>4. TypeOK'
  BY <1>1, <1>2, <1>3 DEF TypeOK
<1> QED BY <1>3, <1>4, OthersUndisturbed DEF Inv

\* Locking a reservation to give its seats back.
LEMMA BeginReleaseInv ==
    ASSUME Inv, NEW w \in Workers, NEW r \in Refs, NEW op \in Releasing, NEW amount \in Nat,
           NEW reason \in {"user", "timeout", "flight_cancelled"},
           CanLock(r), BeginRelease(w, op, r, reason, amount),
           UNCHANGED <<now, db, swept>>, job' \in [Workers -> Job],
           IF amount > 0 THEN res[r].status = "reserved" ELSE IsActive(r),
           amount <= res[r].price,
           reason = "timeout" => res[r].status = "pending",
           reason = "flight_cancelled" /\ res[r].status = "reserved" => amount = res[r].price
    PROVE  Inv'
<1> DEFINE next == [NoTxn EXCEPT !.op = op, !.pc = "class", !.ref = r,
                                 !.reason = reason, !.amount = amount]
<1>1. TypeOK BY DEF Inv
<1>2. Advance(w, r, next)
  BY DEF BeginRelease
<1>3. UNCHANGED <<res, wallet, freeSeats>>
  BY DEF db, seatVars, moneyVars
<1>4. next \in Txn
  BY DEF NoTxn, Txn, Releasing
<1> HIDE DEF next
<1>5. txn'[w] = next /\ lock'[r] = w
  BY <1>1, <1>2, <1>3, <1>4, Advancing
<1>6. ReleaseReads(w)'
  BY <1>3, <1>5 DEF next, ReleaseReads, IsActive, NoTxn
<1>7. TxnOK(w)'
  BY <1>5, <1>6 DEF next, TxnOK, NoTxn
<1> QED BY <1>2, <1>4, <1>7, AdvancingInv

\* Giving up changes no table.
LEMMA RollingBack ==
    ASSUME Inv, NEW w \in Workers, Rollback(w)
    PROVE  Inv'
<1>1. TypeOK BY DEF Inv
<1>2. EndTxn(w) /\ UNCHANGED <<now, db, swept, job>>
  BY DEF Rollback
<1>3. UNCHANGED <<res, wallet, freeSeats, flightStatus, available, holder, ledger>>
  BY <1>2 DEF db, seatVars, moneyVars
<1>4. lock' \in [Rows -> Workers \cup {None}] /\ txn' \in [Workers -> Txn]
      /\ TxnOK(w)' /\ \A v \in Workers \ {w} : Undisturbed(v)
  BY <1>1, <1>2, <1>3, Ending
<1>5. TypeOK'
  BY <1>1, <1>2, <1>3, <1>4 DEF TypeOK
<1> QED BY <1>4, <1>5, OthersUndisturbed DEF Inv

-----------------------------------------------------------------------------
(* Booking seats.                                                          *)

\* create_pending_reservation, the class and its seats: what was read holds.
LEMMA LockClassForBookingInv ==
    ASSUME Inv, NEW w \in Workers, NEW u \in Users, NEW c \in Classes, NEW S \in SUBSET Seats,
           LockClassForBooking(w, u, c, S)
    PROVE  Inv'
<1> DEFINE next == [NoTxn EXCEPT !.op = "create", !.pc = "user",
                                 !.user = u, !.class = c, !.seats = S]
<1>1. TypeOK BY DEF Inv
<1>2. CanLock(c) /\ Advance(w, c, next) /\ UNCHANGED <<now, db, swept, job>>
  BY DEF LockClassForBooking
<1>3. UNCHANGED <<res, wallet, freeSeats, flightStatus, available, holder, ledger>>
  BY <1>2 DEF db, seatVars, moneyVars
<1>4. next \in Txn
  BY DEF NoTxn, Txn
<1> HIDE DEF next
<1>5. txn'[w] = next /\ lock'[c] = w
  BY <1>1, <1>2, <1>3, <1>4, Advancing
<1>6. S \subseteq freeSeats \cap SeatsIn(c) /\ Cardinality(S) \in 1 .. MaxSeats /\ SideBySide(S)
  BY DEF LockClassForBooking
<1>7. TxnOK(w)'
  BY <1>3, <1>5, <1>6 DEF next, TxnOK, BookingReads, NoTxn, SideBySide, SeatsIn
<1>8. job' \in [Workers -> Job]
  BY <1>1, <1>2 DEF TypeOK
<1> QED BY <1>2, <1>4, <1>7, <1>8, AdvancingInv

\* create_pending_reservation, the user: taking one row more breaks no read.
LEMMA LockUserForBookingInv ==
    ASSUME Inv, NEW w \in Workers, LockUserForBooking(w)
    PROVE  Inv'
<1> DEFINE t == txn[w]
           next == [t EXCEPT !.pc = "commit"]
<1>1. TypeOK /\ TxnOK(w) BY DEF Inv, ReadsStayTrue
<1>2. t \in Txn /\ t.op = "create" /\ t.pc = "user" /\ BookingReads(w)
  BY <1>1 DEF TypeOK, LockUserForBooking, Doing, TxnOK, NoTxn, Releasing
<1>3. CASE Rollback(w)
  BY <1>3, RollingBack
<1>4. CASE Advance(w, t.user, next) /\ UNCHANGED <<now, db, swept, job>>
  <2>1. UNCHANGED <<res, wallet, freeSeats, flightStatus, available, holder, ledger>>
    BY <1>4 DEF db, seatVars, moneyVars
  <2>2. t.user \in Users /\ CanLock(t.user) /\ next \in Txn
    BY <1>2 DEF BookingReads, LockUserForBooking, Txn
  <2>3. txn'[w] = next /\ lock'[t.user] = w /\ \A x \in Rows : lock[x] = w => lock'[x] = w
    BY <1>1, <1>4, <2>1, <2>2, Advancing
  <2>4. TxnOK(w)'
    BY <1>2, <2>1, <2>3 DEF TxnOK, BookingReads, SideBySide, SeatsIn, Txn
  <2>5. job' \in [Workers -> Job]
    BY <1>1, <1>4 DEF TypeOK
  <2> QED BY <1>4, <2>2, <2>4, <2>5, AdvancingInv
<1> QED BY <1>3, <1>4 DEF LockUserForBooking

\* create_pending_reservation commits: only a free reservation key and the seats of
\* the locked class are written.
LEMMA CommitBookingInv ==
    ASSUME Inv, NEW w \in Workers, CommitBooking(w)
    PROVE  Inv'
<1> DEFINE t == txn[w]
<1>1. TypeOK /\ TxnOK(w) BY DEF Inv, ReadsStayTrue
<1>2. t \in Txn /\ t.op = "create" /\ t.pc = "commit" /\ BookingReads(w)
  BY <1>1 DEF TypeOK, CommitBooking, Doing, TxnOK, NoTxn, Releasing
<1>3. CASE Rollback(w)
  BY <1>3, RollingBack
<1>4. CASE \E r \in Refs : res[r].status = "none" /\ HoldSeats(w, r)
  <2> PICK r \in Refs : res[r].status = "none" /\ HoldSeats(w, r)
    BY <1>4
  <2> USE DEF HoldSeats
  <2> DEFINE n == Cardinality(t.seats)
  <2>1. n \in Nat \ {0} /\ t.user \in Users /\ t.class \in Classes /\ t.seats \subseteq SeatsIn(t.class)
    BY <1>2, SettingsAssumption DEF BookingReads
  <2> HIDE DEF n
  <2>2. Fare[t.class] * n \in Nat /\ now + PayWindow \in Nat
    <3>1. Fare[t.class] \in Nat /\ now \in Nat /\ PayWindow \in Nat
      BY <1>1, <2>1, ShapeAssumption, SettingsAssumption DEF TypeOK
    <3> QED BY <2>1, <3>1, TimesType
  <2>3. res' \in [Refs -> Reservation \cup {Absent}]
    <3> USE DEF n
    <3>1. [Absent EXCEPT !.status = "pending", !.user = t.user, !.class = t.class, !.count = n,
                         !.price = Fare[t.class] * n, !.deadline = now + PayWindow] \in Reservation
      BY <2>1, <2>2 DEF Reservation, Absent, NotPaid
    <3> QED BY <1>1, <3>1 DEF TypeOK
  <2>4. \A q \in Refs : res[q].status # "none" => res'[q] = res[q]
    BY <1>1 DEF TypeOK
  <2>5. \A c \in Classes : lock[c] # w => freeSeats \cap SeatsIn(c) \subseteq freeSeats'
    BY <1>2, <2>1 DEF BookingReads, SeatsIn
  <2>6. UNCHANGED <<wallet, ledger>>
    BY DEF moneyVars
  <2>7. lock' \in [Rows -> Workers \cup {None}] /\ txn' \in [Workers -> Txn]
        /\ TxnOK(w)' /\ \A v \in Workers \ {w} : Undisturbed(v)
    BY <1>1, <2>4, <2>5, <2>6, Ending
  <2>8. available' \in [Classes -> Int] /\ holder' \in [Seats -> Refs \cup {None}]
        /\ freeSeats' \in SUBSET Seats
    BY <1>1, <2>1 DEF n, TypeOK
  <2>9. TypeOK'
    BY <1>1, <2>3, <2>6, <2>7, <2>8 DEF TypeOK
  <2> QED BY <2>7, <2>9, OthersUndisturbed DEF Inv
<1> QED BY <1>3, <1>4 DEF CommitBooking

-----------------------------------------------------------------------------
(* Paying.                                                                 *)

\* pay_reservation, the reservation: a payment, or the release of an overdue hold.
LEMMA LockReservationForPaymentInv ==
    ASSUME Inv, NEW w \in Workers, NEW r \in Refs, LockReservationForPayment(w, r)
    PROVE  Inv'
<1> DEFINE next == [NoTxn EXCEPT !.op = "pay", !.pc = "user", !.ref = r,
                                 !.user = res[r].user, !.amount = res[r].price]
<1>1. TypeOK BY DEF Inv
<1>2. CanLock(r) /\ res[r].status = "pending" /\ UNCHANGED <<now, db, swept, job>>
  BY DEF LockReservationForPayment
<1>3. res[r] \in Reservation /\ job' \in [Workers -> Job] /\ UNCHANGED <<res, wallet, freeSeats>>
  BY <1>1, <1>2 DEF TypeOK, Absent, db, seatVars, moneyVars
<1>4. CASE BeginRelease(w, "pay", r, "timeout", 0)
  BY <1>2, <1>3, <1>4, BeginReleaseInv DEF Releasing, IsActive, Reservation
<1>5. CASE Advance(w, r, next)
  <2>1. next \in Txn
    BY <1>3 DEF Reservation, Txn, NoTxn
  <2> HIDE DEF next
  <2>2. txn'[w] = next /\ lock'[r] = w
    BY <1>1, <1>2, <1>3, <1>5, <2>1, Advancing
  <2>3. TxnOK(w)'
    BY <1>2, <1>3, <2>2 DEF next, TxnOK, PaymentReads, NoTxn
  <2> QED BY <1>2, <1>3, <1>5, <2>1, <2>3, AdvancingInv
<1> QED BY <1>4, <1>5 DEF LockReservationForPayment

\* pay_reservation, the wallet: the balance that is read stays and covers the price.
LEMMA LockUserForPaymentInv ==
    ASSUME Inv, NEW w \in Workers, LockUserForPayment(w)
    PROVE  Inv'
<1> DEFINE t == txn[w]
           next == [t EXCEPT !.pc = "charge", !.balance = wallet[t.user]]
<1>1. TypeOK /\ TxnOK(w) BY DEF Inv, ReadsStayTrue
<1>2. t \in Txn /\ t.op = "pay" /\ t.pc = "user" /\ PaymentReads(w)
  BY <1>1 DEF TypeOK, LockUserForPayment, Doing, TxnOK, NoTxn, Releasing
<1>3. CASE Rollback(w)
  BY <1>3, RollingBack
<1>4. CASE CanWithdraw(t.user, t.amount) /\ Advance(w, t.user, next)
           /\ UNCHANGED <<now, db, swept, job>>
  <2>1. UNCHANGED <<res, wallet, freeSeats>> /\ job' \in [Workers -> Job]
    BY <1>1, <1>4 DEF TypeOK, db, seatVars, moneyVars
  <2>2. t.user \in Users /\ CanLock(t.user)
    BY <1>1, <1>2 DEF PaymentReads, LockUserForPayment, TypeOK, Reservation, Absent
  <2>3. next \in Txn
    BY <1>1, <1>2, <2>2 DEF TypeOK, Txn
  <2>4. txn'[w] = next /\ lock'[t.user] = w /\ \A x \in Rows : lock[x] = w => lock'[x] = w
    BY <1>1, <1>4, <2>1, <2>2, <2>3, Advancing
  <2>5. t.amount \in 1 .. wallet[t.user]
    BY <1>1, <1>2, <1>4, <2>2 DEF CanWithdraw, TypeOK, Txn
  <2>6. TxnOK(w)'
    BY <1>2, <2>1, <2>4, <2>5 DEF TxnOK, PaymentReads, Txn
  <2> QED BY <1>4, <2>1, <2>2, <2>3, <2>6, AdvancingInv
<1> QED BY <1>3, <1>4 DEF LockUserForPayment

\* The wallet and the ledger after a change of a balance that stays positive.
LEMMA WalletChangeType ==
    ASSUME TypeOK, NEW u \in Users, NEW kind \in {"charge", "payment", "refund"},
           NEW before \in Nat, NEW delta \in Int, before + delta \in Nat,
           NEW r \in Refs \cup {None}, ApplyWalletChange(u, kind, before, delta, r)
    PROVE  /\ wallet' \in [Users -> Nat] /\ ledger' \in [Users -> Seq(Entry)]
           /\ wallet'[u] = before + delta
           /\ \A v \in Users \ {u} : wallet'[v] = wallet[v] /\ ledger'[v] = ledger[v]
<1> DEFINE e == [kind |-> kind, amount |-> delta, before |-> before,
                 after |-> before + delta, ref |-> r]
<1>1. e \in Entry
  BY DEF Entry
<1>2. Append(ledger[u], e) \in Seq(Entry)
  BY <1>1 DEF TypeOK
<1> HIDE DEF e
<1>3. ledger' = [ledger EXCEPT ![u] = Append(ledger[u], e)]
  BY DEF e, ApplyWalletChange
<1>4. wallet' = [wallet EXCEPT ![u] = before + delta]
  BY DEF ApplyWalletChange
<1> QED BY <1>2, <1>3, <1>4 DEF TypeOK

\* pay_reservation commits: the reservation and the wallet it writes are locked.
LEMMA CommitPaymentInv ==
    ASSUME Inv, NEW w \in Workers, CommitPayment(w)
    PROVE  Inv'
<1> DEFINE t == txn[w]
<1>1. TypeOK /\ TxnOK(w) BY DEF Inv, ReadsStayTrue
<1>2. t \in Txn /\ t.op = "pay" /\ t.pc = "charge" /\ PaymentReads(w)
  BY <1>1 DEF TypeOK, CommitPayment, Doing, TxnOK, NoTxn, Releasing
<1>3. t.ref \in Refs /\ res[t.ref] \in Reservation /\ t.user \in Users
  BY <1>1, <1>2 DEF PaymentReads, TypeOK, Reservation, Absent
<1>4. ApplyWalletChange(t.user, "payment", t.balance, - t.amount, t.ref)
  BY DEF CommitPayment
<1>5. t.balance \in Nat /\ - t.amount \in Int /\ t.balance + (- t.amount) \in Nat
  BY <1>2 DEF PaymentReads, Txn
<1>6. wallet' \in [Users -> Nat] /\ ledger' \in [Users -> Seq(Entry)]
      /\ \A v \in Users \ {t.user} : wallet'[v] = wallet[v]
  BY <1>1, <1>3, <1>4, <1>5, WalletChangeType
<1>7. UNCHANGED <<now, flightStatus, available, freeSeats, holder, swept, job>> /\ EndTxn(w)
      /\ res' = [res EXCEPT ![t.ref].status = "reserved", ![t.ref].settledAt = now]
  BY DEF CommitPayment, seatVars
<1>8. res' \in [Refs -> Reservation \cup {Absent}]
  BY <1>1, <1>3, <1>7 DEF TypeOK, Reservation, NotPaid
<1>9. lock' \in [Rows -> Workers \cup {None}] /\ txn' \in [Workers -> Txn]
      /\ TxnOK(w)' /\ \A v \in Workers \ {w} : Undisturbed(v)
  <2>1. \A r \in Refs : lock[r] # w /\ res[r].status # "none" => res'[r] = res[r]
    BY <1>1, <1>2, <1>7 DEF PaymentReads, TypeOK
  <2>2. \A u \in Users : lock[u] # w => wallet'[u] = wallet[u]
    BY <1>2, <1>6 DEF PaymentReads
  <2> QED BY <1>1, <1>7, <2>1, <2>2, Ending
<1>10. TypeOK'
  BY <1>1, <1>6, <1>7, <1>8, <1>9 DEF TypeOK
<1> QED BY <1>9, <1>10, OthersUndisturbed DEF Inv

-----------------------------------------------------------------------------
(* Giving seats back.                                                      *)

\* A rounded percentage of a price in cents is at most the price.
LEMMA RoundHalfEvenBound ==
    ASSUME NEW price \in Nat, NEW n \in 0 .. 100 * price
    PROVE  RoundHalfEven(n, 100) \in 0 .. price
  BY DEF RoundHalfEven

\* A percentage of a price, before it is divided by 100.
LEMMA PercentOfPrice ==
    ASSUME NEW price \in Nat, NEW percent \in 0 .. 100
    PROVE  price * percent \in 0 .. 100 * price
  BY SMT

\* cancel_reservation never gives back more than the price, and nothing for an
\* unpaid reservation.
LEMMA RefundBound ==
    ASSUME TypeOK, NEW r \in Refs, IsActive(r)
    PROVE  /\ RefundOnCancel(r) \in 0 .. res[r].price
           /\ RefundOnCancel(r) > 0 => res[r].status = "reserved"
           /\ res[r].status = "reserved" /\ flightStatus[FlightFor(r)] = "cancelled"
                => RefundOnCancel(r) = res[r].price
<1> DEFINE f == FlightFor(r)
           price == res[r].price
           kept == 100 - PenaltyPercent(f)
<1>1. price \in Nat /\ f \in Flights
  BY ShapeAssumption DEF TypeOK, Reservation, Absent, IsActive, FlightFor
<1>2. kept \in 0 .. 100
  BY <1>1, ShapeAssumption DEF PenaltyPercent
<1> HIDE DEF price, kept
<1>3. price * kept \in 0 .. 100 * price
  BY <1>1, <1>2, PercentOfPrice
<1>4. RoundHalfEven(price * kept, 100) \in 0 .. price
  BY <1>1, <1>3, RoundHalfEvenBound
<1> QED BY <1>1, <1>4 DEF RefundOnCancel, price, kept

\* cancel_reservation, the reservation: the refund is at most what was paid.
LEMMA LockReservationForCancelInv ==
    ASSUME Inv, NEW w \in Workers, NEW r \in Refs, LockReservationForCancel(w, r)
    PROVE  Inv'
<1> DEFINE reason == IF res[r].status = "reserved" /\ flightStatus[FlightFor(r)] = "cancelled"
                     THEN "flight_cancelled" ELSE "user"
           refund == RefundOnCancel(r)
<1>1. TypeOK BY DEF Inv
<1>2. CanLock(r) /\ IsActive(r) /\ BeginRelease(w, "cancel", r, reason, refund)
      /\ UNCHANGED <<now, db, swept>> /\ job' \in [Workers -> Job]
  BY <1>1 DEF LockReservationForCancel, Cancellable, IsActive, TypeOK
<1>3. refund \in Nat /\ refund <= res[r].price
      /\ (refund > 0 => res[r].status = "reserved")
      /\ (reason = "flight_cancelled" => refund = res[r].price)
  <2>1. res[r].price \in Nat
    BY <1>1, <1>2 DEF IsActive, TypeOK, Reservation, Absent
  <2> QED BY <1>1, <1>2, <2>1, RefundBound
<1>4. reason \in {"user", "flight_cancelled"}
  OBVIOUS
<1> HIDE DEF reason, refund
<1> QED BY <1>2, <1>3, <1>4, BeginReleaseInv DEF Releasing

\* _cancel_locked, the class of the reservation that is given back.
LEMMA LockClassForReleaseInv ==
    ASSUME Inv, NEW w \in Workers, LockClassForRelease(w)
    PROVE  Inv'
<1> DEFINE t == txn[w]
           c == res[t.ref].class
           next == [t EXCEPT !.pc = IF t.amount > 0 THEN "refund" ELSE "release"]
<1>1. TypeOK /\ TxnOK(w) BY DEF Inv, ReadsStayTrue
<1>2. t \in Txn /\ t.op \in Releasing /\ t.pc = "class" /\ ReleaseReads(w)
  BY <1>1 DEF TypeOK, LockClassForRelease, TxnOK, NoTxn, Releasing
<1>3. c \in Classes /\ next \in Txn
  <2>1. c \in Classes
    BY <1>1, <1>2 DEF ReleaseReads, TypeOK, IsActive, Reservation, Absent
  <2>2. next \in Txn
    BY <1>2 DEF Txn
  <2> QED BY <2>1, <2>2
<1>4. CanLock(c) /\ Advance(w, c, next) /\ UNCHANGED <<now, db, swept, job>>
  BY DEF LockClassForRelease
<1>5. UNCHANGED <<res, wallet, freeSeats>> /\ job' \in [Workers -> Job]
  BY <1>1, <1>4 DEF TypeOK, db, seatVars, moneyVars
<1> HIDE DEF next, c
<1>6. txn'[w] = next /\ lock'[c] = w /\ \A x \in Rows : lock[x] = w => lock'[x] = w
  BY <1>1, <1>3, <1>4, <1>5, Advancing
<1>7. ReleaseReads(w)'
  BY <1>2, <1>5, <1>6 DEF c, next, ReleaseReads, IsActive, Txn
<1>8. TxnOK(w)'
  BY <1>2, <1>6, <1>7 DEF next, TxnOK, Txn
<1> QED BY <1>3, <1>4, <1>5, <1>8, AdvancingInv

\* cancel_reservation and the sweep, the wallet that is refunded.
LEMMA LockUserForRefundInv ==
    ASSUME Inv, NEW w \in Workers, LockUserForRefund(w)
    PROVE  Inv'
<1> DEFINE t == txn[w]
           u == res[t.ref].user
           next == [t EXCEPT !.pc = "release", !.balance = wallet[u]]
<1>1. TypeOK /\ TxnOK(w) BY DEF Inv, ReadsStayTrue
<1>2. t \in Txn /\ t.op \in Releasing /\ t.pc = "refund" /\ ReleaseReads(w)
  BY <1>1 DEF TypeOK, LockUserForRefund, TxnOK, NoTxn, Releasing
<1>3. u \in Users
  BY <1>1, <1>2 DEF ReleaseReads, TypeOK, IsActive, Reservation, Absent
<1>4. next \in Txn
  BY <1>1, <1>2, <1>3 DEF TypeOK, Txn
<1>5. CanLock(u) /\ Advance(w, u, next) /\ UNCHANGED <<now, db, swept, job>>
  BY DEF LockUserForRefund
<1>6. UNCHANGED <<res, wallet, freeSeats>> /\ job' \in [Workers -> Job]
  BY <1>1, <1>5 DEF TypeOK, db, seatVars, moneyVars
<1> HIDE DEF next, u
<1>7. txn'[w] = next /\ lock'[u] = w /\ \A x \in Rows : lock[x] = w => lock'[x] = w
  BY <1>1, <1>3, <1>4, <1>5, <1>6, Advancing
<1>8. lock'[res[t.ref].class] = w
  <2>1. res[t.ref].class \in Classes
    BY <1>1, <1>2 DEF ReleaseReads, TypeOK, IsActive, Reservation, Absent
  <2> QED BY <1>2, <1>7, <2>1 DEF ReleaseReads
<1>9. ReleaseReads(w)'
  BY <1>2, <1>6, <1>7, <1>8 DEF u, next, ReleaseReads, IsActive, Txn
<1>10. TxnOK(w)'
  BY <1>2, <1>7, <1>9 DEF next, TxnOK, Txn
<1> QED BY <1>3, <1>4, <1>5, <1>6, <1>10, AdvancingInv

\* _cancel_locked commits: reservation, seats and wallet are those that are locked.
LEMMA CommitReleaseInv ==
    ASSUME Inv, NEW w \in Workers, CommitRelease(w)
    PROVE  Inv'
<1> DEFINE t == txn[w]
           r == t.ref
           u == res[r].user
<1>1. TypeOK /\ TxnOK(w) BY DEF Inv, ReadsStayTrue
<1>2. t \in Txn /\ t.op \in Releasing /\ t.pc = "release" /\ ReleaseReads(w)
  BY <1>1 DEF TypeOK, CommitRelease, TxnOK, NoTxn, Releasing
<1>3. r \in Refs /\ res[r] \in Reservation /\ u \in Users /\ res[r].class \in Classes
      /\ t.amount \in Nat /\ lock[r] = w
  BY <1>1, <1>2 DEF ReleaseReads, IsActive, TypeOK, Reservation, Absent, Txn
<1>4. EndTxn(w) /\ UNCHANGED <<now, flightStatus, swept, job>>
      /\ freeSeats' = freeSeats \cup SeatsHeld(r) /\ available' = SeatsBack(r)
      /\ holder' = LinksWithout(r)
      /\ res' = [res EXCEPT ![r].status = "cancelled", ![r].reason = t.reason,
                            ![r].refund = t.amount]
  BY DEF CommitRelease
<1>5. wallet' \in [Users -> Nat] /\ ledger' \in [Users -> Seq(Entry)]
      /\ \A v \in Users : lock[v] # w => wallet'[v] = wallet[v]
  <2>1. CASE t.amount > 0
    <3>1. ApplyWalletChange(u, "refund", t.balance, t.amount, r) /\ lock[u] = w
      BY <1>2, <2>1 DEF CommitRelease, ReleaseReads
    <3>2. t.balance \in Nat /\ t.balance + t.amount \in Nat
      BY <1>2 DEF Txn
    <3> QED BY <1>1, <1>3, <3>1, <3>2, WalletChangeType
  <2>2. CASE ~(t.amount > 0)
    BY <1>1, <2>2 DEF CommitRelease, moneyVars, TypeOK
  <2> QED BY <2>1, <2>2
<1>6. res' \in [Refs -> Reservation \cup {Absent}]
  <2>1. t.reason \in {"none", "user", "timeout", "flight_cancelled"}
    BY <1>2 DEF Txn
  <2> HIDE DEF t, r
  <2>2. [res[r] EXCEPT !.status = "cancelled", !.reason = t.reason, !.refund = t.amount] \in Reservation
    BY <1>3, <2>1 DEF Reservation
  <2>3. res' = [res EXCEPT ![r] = [res[r] EXCEPT !.status = "cancelled", !.reason = t.reason,
                                                !.refund = t.amount]]
    BY <1>1, <1>3, <1>4 DEF TypeOK
  <2> QED BY <1>1, <1>3, <2>2, <2>3 DEF TypeOK
<1>7. freeSeats' \in SUBSET Seats /\ holder' \in [Seats -> Refs \cup {None}]
      /\ available' \in [Classes -> Int]
  <2>1. Cardinality(SeatsHeld(r)) \in Nat
    BY KeysAssumption, FS_Subset, FS_CardinalityType DEF SeatsHeld
  <2> HIDE DEF t, r
  <2> QED BY <1>1, <1>3, <1>4, <2>1 DEF TypeOK, SeatsHeld, LinksWithout, SeatsBack
<1>8. lock' \in [Rows -> Workers \cup {None}] /\ txn' \in [Workers -> Txn]
      /\ TxnOK(w)' /\ \A v \in Workers \ {w} : Undisturbed(v)
  <2>1. \A q \in Refs : lock[q] # w /\ res[q].status # "none" => res'[q] = res[q]
    BY <1>1, <1>3, <1>4 DEF TypeOK
  <2> QED BY <1>1, <1>4, <1>5, <2>1, Ending
<1>9. TypeOK'
  BY <1>1, <1>4, <1>5, <1>6, <1>7, <1>8 DEF TypeOK
<1> QED BY <1>8, <1>9, OthersUndisturbed DEF Inv

-----------------------------------------------------------------------------
(* Loops, passengers, deposits and the rest.                               *)

\* A step that changes none of the tables, locks and transactions the
\* invariant speaks of.
LEMMA OtherStep ==
    ASSUME Inv, UNCHANGED <<res, wallet, ledger, freeSeats, available, holder, lock, txn>>,
           now' \in Nat, swept' \in SUBSET Flights, job' \in [Workers -> Job],
           flightStatus' \in [Flights -> {"scheduled", "active", "completed", "cancelled"}]
    PROVE  Inv'
<1>1. TypeOK'
  BY DEF Inv, TypeOK
<1>2. \A v \in Workers : Undisturbed(v)
  BY DEF Undisturbed, SeatsIn
<1>3. ReadsStayTrue'
  BY <1>2, Undisturbing DEF Inv, ReadsStayTrue
<1> QED BY <1>1, <1>3 DEF Inv

\* Giving a worker a job keeps the type of job.
LEMMA SetJobType ==
    ASSUME TypeOK, NEW w \in Workers, NEW j \in Job, SetJob(w, j)
    PROVE  job' \in [Workers -> Job]
  BY DEF TypeOK, SetJob

\* A job that is done with one reservation is still a job.
LEMMA WithoutType ==
    ASSUME NEW j \in Job, NEW r PROVE Without(j, r) \in Job
  BY NoJobType DEF Without, Job

\* What a loop changes of its job.
LEMMA JobEdit ==
    ASSUME NEW j \in Job
    PROVE  /\ \A S \in SUBSET Refs : [j EXCEPT !.todo = S, !.pass = @ + 1] \in Job
           /\ \A r : [j EXCEPT !.todo = @ \ {r}] \in Job
           /\ \A r \in Refs : [j EXCEPT !.failed = @ \cup {r}] \in Job
<1> DEFINE Fields == [kind : {"none", "expire", "sweep", "warn", "tell", "sync"},
                      flight : Flights \cup {None}, user : Users \cup {None},
                      todo : SUBSET Refs, failed : SUBSET Refs, pass : Nat, at : Nat]
           SameWork(k) == /\ k.kind = j.kind /\ k.flight = j.flight /\ k.user = j.user
<1>1. j \in Fields /\ (j.kind = "sweep" => j.flight \in Flights)
                   /\ (j.kind = "tell" => j.user \in Users)
  BY DEF Job
<1>2. \A k \in Fields : SameWork(k) => k \in Job
  BY <1>1 DEF Job
<1> HIDE DEF SameWork
<1>3. ASSUME NEW S \in SUBSET Refs PROVE [j EXCEPT !.todo = S, !.pass = @ + 1] \in Job
  <2> DEFINE k == [j EXCEPT !.todo = S, !.pass = @ + 1]
  <2>0. j.pass + 1 \in Nat
    BY <1>1
  <2>1. k \in Fields
    BY <1>1, <2>0
  <2>2. SameWork(k) BY <1>1 DEF SameWork
  <2> QED BY <1>2, <2>1, <2>2
<1>4. ASSUME NEW r PROVE [j EXCEPT !.todo = @ \ {r}] \in Job
  <2> DEFINE k == [j EXCEPT !.todo = @ \ {r}]
  <2>1. k \in Fields BY <1>1
  <2>2. SameWork(k) BY <1>1 DEF SameWork
  <2> QED BY <1>2, <2>1, <2>2
<1>5. ASSUME NEW r \in Refs PROVE [j EXCEPT !.failed = @ \cup {r}] \in Job
  <2> DEFINE k == [j EXCEPT !.failed = @ \cup {r}]
  <2>1. k \in Fields BY <1>1
  <2>2. SameWork(k) BY <1>1 DEF SameWork
  <2> QED BY <1>2, <2>1, <2>2
<1> QED BY <1>3, <1>4, <1>5

\* Reading a list of reservations for a job changes no table.
LEMMA ListingInv ==
    ASSUME Inv, NEW w \in Workers, ListOverdue(w) \/ ListExpiring(w) \/ ListForSweep(w)
    PROVE  Inv'
<1>1. TypeOK /\ job[w] \in Job BY DEF Inv, TypeOK
<1>2. UNCHANGED <<res, wallet, ledger, freeSeats, available, holder, lock, txn>>
      /\ UNCHANGED <<now, flightStatus>>
  BY DEF ListOverdue, ListExpiring, ListForSweep, db, seatVars, moneyVars
<1>3. CASE ListOverdue(w)
  <2>1. PICK todo \in SUBSET Refs : SetJob(w, [NoJob EXCEPT !.kind = "expire", !.todo = todo])
    BY <1>3 DEF ListOverdue
  <2>2. [NoJob EXCEPT !.kind = "expire", !.todo = todo] \in Job
    BY DEF NoJob, Job
  <2>3. swept' = swept
    BY <1>3 DEF ListOverdue
  <2> QED BY <1>1, <1>2, <2>1, <2>2, <2>3, SetJobType, OtherStep DEF TypeOK
<1>4. CASE ListExpiring(w)
  <2>1. PICK todo \in SUBSET Refs : SetJob(w, [NoJob EXCEPT !.kind = "warn", !.todo = todo])
    BY <1>4 DEF ListExpiring
  <2>2. [NoJob EXCEPT !.kind = "warn", !.todo = todo] \in Job
    BY DEF NoJob, Job
  <2>3. swept' = swept
    BY <1>4 DEF ListExpiring
  <2> QED BY <1>1, <1>2, <2>1, <2>2, <2>3, SetJobType, OtherStep DEF TypeOK
<1>5. CASE ListForSweep(w)
  <2> DEFINE j == job[w]
             next == [j EXCEPT !.todo = LeftToSweep(j), !.pass = @ + 1]
  <2>1. next \in Job
    <3>1. LeftToSweep(j) \in SUBSET Refs
      BY DEF LeftToSweep
    <3> HIDE DEF j
    <3>2. j \in Job
      BY <1>1 DEF j
    <3> QED BY <3>1, <3>2, JobEdit
  <2>2. swept' \in SUBSET Flights
    BY <1>1, <1>5 DEF ListForSweep, Job, TypeOK
  <2>3. SetJob(w, NoJob) \/ SetJob(w, next)
    BY <1>5 DEF ListForSweep
  <2> HIDE DEF next
  <2>4. job' \in [Workers -> Job]
    BY <1>1, <2>1, <2>3, NoJobType, SetJobType
  <2> QED BY <1>1, <1>2, <2>2, <2>4, OtherStep DEF TypeOK
<1> QED BY <1>3, <1>4, <1>5

\* The first lock of a loop's next transaction.
LEMMA LoopInv ==
    ASSUME Inv, NEW w \in Workers, ExpireNext(w) \/ SweepNext(w)
    PROVE  Inv'
<1>1. TypeOK /\ job[w] \in Job BY DEF Inv, TypeOK
<1>2. UNCHANGED <<now, db, swept>>
  BY DEF ExpireNext, SweepNext
<1>3. CASE ExpireNext(w)
  <2>1. PICK r \in Refs : CanLock(r) /\ ExpireIfOverdue(w, r) /\ SetJob(w, Without(job[w], r))
    BY <1>1, <1>3 DEF ExpireNext, Job
  <2>2. job' \in [Workers -> Job]
    BY <1>1, <2>1, WithoutType, SetJobType
  <2>3. CASE Overdue(r)
    <3>1. res[r].price \in Nat /\ IsActive(r) /\ res[r].status = "pending"
      BY <1>1, <2>3 DEF Overdue, IsActive, TypeOK, Reservation, Absent
    <3>2. BeginRelease(w, "expire", r, "timeout", 0)
      BY <2>1, <2>3 DEF ExpireIfOverdue
    <3> QED BY <1>2, <2>1, <2>2, <3>1, <3>2, BeginReleaseInv DEF Releasing
  <2>4. CASE ~Overdue(r)
    BY <1>1, <1>2, <2>1, <2>2, <2>4, OtherStep DEF ExpireIfOverdue, TypeOK, db, seatVars, moneyVars
  <2> QED BY <2>3, <2>4
<1>4. CASE SweepNext(w)
  <2>1. PICK r \in Refs : CanLock(r) /\ SweepIfActive(w, r)
                          /\ SetJob(w, [job[w] EXCEPT !.todo = @ \ {r}])
    BY <1>1, <1>4 DEF SweepNext, Job
  <2>2. job' \in [Workers -> Job]
    <3>1. [job[w] EXCEPT !.todo = @ \ {r}] \in Job
      BY <1>1, JobEdit
    <3> QED BY <1>1, <2>1, <3>1, SetJobType
  <2>3. CASE IsActive(r)
    <3> DEFINE amount == IF res[r].status = "reserved" THEN res[r].price ELSE 0
    <3>1. amount \in Nat /\ amount <= res[r].price
          /\ (amount > 0 => res[r].status = "reserved")
          /\ (res[r].status = "reserved" => amount = res[r].price)
      BY <1>1, <2>3 DEF IsActive, TypeOK, Reservation, Absent
    <3>2. BeginRelease(w, "sweep", r, "flight_cancelled", amount)
      BY <2>1, <2>3 DEF SweepIfActive
    <3> HIDE DEF amount
    <3> QED BY <1>2, <2>1, <2>2, <2>3, <3>1, <3>2, BeginReleaseInv DEF Releasing
  <2>4. CASE ~IsActive(r)
    BY <1>1, <1>2, <2>1, <2>2, <2>4, OtherStep DEF SweepIfActive, TypeOK, db, seatVars, moneyVars
  <2> QED BY <2>3, <2>4
<1> QED BY <1>3, <1>4

\* A transaction that ends without a trace but for the loop it belongs to.
LEMMA AbortInv ==
    ASSUME Inv, NEW w \in Workers, SweepFails(w) \/ Crash(w)
    PROVE  Inv'
<1>1. TypeOK /\ job[w] \in Job BY DEF Inv, TypeOK
<1>2. EndTxn(w) /\ UNCHANGED <<res, wallet, freeSeats, flightStatus, available, holder, ledger, now, swept>>
  BY DEF SweepFails, Crash, db, seatVars, moneyVars
<1>3. lock' \in [Rows -> Workers \cup {None}] /\ txn' \in [Workers -> Txn]
      /\ TxnOK(w)' /\ \A v \in Workers \ {w} : Undisturbed(v)
  BY <1>1, <1>2, Ending
<1>4. job' \in [Workers -> Job]
  <2>1. CASE Crash(w)
    BY <1>1, <2>1, NoJobType, SetJobType DEF Crash
  <2>2. CASE SweepFails(w)
    <3>1. txn[w].ref \in Refs
      BY <1>1, <2>2 DEF SweepFails, Inv, ReadsStayTrue, TxnOK, ReleaseReads, NoTxn
    <3>2. [job[w] EXCEPT !.failed = @ \cup {txn[w].ref}] \in Job
      BY <1>1, <3>1, JobEdit
    <3> QED BY <1>1, <2>2, <3>2, SetJobType DEF SweepFails
  <2> QED BY <2>1, <2>2
<1>5. TypeOK'
  BY <1>1, <1>2, <1>3, <1>4 DEF TypeOK
<1> QED BY <1>3, <1>5, OthersUndisturbed DEF Inv

\* Locking a reservation, then the flight, for the passenger form.
LEMMA LockReservationForPassengersInv ==
    ASSUME Inv, NEW w \in Workers, NEW r \in Refs, NEW ids \in SUBSET NationalIds,
           LockReservationForPassengers(w, r, ids)
    PROVE  Inv'
<1> DEFINE next == [NoTxn EXCEPT !.op = "passengers", !.pc = "flight", !.ref = r, !.ids = ids]
<1>1. TypeOK BY DEF Inv
<1>2. CanLock(r) /\ Advance(w, r, next) /\ UNCHANGED <<now, db, swept, job>>
      /\ IsActive(r) /\ Cardinality(ids) = res[r].count
  BY DEF LockReservationForPassengers, CanEditPassengers, IsActive
<1>3. UNCHANGED <<res, wallet, freeSeats>> /\ job' \in [Workers -> Job]
  BY <1>1, <1>2 DEF TypeOK, db, seatVars, moneyVars
<1>4. next \in Txn
  BY DEF NoTxn, Txn
<1> HIDE DEF next
<1>5. txn'[w] = next /\ lock'[r] = w
  BY <1>1, <1>2, <1>3, <1>4, Advancing
<1>6. PassengerReads(w)'
  BY <1>2, <1>3, <1>5 DEF next, PassengerReads, IsActive, NoTxn
<1>7. TxnOK(w)'
  BY <1>5, <1>6 DEF next, TxnOK, NoTxn
<1> QED BY <1>2, <1>3, <1>4, <1>7, AdvancingInv

\* The flight's row is what makes the check of the ids and their save one step.
LEMMA LockFlightForPassengersInv ==
    ASSUME Inv, NEW w \in Workers, LockFlightForPassengers(w)
    PROVE  Inv'
<1> DEFINE t == txn[w]
           f == FlightFor(t.ref)
           next == [t EXCEPT !.pc = "commit"]
<1>1. TypeOK /\ TxnOK(w) BY DEF Inv, ReadsStayTrue
<1>2. t \in Txn /\ t.op = "passengers" /\ t.pc = "flight" /\ PassengerReads(w)
  BY <1>1 DEF TypeOK, LockFlightForPassengers, Doing, TxnOK, NoTxn, Releasing
<1>3. CASE Rollback(w)
  BY <1>3, RollingBack
<1>4. CASE Advance(w, f, next) /\ UNCHANGED <<now, db, swept, job>>
  <2>1. f \in Flights /\ CanLock(f)
    BY <1>1, <1>2, ShapeAssumption
    DEF PassengerReads, LockFlightForPassengers, FlightFor, IsActive, TypeOK, Reservation, Absent
  <2>2. UNCHANGED <<res, wallet, freeSeats>> /\ job' \in [Workers -> Job]
    BY <1>1, <1>4 DEF TypeOK, db, seatVars, moneyVars
  <2>3. next \in Txn
    BY <1>2 DEF Txn
  <2> HIDE DEF next, f
  <2>4. txn'[w] = next /\ lock'[f] = w /\ \A x \in Rows : lock[x] = w => lock'[x] = w
    BY <1>1, <1>4, <2>1, <2>2, <2>3, Advancing
  <2>5. PassengerReads(w)'
    BY <1>2, <2>2, <2>4 DEF f, next, PassengerReads, IsActive, FlightFor, Txn
  <2>6. TxnOK(w)'
    BY <1>2, <2>4, <2>5 DEF next, TxnOK, Txn
  <2> QED BY <1>4, <2>1, <2>2, <2>3, <2>6, AdvancingInv
<1> QED BY <1>3, <1>4 DEF LockFlightForPassengers

\* Saving the passengers writes the locked reservation only.
LEMMA CommitPassengersInv ==
    ASSUME Inv, NEW w \in Workers, CommitPassengers(w)
    PROVE  Inv'
<1> DEFINE t == txn[w]
<1>1. TypeOK /\ TxnOK(w) BY DEF Inv, ReadsStayTrue
<1>2. t \in Txn /\ t.op = "passengers" /\ PassengerReads(w)
  BY <1>1 DEF TypeOK, CommitPassengers, Doing, TxnOK, NoTxn, Releasing
<1>3. t.ref \in Refs /\ lock[t.ref] = w /\ res[t.ref] \in Reservation /\ t.ids \in SUBSET NationalIds
  BY <1>1, <1>2 DEF PassengerReads, IsActive, TypeOK, Absent, Txn
<1>4. EndTxn(w) /\ res' = [res EXCEPT ![t.ref].ids = t.ids]
      /\ UNCHANGED <<now, flightStatus, available, freeSeats, holder, wallet, ledger, swept, job>>
  BY DEF CommitPassengers, seatVars, moneyVars
<1> HIDE DEF t
<1>5. res' \in [Refs -> Reservation \cup {Absent}]
  <2>1. [res[t.ref] EXCEPT !.ids = t.ids] \in Reservation
    BY <1>3 DEF Reservation
  <2> QED BY <1>1, <1>3, <1>4, <2>1 DEF TypeOK
<1>6. \A r \in Refs : lock[r] # w => res'[r] = res[r]
  BY <1>1, <1>3, <1>4 DEF TypeOK
<1>7. lock' \in [Rows -> Workers \cup {None}] /\ txn' \in [Workers -> Txn]
      /\ TxnOK(w)' /\ \A v \in Workers \ {w} : Undisturbed(v)
  BY <1>1, <1>4, <1>6, Ending
<1>8. TypeOK'
  BY <1>1, <1>4, <1>5, <1>7 DEF TypeOK
<1> QED BY <1>7, <1>8, OthersUndisturbed DEF Inv

\* A deposit reads the balance under the user's lock ...
LEMMA LockUserForTopUpInv ==
    ASSUME Inv, NEW w \in Workers, NEW u \in Users, NEW amount \in TopUps,
           LockUserForTopUp(w, u, amount)
    PROVE  Inv'
<1> DEFINE next == [NoTxn EXCEPT !.op = "deposit", !.pc = "charge", !.user = u,
                                 !.amount = amount, !.balance = wallet[u]]
<1>1. TypeOK BY DEF Inv
<1>2. CanLock(u) /\ Advance(w, u, next) /\ UNCHANGED <<now, db, swept, job>>
  BY DEF LockUserForTopUp
<1>3. UNCHANGED <<res, wallet, freeSeats>> /\ job' \in [Workers -> Job]
  BY <1>1, <1>2 DEF TypeOK, db, seatVars, moneyVars
<1>4. amount \in Nat /\ amount > 0 /\ wallet[u] \in Nat
  BY <1>1, SettingsAssumption DEF TypeOK
<1>5. next \in Txn
  BY <1>4 DEF NoTxn, Txn
<1> HIDE DEF next
<1>6. txn'[w] = next /\ lock'[u] = w
  BY <1>1, <1>2, <1>3, <1>5, Advancing
<1>7. TxnOK(w)'
  BY <1>3, <1>6 DEF next, TxnOK, DepositReads, NoTxn
<1> QED BY <1>2, <1>3, <1>5, <1>7, AdvancingInv

\* ... and writes what it computed from it.
LEMMA CommitTopUpInv ==
    ASSUME Inv, NEW w \in Workers, CommitTopUp(w)
    PROVE  Inv'
<1> DEFINE t == txn[w]
           next == [NoJob EXCEPT !.kind = "tell", !.user = t.user, !.at = Len(ledger[t.user]) + 1]
<1>1. TypeOK /\ TxnOK(w) BY DEF Inv, ReadsStayTrue
<1>2. t \in Txn /\ t.op = "deposit" /\ DepositReads(w)
  BY <1>1 DEF TypeOK, CommitTopUp, Doing, TxnOK, NoTxn, Releasing
<1>3. t.user \in Users /\ lock[t.user] = w /\ t.balance \in Nat /\ t.amount \in Nat
  BY <1>2 DEF DepositReads, Txn
<1>4. ApplyWalletChange(t.user, "charge", t.balance, t.amount, None) /\ EndTxn(w)
      /\ SetJob(w, next)
      /\ UNCHANGED <<now, flightStatus, available, freeSeats, holder, res, swept>>
  BY DEF CommitTopUp, seatVars
<1>5. next \in Job
  <2>1. Len(ledger[t.user]) + 1 \in Nat
    BY <1>1, <1>3 DEF TypeOK
  <2> QED BY <1>3, <2>1 DEF NoJob, Job
<1> HIDE DEF next
<1>6. job' \in [Workers -> Job]
  BY <1>1, <1>4, <1>5, SetJobType
<1>7. wallet' \in [Users -> Nat] /\ ledger' \in [Users -> Seq(Entry)]
      /\ \A v \in Users \ {t.user} : wallet'[v] = wallet[v]
  <2>1. t.balance + t.amount \in Nat
    BY <1>3
  <2> QED BY <1>1, <1>3, <1>4, <2>1, WalletChangeType
<1>8. lock' \in [Rows -> Workers \cup {None}] /\ txn' \in [Workers -> Txn]
      /\ TxnOK(w)' /\ \A v \in Workers \ {w} : Undisturbed(v)
  <2>1. \A u \in Users : lock[u] # w => wallet'[u] = wallet[u]
    BY <1>3, <1>7
  <2> QED BY <1>1, <1>4, <2>1, Ending
<1>9. TypeOK'
  BY <1>1, <1>4, <1>6, <1>7, <1>8 DEF TypeOK
<1> QED BY <1>8, <1>9, OthersUndisturbed DEF Inv

\* Steps that write notifications or flight statuses only.
LEMMA UnlockedStepInv ==
    ASSUME Inv, NEW w \in Workers,
           \/ WarnNext(w) \/ TellTopUp(w)
           \/ \E f \in Flights : CancelFlight(w, f)
           \/ ActivateFlights(w) \/ CompleteFlights(w)
    PROVE  Inv'
<1>1. TypeOK /\ job[w] \in Job BY DEF Inv, TypeOK
<1>2. UNCHANGED <<res, wallet, ledger, freeSeats, available, holder, lock, txn>>
      /\ UNCHANGED <<now, swept>>
  BY DEF WarnNext, TellTopUp, CancelFlight, ActivateFlights, CompleteFlights, seatVars, moneyVars
<1>3. now' \in Nat /\ swept' \in SUBSET Flights
  BY <1>1, <1>2 DEF TypeOK
<1>4. flightStatus' \in [Flights -> {"scheduled", "active", "completed", "cancelled"}]
  BY <1>1 DEF TypeOK, WarnNext, TellTopUp, CancelFlight, ActivateFlights, CompleteFlights, SetStatus
<1>5. job' \in [Workers -> Job]
  <2>1. CASE WarnNext(w)
    BY <1>1, <2>1, WithoutType, SetJobType DEF WarnNext
  <2>2. CASE TellTopUp(w) \/ CompleteFlights(w)
    BY <1>1, <2>2, NoJobType, SetJobType DEF TellTopUp, CompleteFlights
  <2>3. ASSUME NEW f \in Flights, CancelFlight(w, f)
        PROVE  job' \in [Workers -> Job]
    <3>1. [NoJob EXCEPT !.kind = "sweep", !.flight = f, !.pass = 1] \in Job
      BY DEF NoJob, Job
    <3> QED BY <1>1, <2>3, <3>1, SetJobType DEF CancelFlight
  <2>4. CASE ActivateFlights(w)
    <3>1. [NoJob EXCEPT !.kind = "sync", !.at = now] \in Job
      BY <1>1 DEF NoJob, Job, TypeOK
    <3> QED BY <1>1, <2>4, <3>1, SetJobType DEF ActivateFlights
  <2> QED BY <2>1, <2>2, <2>3, <2>4
<1> QED BY <1>2, <1>3, <1>4, <1>5, OtherStep

\* Time passes.
LEMMA TickInv == ASSUME Inv, Tick PROVE Inv'
<1>1. UNCHANGED <<res, wallet, ledger, freeSeats, available, holder, lock, txn>>
      /\ UNCHANGED <<flightStatus, swept, job>> /\ now' = now + 1
  BY DEF Tick, db, seatVars, moneyVars
<1> QED BY <1>1, OtherStep DEF Inv, TypeOK

\* Nothing happens.
LEMMA StutterInv == ASSUME Inv, UNCHANGED vars PROVE Inv'
<1>1. UNCHANGED <<res, wallet, ledger, freeSeats, available, holder, lock, txn>>
      /\ UNCHANGED <<flightStatus, swept, job, now>>
  BY DEF vars, db, seatVars, moneyVars
<1> QED BY <1>1, OtherStep DEF Inv, TypeOK

-----------------------------------------------------------------------------
(* The invariant.                                                          *)

\* Nothing has been read yet.
LEMMA InitInv == Init => Inv
  BY InitTypeOK DEF Init, Inv, ReadsStayTrue, TxnOK

\* Every action keeps the invariant.
LEMMA NextInv == Inv /\ [Next]_vars => Inv'
<1> SUFFICES ASSUME Inv, [Next]_vars PROVE Inv'
  OBVIOUS
<1>1. ASSUME NEW w \in Workers, Request(w)
      PROVE  Inv'
  BY <1>1, LockClassForBookingInv, LockReservationForPaymentInv, LockReservationForCancelInv,
     LockReservationForPassengersInv, UnlockedStepInv, LockUserForTopUpInv DEF Request
<1>2. ASSUME NEW w \in Workers, Continue(w)
      PROVE  Inv'
  BY <1>2, LockUserForBookingInv, CommitBookingInv, LockUserForPaymentInv, CommitPaymentInv,
     LockClassForReleaseInv, LockUserForRefundInv, CommitReleaseInv, LockFlightForPassengersInv,
     CommitPassengersInv, CommitTopUpInv, UnlockedStepInv, LoopInv, ListingInv DEF Continue
<1>3. ASSUME NEW w \in Workers,
             ListOverdue(w) \/ ListExpiring(w) \/ ActivateFlights(w) \/ SweepFails(w) \/ Crash(w)
      PROVE  Inv'
  BY <1>3, ListingInv, UnlockedStepInv, AbortInv
<1>4. CASE Tick \/ Quiet \/ UNCHANGED vars
  BY <1>4, TickInv, StutterInv DEF Quiet
<1> QED BY <1>1, <1>2, <1>3, <1>4 DEF Next

\* The invariant from which everything else about Booking follows.
THEOREM Invariance == Spec => []Inv
  BY InitInv, NextInv, PTL DEF Spec

\* The tables keep their types, and no wallet is ever overdrawn, for every
\* number of users, workers, seats ... and every price and penalty.
THEOREM TypeCorrect == Spec => []TypeOK
<1>1. Inv => TypeOK BY DEF Inv
<1> QED BY <1>1, Invariance, PTL

\* What a transaction read under its locks stays true until it commits.
THEOREM LocksProtectReads == Spec => []ReadsStayTrue
<1>1. Inv => ReadsStayTrue BY DEF Inv
<1> QED BY <1>1, Invariance, PTL

-----------------------------------------------------------------------------
(* Seats.  A step either leaves seats and the reservations' hold on them   *)
(* alone, or is a booking's commit, or a release's.                        *)

SeatInv == SeatsMatchReservations /\ CounterMatchesSeats

\* What SeatInv knows of a reservation.
SameHold(r) ==
    /\ IsActive(r)' = IsActive(r)
    /\ IsActive(r) => res'[r].class = res[r].class /\ res'[r].count = res[r].count

HoldsKept == UNCHANGED <<available, freeSeats, holder>> /\ \A r \in Refs : SameHold(r)

\* Sets of seats are finite.
LEMMA FiniteSeats ==
    ASSUME NEW S \in SUBSET Seats
    PROVE  IsFiniteSet(S) /\ Cardinality(S) \in Nat
  BY KeysAssumption, FS_Subset, FS_CardinalityType

\* A step that changes no hold keeps SeatInv.
LEMMA HoldsKeptInv == ASSUME SeatInv, HoldsKept PROVE SeatInv'
<1>1. \A s \in Seats : (s \in freeSeats <=> holder[s] = None)'
  BY DEF SeatInv, SeatsMatchReservations, HoldsKept
<1>2. CounterMatchesSeats'
  BY DEF SeatInv, CounterMatchesSeats, HoldsKept, SeatsIn
<1>3. ASSUME NEW r \in Refs
      PROVE  (IF IsActive(r)
              THEN /\ SeatsHeld(r) \subseteq SeatsIn(res[r].class)
                   /\ Cardinality(SeatsHeld(r)) = res[r].count
                   /\ SideBySide(SeatsHeld(r))
              ELSE SeatsHeld(r) = {})'
  <2>1. SeatsHeld(r)' = SeatsHeld(r) /\ SameHold(r)
    BY DEF HoldsKept, SeatsHeld
  <2>2. SideBySide(SeatsHeld(r))' <=> SideBySide(SeatsHeld(r))
    BY <2>1 DEF SideBySide
  <2> QED BY <2>1, <2>2 DEF SeatInv, SeatsMatchReservations, SameHold, SeatsIn
<1> QED BY <1>1, <1>2, <1>3 DEF SeatInv, SeatsMatchReservations

\* A booking's commit: the seats it found free under the lock of their class
\* become those of the new reservation.
LEMMA HoldSeatsSeats ==
    ASSUME Inv, SeatInv, NEW w \in Workers, NEW r \in Refs,
           Doing(w, "create", "commit"), res[r].status = "none", HoldSeats(w, r)
    PROVE  SeatInv'
<1> DEFINE t == txn[w]
           S == t.seats
           c == t.class
           n == Cardinality(S)
<1>1. TypeOK /\ BookingReads(w)
  BY DEF Inv, ReadsStayTrue, TxnOK, Doing, NoTxn, Releasing
<1>2. c \in Classes /\ S \subseteq freeSeats /\ S \subseteq SeatsIn(c) /\ S \in SUBSET Seats
      /\ SideBySide(S) /\ n \in Nat /\ IsFiniteSet(S)
  BY <1>1, FiniteSeats DEF BookingReads, SeatsIn
<1>3. /\ freeSeats' = freeSeats \ S
      /\ available' = [available EXCEPT ![c] = @ - n]
      /\ holder' = [s \in Seats |-> IF s \in S THEN r ELSE holder[s]]
      /\ \A q \in Refs \ {r} : res'[q] = res[q]
      /\ res'[r].status = "pending" /\ res'[r].class = c /\ res'[r].count = n
  BY <1>1 DEF HoldSeats, TypeOK, Absent
<1> HIDE DEF S, c, n
<1>4. \A s \in Seats : s \in freeSeats <=> holder[s] = None
  BY DEF SeatInv, SeatsMatchReservations
<1>5. SeatsHeld(r) = {}
  BY DEF SeatInv, SeatsMatchReservations, IsActive
<1>6. SeatsHeld(r)' = S
  BY <1>2, <1>3, <1>5 DEF SeatsHeld
<1>7. \A q \in Refs \ {r} : SeatsHeld(q)' = SeatsHeld(q)
  BY <1>2, <1>3, <1>4, KeysAssumption DEF SeatsHeld
<1>8. \A s \in Seats : (s \in freeSeats <=> holder[s] = None)'
  BY <1>2, <1>3, <1>4, KeysAssumption
<1>9. ASSUME NEW q \in Refs
      PROVE  (IF IsActive(q)
              THEN /\ SeatsHeld(q) \subseteq SeatsIn(res[q].class)
                   /\ Cardinality(SeatsHeld(q)) = res[q].count
                   /\ SideBySide(SeatsHeld(q))
              ELSE SeatsHeld(q) = {})'
  <2>1. CASE q = r
    BY <1>2, <1>3, <1>6, <2>1 DEF n, IsActive, SeatsIn, SideBySide
  <2>2. CASE q # r
    <3>1. SeatsHeld(q)' = SeatsHeld(q) /\ res'[q] = res[q]
      BY <1>3, <1>7, <2>2
    <3>2. SideBySide(SeatsHeld(q))' <=> SideBySide(SeatsHeld(q))
      BY <3>1 DEF SideBySide
    <3> QED BY <3>1, <3>2 DEF SeatInv, SeatsMatchReservations, IsActive, SeatsIn
  <2> QED BY <2>1, <2>2
<1>10. ASSUME NEW d \in Classes
       PROVE  available'[d] = Cardinality(freeSeats' \cap SeatsIn(d))
  <2> DEFINE free == freeSeats \cap SeatsIn(d)
  <2>1. available[d] = Cardinality(free) /\ free \in SUBSET Seats
        /\ available \in [Classes -> Int]
    BY <1>1 DEF SeatInv, CounterMatchesSeats, TypeOK
  <2>2. CASE d = c
    <3>1. freeSeats' \cap SeatsIn(d) = free \ S /\ free \cap S = S
      BY <1>2, <1>3, <2>2
    <3>2. IsFiniteSet(free) /\ Cardinality(free) \in Nat
      BY <2>1, FiniteSeats
    <3> HIDE DEF free
    <3>3. Cardinality(free \ S) = Cardinality(free) - Cardinality(free \cap S)
      BY <3>2, FS_Difference
    <3>4. Cardinality(free \ S) = Cardinality(free) - n
      BY <3>1, <3>3 DEF n
    <3> QED BY <1>2, <1>3, <2>1, <2>2, <3>1, <3>4
  <2>3. CASE d # c
    <3>1. freeSeats' \cap SeatsIn(d) = free
      BY <1>2, <1>3, <2>3 DEF SeatsIn
    <3> QED BY <1>2, <1>3, <2>1, <2>3, <3>1
  <2> QED BY <2>2, <2>3
<1> QED BY <1>8, <1>9, <1>10 DEF SeatInv, SeatsMatchReservations, CounterMatchesSeats, SeatsIn

\* A release's commit: all seats of the reservation become free at once.
LEMMA CommitReleaseSeats ==
    ASSUME Inv, SeatInv, NEW w \in Workers, CommitRelease(w)
    PROVE  SeatInv'
<1>1. TypeOK /\ ReleaseReads(w)
  BY DEF Inv, ReadsStayTrue, TxnOK, CommitRelease, NoTxn, Releasing
<1> PICK r \in Refs : r = txn[w].ref
  BY <1>1 DEF ReleaseReads
<1> DEFINE S == SeatsHeld(r)
           c == res[r].class
           n == Cardinality(S)
<1>2. c \in Classes /\ IsActive(r)
  BY <1>1 DEF ReleaseReads, TypeOK, IsActive, Reservation, Absent
<1>3. /\ freeSeats' = freeSeats \cup S
      /\ available' = [available EXCEPT ![c] = @ + n]
      /\ holder' = [s \in Seats |-> IF s \in S THEN None ELSE holder[s]]
      /\ \A q \in Refs \ {r} : res'[q] = res[q]
      /\ res'[r].status = "cancelled"
  BY <1>1, <1>2 DEF CommitRelease, SeatsBack, LinksWithout, TypeOK
<1>4. S \in SUBSET Seats /\ S \subseteq SeatsIn(c)
  BY <1>2 DEF SeatInv, SeatsMatchReservations, SeatsHeld
<1>5. \A s \in Seats : s \in freeSeats <=> holder[s] = None
  BY DEF SeatInv, SeatsMatchReservations
<1>6. S \cap freeSeats = {}
  BY <1>2, <1>4, <1>5, KeysAssumption DEF SeatsHeld
<1>7. SeatsHeld(r)' = {} /\ \A q \in Refs \ {r} : SeatsHeld(q)' = SeatsHeld(q)
  <2>1. \A s \in Seats : holder'[s] # r
    BY <1>2, <1>3, KeysAssumption DEF SeatsHeld
  <2>2. \A q \in Refs \ {r}, s \in Seats : holder'[s] = q <=> holder[s] = q
    BY <1>2, <1>3, KeysAssumption DEF SeatsHeld
  <2>3. SeatsHeld(r)' = {}
    BY <2>1 DEF SeatsHeld
  <2>4. ASSUME NEW q \in Refs \ {r} PROVE SeatsHeld(q)' = SeatsHeld(q)
    BY <2>2 DEF SeatsHeld
  <2> QED BY <2>3, <2>4
<1>8. \A s \in Seats : (s \in freeSeats <=> holder[s] = None)'
  BY <1>3, <1>5
<1> HIDE DEF S, c, n
<1>9. ASSUME NEW q \in Refs
      PROVE  (IF IsActive(q)
              THEN /\ SeatsHeld(q) \subseteq SeatsIn(res[q].class)
                   /\ Cardinality(SeatsHeld(q)) = res[q].count
                   /\ SideBySide(SeatsHeld(q))
              ELSE SeatsHeld(q) = {})'
  <2>1. CASE q = r
    <3>1. SeatsHeld(q)' = {}
      BY <1>7, <2>1 DEF SeatsHeld
    <3>2. ~IsActive(q)'
      BY <1>3, <2>1 DEF IsActive
    <3> QED BY <3>1, <3>2
  <2>2. CASE q # r
    <3>1. SeatsHeld(q)' = SeatsHeld(q) /\ res'[q] = res[q]
      BY <1>3, <1>7, <2>2
    <3>2. SideBySide(SeatsHeld(q))' <=> SideBySide(SeatsHeld(q))
      BY <3>1 DEF SideBySide
    <3> QED BY <3>1, <3>2 DEF SeatInv, SeatsMatchReservations, IsActive, SeatsIn
  <2> QED BY <2>1, <2>2
<1>10. ASSUME NEW d \in Classes
       PROVE  available'[d] = Cardinality(freeSeats' \cap SeatsIn(d))
  <2> DEFINE free == freeSeats \cap SeatsIn(d)
  <2>1. available[d] = Cardinality(free) /\ free \in SUBSET Seats
        /\ available \in [Classes -> Int]
    BY <1>1 DEF SeatInv, CounterMatchesSeats, TypeOK
  <2>2. CASE d = c
    <3>1. freeSeats' \cap SeatsIn(d) = free \cup S /\ free \cap S = {}
      BY <1>3, <1>4, <1>6, <2>2
    <3>2. IsFiniteSet(free) /\ Cardinality(free) \in Nat /\ IsFiniteSet(S) /\ n \in Nat
      BY <1>4, <2>1, FiniteSeats DEF n
    <3> HIDE DEF free
    <3>3. Cardinality(free \cup S) = Cardinality(free) + Cardinality(S) - Cardinality(free \cap S)
      BY <3>2, FS_Union
    <3>4. Cardinality(free \cap S) = 0
      BY <3>1, FS_EmptySet
    <3>5. Cardinality(free \cup S) = Cardinality(free) + n
      BY <3>2, <3>3, <3>4 DEF n
    <3> QED BY <1>2, <1>3, <2>1, <2>2, <3>1, <3>2, <3>5
  <2>3. CASE d # c
    <3>1. freeSeats' \cap SeatsIn(d) = free
      BY <1>3, <1>4, <2>3 DEF SeatsIn
    <3> QED BY <1>2, <1>3, <2>1, <2>3, <3>1
  <2> QED BY <2>2, <2>3
<1> QED BY <1>8, <1>9, <1>10 DEF SeatInv, SeatsMatchReservations, CounterMatchesSeats, SeatsIn

\* A payment turns one active status into the other.
LEMMA CommitPaymentHolds ==
    ASSUME Inv, NEW w \in Workers, CommitPayment(w) PROVE HoldsKept
<1>1. TypeOK /\ PaymentReads(w)
  BY DEF Inv, ReadsStayTrue, TxnOK, CommitPayment, Doing, NoTxn, Releasing
<1>2. txn[w].ref \in Refs /\ res[txn[w].ref].status = "pending"
      /\ res' = [res EXCEPT ![txn[w].ref].status = "reserved", ![txn[w].ref].settledAt = now]
      /\ UNCHANGED <<available, freeSeats, holder>>
  BY <1>1 DEF PaymentReads, CommitPayment, seatVars
<1>3. \A r \in Refs : SameHold(r)
  BY <1>1, <1>2 DEF SameHold, IsActive, TypeOK
<1> QED BY <1>2, <1>3 DEF HoldsKept

\* The passenger form touches neither status nor seats.
LEMMA CommitPassengersHolds ==
    ASSUME Inv, NEW w \in Workers, CommitPassengers(w) PROVE HoldsKept
<1>1. TypeOK /\ PassengerReads(w)
  BY DEF Inv, ReadsStayTrue, TxnOK, CommitPassengers, Doing, NoTxn, Releasing
<1>2. txn[w].ref \in Refs /\ res' = [res EXCEPT ![txn[w].ref].ids = txn[w].ids]
      /\ UNCHANGED <<available, freeSeats, holder>>
  BY <1>1 DEF PassengerReads, CommitPassengers, seatVars
<1>3. \A r \in Refs : SameHold(r)
  BY <1>1, <1>2 DEF SameHold, IsActive, TypeOK
<1> QED BY <1>2, <1>3 DEF HoldsKept

\* Every other step leaves seats and reservations as they are.
LEMMA RowsKept ==
    ASSUME UNCHANGED <<res, seatVars>> PROVE HoldsKept
  BY DEF HoldsKept, SameHold, IsActive, seatVars

\* Asking for something, or failing, commits nothing.
LEMMA NoCommitYet ==
    ASSUME NEW w \in Workers,
           \/ Request(w) \/ ListOverdue(w) \/ ListExpiring(w) \/ ActivateFlights(w)
           \/ SweepFails(w) \/ Crash(w)
    PROVE  UNCHANGED <<res, seatVars>>
  BY DEF Request, ListOverdue, ListExpiring, ActivateFlights, SweepFails, Crash, db,
         LockClassForBooking, LockReservationForPayment, LockReservationForCancel,
         LockReservationForPassengers, CancelFlight, LockUserForTopUp

\* So do the locks a transaction takes before its commit, and the loops.
LEMMA NoCommitNow ==
    ASSUME NEW w \in Workers,
           \/ LockUserForBooking(w) \/ LockUserForPayment(w)
           \/ LockClassForRelease(w) \/ LockUserForRefund(w) \/ LockFlightForPassengers(w)
           \/ CommitTopUp(w) \/ TellTopUp(w) \/ Rollback(w)
           \/ ExpireNext(w) \/ ListForSweep(w) \/ SweepNext(w) \/ WarnNext(w)
           \/ CompleteFlights(w)
    PROVE  UNCHANGED <<res, seatVars>>
  BY DEF LockUserForBooking, LockUserForPayment, LockClassForRelease, LockUserForRefund,
         LockFlightForPassengers, CommitTopUp, TellTopUp, ExpireNext, ListForSweep, SweepNext,
         WarnNext, CompleteFlights, Rollback, db

\* At the start every seat is free.
LEMMA InitSeats == Init => SeatInv
<1> SUFFICES ASSUME Init PROVE SeatInv
  OBVIOUS
<1>1. \A r \in Refs : ~IsActive(r) /\ SeatsHeld(r) = {}
  BY KeysAssumption DEF Init, IsActive, SeatsHeld, Absent
<1>2. \A c \in Classes : Seats \cap SeatsIn(c) = SeatsIn(c)
  BY DEF SeatsIn
<1> QED BY <1>1, <1>2 DEF Init, SeatInv, SeatsMatchReservations, CounterMatchesSeats

\* Every action keeps SeatInv where Inv holds.
LEMMA NextSeats == Inv /\ SeatInv /\ [Next]_vars => SeatInv'
<1> SUFFICES ASSUME Inv, SeatInv, [Next]_vars PROVE SeatInv'
  OBVIOUS
<1>1. ASSUME NEW w \in Workers, Continue(w)
      PROVE  SeatInv'
  <2>1. CASE CommitBooking(w)
    BY <2>1, HoldSeatsSeats, NoCommitNow, RowsKept, HoldsKeptInv DEF CommitBooking
  <2>2. CASE CommitPayment(w)
    BY <2>2, CommitPaymentHolds, HoldsKeptInv
  <2>3. CASE CommitRelease(w)
    BY <2>3, CommitReleaseSeats
  <2>4. CASE CommitPassengers(w)
    BY <2>4, CommitPassengersHolds, HoldsKeptInv
  <2> QED BY <1>1, <2>1, <2>2, <2>3, <2>4, NoCommitNow, RowsKept, HoldsKeptInv DEF Continue
<1>2. ASSUME NEW w \in Workers,
             \/ Request(w) \/ ListOverdue(w) \/ ListExpiring(w) \/ ActivateFlights(w)
             \/ SweepFails(w) \/ Crash(w)
      PROVE  SeatInv'
  BY <1>2, NoCommitYet, RowsKept, HoldsKeptInv
<1>3. CASE Tick \/ Quiet \/ UNCHANGED vars
  BY <1>3, RowsKept, HoldsKeptInv DEF Tick, Quiet, vars, db
<1> QED BY <1>1, <1>2, <1>3 DEF Next

\* Both facts about seats, for every instance of Booking.
THEOREM SeatInvariance == Spec => []SeatInv
  BY InitSeats, NextSeats, Invariance, PTL DEF Spec

\* No seat is sold twice, lost, or left behind by a reservation that is over.
THEOREM SeatsAreNeverLost == Spec => []SeatsMatchReservations
<1>1. SeatInv => SeatsMatchReservations BY DEF SeatInv
<1> QED BY <1>1, SeatInvariance, PTL

\* available_seats never drifts from the seats.
THEOREM CounterNeverDrifts == Spec => []CounterMatchesSeats
<1>1. SeatInv => CounterMatchesSeats BY DEF SeatInv
<1> QED BY <1>1, SeatInvariance, PTL

-----------------------------------------------------------------------------
(* The sale.  Every commit of the core is one step of the abstract sale of *)
(* seats, every other step changes nothing it sees.                        *)

\* The abstract sale that a reservation stands for.
SaleOf(r) == [status |-> res[r].status, user |-> res[r].user, price |-> res[r].price]

\* The initial states map to initial states.
LEMMA InitSale == Init => Sale!Init
  BY DEF Init, Sale!Init, Sale!Unsold, Absent

\* A step that moves no seat, no money and no reservation is a stutter.
LEMMA SaleStutter ==
    ASSUME UNCHANGED <<holder, wallet>>, \A r \in Refs : SaleOf(r)' = SaleOf(r)
    PROVE  UNCHANGED Sale!vars
  BY DEF Sale!vars, SaleOf

\* A booking's commit is Hold.
LEMMA HoldSeatsSale ==
    ASSUME Inv, SeatInv, NEW w \in Workers, NEW r \in Refs,
           Doing(w, "create", "commit"), res[r].status = "none", HoldSeats(w, r)
    PROVE  Sale!Next
<1>1. TypeOK /\ BookingReads(w)
  BY DEF Inv, ReadsStayTrue, TxnOK, Doing, NoTxn, Releasing
<1> PICK u \in Users, class \in Classes, S \in SUBSET Seats :
      u = txn[w].user /\ class = txn[w].class /\ S = txn[w].seats
  BY <1>1 DEF BookingReads, SeatsIn
<1> PICK count \in 1 .. MaxSeats : count = Cardinality(S)
  BY <1>1 DEF BookingReads
<1> DEFINE price == Fare[class] * count
<1>2. S # {} /\ \A s \in S : holder[s] = None
  <2>1. S # {}
    <3>1. Cardinality(S) # 0
      BY SettingsAssumption
    <3> QED BY <3>1, FS_EmptySet
  <2> QED BY <1>1, <2>1 DEF BookingReads, SeatInv, SeatsMatchReservations
<1>3. res[r] = Absent
  BY <1>1 DEF TypeOK, Reservation
<1>4. price \in PossiblePrices
  BY DEF PossiblePrices
<1>5. /\ holder' = [s \in Seats |-> IF s \in S THEN r ELSE holder[s]]
      /\ \A q \in Refs \ {r} : res'[q] = res[q]
      /\ res'[r].status = "pending" /\ res'[r].user = u /\ res'[r].price = price
      /\ wallet' = wallet
  BY <1>1 DEF HoldSeats, TypeOK, Absent, moneyVars
<1> HIDE DEF price
<1>6. Sale!Hold(r, u, S, price)
  <2>1. [q \in Refs |-> SaleOf(q)]' =
          [[q \in Refs |-> SaleOf(q)] EXCEPT ![r] =
             [status |-> "pending", user |-> u, price |-> price]]
    BY <1>5 DEF SaleOf
  <2> QED BY <1>2, <1>3, <1>5, <2>1 DEF Sale!Hold, Sale!Unsold, Absent, SaleOf
<1> QED BY <1>4, <1>6 DEF Sale!Next

\* A payment's commit is Pay.
LEMMA CommitPaymentSale ==
    ASSUME Inv, NEW w \in Workers, CommitPayment(w)
    PROVE  Sale!Next
<1>1. TypeOK /\ PaymentReads(w) /\ txn[w].pc = "charge"
  BY DEF Inv, ReadsStayTrue, TxnOK, CommitPayment, Doing, NoTxn, Releasing
<1> PICK r \in Refs : r = txn[w].ref
  BY <1>1 DEF PaymentReads
<1>2. res[r].status = "pending" /\ res[r] \in Reservation
  BY <1>1 DEF PaymentReads, TypeOK, Absent
<1> PICK u \in Users, price \in Nat : u = res[r].user /\ price = res[r].price
  BY <1>2 DEF Reservation
<1>3. /\ holder' = holder
      /\ \A q \in Refs \ {r} : res'[q] = res[q]
      /\ res'[r].status = "reserved" /\ res'[r].user = u /\ res'[r].price = price
  BY <1>1, <1>2 DEF CommitPayment, TypeOK, Reservation, seatVars
<1>4. wallet[u] \in Nat /\ wallet[u] >= price /\ wallet' = [wallet EXCEPT ![u] = @ - price]
  <2>1. u = txn[w].user /\ price = txn[w].amount /\ txn[w].balance = wallet[u]
        /\ price \in 1 .. wallet[u] /\ wallet[u] \in Nat
    BY <1>1 DEF PaymentReads, TypeOK
  <2>2. wallet' = [wallet EXCEPT ![u] = wallet[u] + (- price)]
    BY <2>1 DEF CommitPayment, ApplyWalletChange
  <2>3. wallet[u] + (- price) = wallet[u] - price
    BY <2>1
  <2>4. wallet' = [wallet EXCEPT ![u] = wallet[u] - price]
    BY <2>2, <2>3, Zenon
  <2> QED BY <2>1, <2>4
<1>5. [q \in Refs |-> SaleOf(q)]' = [[q \in Refs |-> SaleOf(q)] EXCEPT ![r].status = "reserved"]
  BY <1>3 DEF SaleOf
<1>6. Sale!Pay(r)
  BY <1>2, <1>3, <1>4, <1>5 DEF Sale!Pay, SaleOf
<1> QED BY <1>6 DEF Sale!Next

\* A release's commit is Settle.
LEMMA CommitReleaseSale ==
    ASSUME Inv, NEW w \in Workers, CommitRelease(w)
    PROVE  Sale!Next
<1>1. TypeOK /\ ReleaseReads(w) /\ txn[w].pc = "release" /\ txn[w] \in Txn
  <2>1. TypeOK /\ TxnOK(w) /\ txn[w].op \in Releasing /\ txn[w].pc = "release"
    BY DEF Inv, ReadsStayTrue, CommitRelease
  <2> QED BY <2>1 DEF TxnOK, NoTxn, Releasing, TypeOK
<1> PICK r \in Refs, refund \in Nat : r = txn[w].ref /\ refund = txn[w].amount
  BY <1>1 DEF ReleaseReads, Txn
<1>2. res[r].status \in {"pending", "reserved"} /\ res[r] \in Reservation
      /\ (IF refund > 0 THEN res[r].status = "reserved" ELSE IsActive(r))
  BY <1>1 DEF ReleaseReads, TypeOK, Absent, IsActive, Reservation
<1> PICK u \in Users, price \in Nat : u = res[r].user /\ price = res[r].price
  BY <1>2 DEF Reservation
<1>3. refund \in 0 .. price /\ (res[r].status = "pending" => refund = 0)
  BY <1>1, <1>2 DEF ReleaseReads
<1>4. /\ holder' = [s \in Seats |-> IF holder[s] = r THEN None ELSE holder[s]]
      /\ \A q \in Refs \ {r} : res'[q] = res[q]
      /\ res'[r].status = "cancelled" /\ res'[r].user = u /\ res'[r].price = price
  BY <1>1, <1>2 DEF CommitRelease, LinksWithout, SeatsHeld, TypeOK, Reservation
<1>5. wallet' = [wallet EXCEPT ![u] = @ + refund]
  <2>1. CASE refund > 0
    BY <1>1, <2>1 DEF CommitRelease, ApplyWalletChange, ReleaseReads
  <2>2. CASE ~(refund > 0)
    <3>1. wallet' = wallet /\ wallet[u] \in Nat /\ refund = 0
      BY <1>1, <2>2 DEF CommitRelease, moneyVars, TypeOK
    <3>2. wallet[u] + refund = wallet[u]
      BY <3>1
    <3> QED BY <1>1, <3>1, <3>2 DEF TypeOK
  <2> QED BY <2>1, <2>2
<1>6. [q \in Refs |-> SaleOf(q)]' = [[q \in Refs |-> SaleOf(q)] EXCEPT ![r].status = "cancelled"]
  BY <1>4 DEF SaleOf
<1>7. Sale!Settle(r, refund)
  BY <1>2, <1>3, <1>4, <1>5, <1>6 DEF Sale!Settle, SaleOf
<1> QED BY <1>3, <1>7 DEF Sale!Next

\* A deposit's commit is TopUp.
LEMMA CommitTopUpSale ==
    ASSUME Inv, NEW w \in Workers, CommitTopUp(w)
    PROVE  Sale!Next
<1>1. TypeOK /\ DepositReads(w)
  BY DEF Inv, ReadsStayTrue, TxnOK, CommitTopUp, Doing, NoTxn, Releasing
<1> PICK u \in Users, amount \in TopUps :
      u = txn[w].user /\ amount = txn[w].amount /\ txn[w].balance = wallet[u]
  BY <1>1 DEF DepositReads
<1>2. wallet' = [wallet EXCEPT ![u] = @ + amount] /\ holder' = holder /\ res' = res
  BY DEF CommitTopUp, ApplyWalletChange, seatVars
<1>3. Sale!TopUp(u, amount)
  BY <1>2 DEF Sale!TopUp
<1> QED BY <1>3 DEF Sale!Next

\* Nothing but these four commits touches what SeatSale sees.
LEMMA OtherStepSale ==
    ASSUME NEW w \in Workers,
           \/ Request(w) \/ ListOverdue(w) \/ ListExpiring(w) \/ ActivateFlights(w)
           \/ SweepFails(w) \/ Crash(w) \/ Rollback(w)
           \/ LockUserForBooking(w) \/ LockUserForPayment(w)
           \/ LockClassForRelease(w) \/ LockUserForRefund(w) \/ LockFlightForPassengers(w)
           \/ TellTopUp(w) \/ ExpireNext(w) \/ ListForSweep(w) \/ SweepNext(w) \/ WarnNext(w)
           \/ CompleteFlights(w)
    PROVE  UNCHANGED Sale!vars
<1>1. UNCHANGED <<res, seatVars>>
  BY NoCommitYet, NoCommitNow
<1>2. UNCHANGED wallet
  BY DEF Request, ListOverdue, ListExpiring, ActivateFlights, SweepFails, Crash, db, moneyVars,
         LockClassForBooking, LockReservationForPayment, LockReservationForCancel,
         LockReservationForPassengers, CancelFlight, LockUserForTopUp,
         LockUserForBooking, LockUserForPayment, LockClassForRelease, LockUserForRefund,
         LockFlightForPassengers, TellTopUp, ExpireNext, ListForSweep, SweepNext,
         WarnNext, CompleteFlights, Rollback
<1> QED BY <1>1, <1>2, SaleStutter DEF SaleOf, seatVars

\* The passenger form is a stutter.
LEMMA CommitPassengersSale ==
    ASSUME Inv, NEW w \in Workers, CommitPassengers(w)
    PROVE  UNCHANGED Sale!vars
<1>1. TypeOK /\ PassengerReads(w)
  BY DEF Inv, ReadsStayTrue, TxnOK, CommitPassengers, Doing, NoTxn, Releasing
<1>2. \A r \in Refs : SaleOf(r)' = SaleOf(r)
  BY <1>1 DEF PassengerReads, CommitPassengers, TypeOK, SaleOf
<1> QED BY <1>2, SaleStutter DEF CommitPassengers, seatVars, moneyVars

\* Every step of Booking is a step of SeatSale or a stutter.
LEMMA NextSale == Inv /\ SeatInv /\ [Next]_vars => [Sale!Next]_(Sale!vars)
<1> SUFFICES ASSUME Inv, SeatInv, [Next]_vars PROVE Sale!Next \/ UNCHANGED Sale!vars
  OBVIOUS
<1>1. ASSUME NEW w \in Workers, Continue(w)
      PROVE  Sale!Next \/ UNCHANGED Sale!vars
  <2>1. CASE CommitBooking(w)
    BY <2>1, HoldSeatsSale, OtherStepSale DEF CommitBooking
  <2> QED BY <1>1, <2>1, CommitPaymentSale, CommitReleaseSale, CommitTopUpSale,
             CommitPassengersSale, OtherStepSale DEF Continue
<1>2. ASSUME NEW w \in Workers,
             \/ Request(w) \/ ListOverdue(w) \/ ListExpiring(w) \/ ActivateFlights(w)
             \/ SweepFails(w) \/ Crash(w)
      PROVE  UNCHANGED Sale!vars
  BY <1>2, OtherStepSale
<1>3. CASE Tick \/ Quiet \/ UNCHANGED vars
  BY <1>3, SaleStutter DEF Tick, Quiet, vars, db, seatVars, moneyVars, SaleOf
<1> QED BY <1>1, <1>2, <1>3 DEF Next

\* The core sells seats exactly as SeatSale says: no seat to two reservations,
\* no payment that is not in the wallet, no refund above the price, and all of
\* it atomically, whatever the workers' interleaving.
THEOREM BookingImplementsSale == Spec => ImplementsSale
<1>1. Spec => Sale!Init /\ [][Sale!Next]_(Sale!vars)
  BY InitSale, NextSale, Invariance, SeatInvariance, PTL DEF Spec
<1> QED BY <1>1, PTL DEF ImplementsSale, Sale!Spec

=============================================================================
