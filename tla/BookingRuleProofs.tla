-------------------------- MODULE BookingRuleProofs --------------------------
(***************************************************************************)
(* The rules of the booking core, for every instance of Booking: the       *)
(* ledger explains every wallet, nobody ever has more unpaid reservations  *)
(* than the limit, a reservation is charged and refunded exactly as its    *)
(* columns say, no notification says what is not so, a national id is on   *)
(* two reservations only through a late payment, whoever paid for a flight *)
(* that was swept has the money back, and the reports add up.              *)
(***************************************************************************)
EXTENDS BookingProofs, Reports, WellFoundedInduction

-----------------------------------------------------------------------------
(* The ledger.                                                             *)

LedgerInv == LedgerExplainsWallet /\ \A u \in Users : Len(ledger[u]) > 0

\* A change computed from the balance that is in the wallet extends the account.
LEMMA ApplyWalletChangeLedger ==
    ASSUME TypeOK, LedgerInv, NEW u \in Users, NEW kind \in {"charge", "payment", "refund"},
           NEW delta \in Int, wallet[u] + delta \in Nat, NEW r \in Refs \cup {None},
           ApplyWalletChange(u, kind, wallet[u], delta, r)
    PROVE  LedgerInv'
<1> PICK before \in Nat : before = wallet[u]
  BY DEF TypeOK
<1> PICK book \in Seq(Entry) : book = ledger[u]
  BY DEF TypeOK
<1> DEFINE e == [kind |-> kind, amount |-> delta, before |-> before,
                 after |-> before + delta, ref |-> r]
<1>1. wallet' = [wallet EXCEPT ![u] = before + delta] /\ ledger' = [ledger EXCEPT ![u] = Append(book, e)]
  BY DEF ApplyWalletChange
<1>2. e \in Entry /\ e.before = before /\ e.amount = delta /\ e.after = before + delta
  BY DEF Entry
<1> HIDE DEF e
<1>3. /\ Len(book) \in Nat /\ Len(book) > 0 /\ book[1].before = 0
      /\ \A i \in 1 .. Len(book) : book[i].after = book[i].before + book[i].amount
      /\ \A i \in 1 .. Len(book) - 1 : book[i + 1].before = book[i].after
      /\ before = book[Len(book)].after
  BY DEF LedgerInv, LedgerExplainsWallet
<1> DEFINE longer == Append(book, e)
<1>4. /\ Len(longer) = Len(book) + 1 /\ longer[Len(book) + 1] = e
      /\ \A i \in 1 .. Len(book) : longer[i] = book[i]
      /\ DOMAIN longer = 1 .. Len(longer)
  BY <1>2, <1>3
<1> HIDE DEF longer
<1>5. /\ longer[1].before = 0
      /\ \A i \in DOMAIN longer : longer[i].after = longer[i].before + longer[i].amount
      /\ longer[Len(longer)].after = before + delta
  <2>1. longer[1].before = 0
    BY <1>3, <1>4
  <2>2. longer[Len(longer)].after = before + delta
    BY <1>2, <1>4
  <2>3. ASSUME NEW i \in 1 .. Len(longer)
        PROVE  longer[i].after = longer[i].before + longer[i].amount
    <3>1. CASE i = Len(book) + 1
      BY <1>2, <1>4, <3>1
    <3>2. CASE i # Len(book) + 1
      <4>1. i \in 1 .. Len(book)
        BY <1>3, <1>4, <3>2
      <4> QED BY <1>3, <1>4, <4>1
    <3> QED BY <3>1, <3>2
  <2> QED BY <1>4, <2>1, <2>2, <2>3
<1>6. ASSUME NEW i \in 1 .. Len(longer) - 1
      PROVE  longer[i + 1].before = longer[i].after
  <2>1. CASE i = Len(book)
    BY <1>2, <1>3, <1>4, <2>1
  <2>2. CASE i # Len(book)
    <3>1. i \in 1 .. Len(book) - 1 /\ i \in 1 .. Len(book) /\ i + 1 \in 1 .. Len(book)
      BY <1>3, <1>4, <2>2
    <3>2. longer[i + 1] = book[i + 1] /\ longer[i] = book[i]
      BY <1>4, <3>1
    <3>3. book[i + 1].before = book[i].after
      BY <1>3, <3>1
    <3> QED BY <3>2, <3>3
  <2> QED BY <2>1, <2>2
<1>7. ledger' = [ledger EXCEPT ![u] = longer]
  BY <1>1 DEF longer
<1>8. ledger'[u] = longer /\ wallet'[u] = before + delta /\ Len(longer) > 0
  BY <1>1, <1>3, <1>4, <1>7 DEF TypeOK
<1>9. \A v \in Users \ {u} : ledger'[v] = ledger[v] /\ wallet'[v] = wallet[v]
  BY <1>1, <1>7 DEF TypeOK
<1>10. ASSUME NEW v \in Users
       PROVE  /\ Len(ledger'[v]) > 0
              /\ ledger'[v][1].before = 0
              /\ \A i \in DOMAIN ledger'[v] :
                   ledger'[v][i].after = ledger'[v][i].before + ledger'[v][i].amount
              /\ \A i \in 1 .. Len(ledger'[v]) - 1 : ledger'[v][i + 1].before = ledger'[v][i].after
              /\ wallet'[v] = ledger'[v][Len(ledger'[v])].after
  <2>1. CASE v = u
    BY <1>5, <1>6, <1>8, <2>1
  <2>2. CASE v # u
    <3>1. /\ Len(ledger[v]) > 0
          /\ ledger[v][1].before = 0
          /\ \A i \in DOMAIN ledger[v] :
               ledger[v][i].after = ledger[v][i].before + ledger[v][i].amount
          /\ \A i \in 1 .. Len(ledger[v]) - 1 : ledger[v][i + 1].before = ledger[v][i].after
          /\ wallet[v] = ledger[v][Len(ledger[v])].after
      BY DEF LedgerInv, LedgerExplainsWallet
    <3>2. ledger'[v] = ledger[v] /\ wallet'[v] = wallet[v]
      BY <1>9, <2>2
    <3> QED BY <3>1, <3>2
  <2> QED BY <2>1, <2>2
<1> QED BY <1>10 DEF LedgerInv, LedgerExplainsWallet

\* Everything but the three commits that move money leaves the account alone.
LEMMA MoneyKept ==
    ASSUME NEW w \in Workers,
           \/ Request(w) \/ ListOverdue(w) \/ ListExpiring(w) \/ ActivateFlights(w)
           \/ SweepFails(w) \/ Crash(w) \/ Rollback(w)
           \/ LockUserForBooking(w) \/ CommitBooking(w) \/ LockUserForPayment(w)
           \/ LockClassForRelease(w) \/ LockUserForRefund(w) \/ LockFlightForPassengers(w)
           \/ CommitPassengers(w)
           \/ TellTopUp(w) \/ ExpireNext(w) \/ ListForSweep(w) \/ SweepNext(w) \/ WarnNext(w)
           \/ CompleteFlights(w)
    PROVE  UNCHANGED moneyVars
  BY DEF Request, ListOverdue, ListExpiring, ActivateFlights, SweepFails, Crash, db,
         LockClassForBooking, LockReservationForPayment, LockReservationForCancel,
         LockReservationForPassengers, CancelFlight, LockUserForTopUp,
         LockUserForBooking, CommitBooking, HoldSeats, LockUserForPayment, LockClassForRelease,
         LockUserForRefund, LockFlightForPassengers, CommitPassengers, TellTopUp, ExpireNext,
         ListForSweep, SweepNext, WarnNext, CompleteFlights, Rollback

\* An account nobody touches stays explained.
LEMMA MoneyKeptLedger == ASSUME LedgerInv, UNCHANGED moneyVars PROVE LedgerInv'
  BY DEF LedgerInv, LedgerExplainsWallet, moneyVars

\* The first entry is the initial balance.
LEMMA InitLedger == Init => LedgerInv
<1> DEFINE first == [kind |-> "charge", amount |-> InitialBalance, before |-> 0,
                     after |-> InitialBalance, ref |-> None]
<1>1. first.before = 0 /\ first.after = first.before + first.amount
      /\ first.after = InitialBalance
  BY SettingsAssumption
<1> HIDE DEF first
<1>2. Len(<<first>>) = 1 /\ <<first>>[1] = first /\ DOMAIN <<first>> = {1}
  OBVIOUS
<1>3. Init => \A u \in Users : ledger[u] = <<first>> /\ wallet[u] = InitialBalance
  BY DEF Init, first
<1>4. 1 .. 1 - 1 = {}
  OBVIOUS
<1>5. ASSUME Init, NEW u \in Users
      PROVE  /\ Len(ledger[u]) = 1
             /\ ledger[u][1] = first
             /\ DOMAIN ledger[u] = {1}
             /\ 1 .. Len(ledger[u]) - 1 = {}
             /\ wallet[u] = first.after
  BY <1>1, <1>2, <1>3, <1>4, <1>5
<1>6. ASSUME Init, NEW u \in Users
      PROVE  /\ Len(ledger[u]) > 0
             /\ ledger[u][1].before = 0
             /\ \A i \in DOMAIN ledger[u] :
                  ledger[u][i].after = ledger[u][i].before + ledger[u][i].amount
             /\ \A i \in 1 .. Len(ledger[u]) - 1 : ledger[u][i + 1].before = ledger[u][i].after
             /\ wallet[u] = ledger[u][Len(ledger[u])].after
  BY <1>1, <1>5, <1>6
<1> QED BY <1>6 DEF LedgerInv, LedgerExplainsWallet

\* Every action keeps the account unbroken.
LEMMA NextLedger == Inv /\ LedgerInv /\ [Next]_vars => LedgerInv'
<1> SUFFICES ASSUME Inv, LedgerInv, [Next]_vars PROVE LedgerInv'
  OBVIOUS
<1>1. TypeOK BY DEF Inv
<1>2. ASSUME NEW w \in Workers, CommitPayment(w)
      PROVE  LedgerInv'
  <2>1. PaymentReads(w) /\ txn[w].pc = "charge"
    BY <1>1, <1>2 DEF Inv, ReadsStayTrue, TxnOK, CommitPayment, Doing, NoTxn, Releasing
  <2> PICK u \in Users, r \in Refs, amount \in Nat, before \in Nat :
        /\ u = txn[w].user /\ r = txn[w].ref /\ amount = txn[w].amount
        /\ before = txn[w].balance /\ before = wallet[u] /\ amount <= before
    BY <1>1, <2>1 DEF PaymentReads, TypeOK, Reservation, Absent, Txn
  <2>2. ApplyWalletChange(u, "payment", wallet[u], - amount, r)
    BY <1>2 DEF CommitPayment
  <2>3. - amount \in Int /\ wallet[u] + (- amount) \in Nat
    OBVIOUS
  <2> QED BY <1>1, <2>2, <2>3, ApplyWalletChangeLedger
<1>3. ASSUME NEW w \in Workers, CommitRelease(w)
      PROVE  LedgerInv'
  <2>1. ReleaseReads(w) /\ txn[w].pc = "release" /\ txn[w] \in Txn
    <3>1. TxnOK(w) /\ txn[w].op \in Releasing /\ txn[w].pc = "release"
      BY <1>3 DEF Inv, ReadsStayTrue, CommitRelease
    <3> QED BY <1>1, <3>1 DEF TxnOK, NoTxn, Releasing, TypeOK
  <2>2. CASE txn[w].amount > 0
    <3> PICK u \in Users, r \in Refs, amount \in Nat, before \in Nat :
          /\ u = res[txn[w].ref].user /\ r = txn[w].ref /\ amount = txn[w].amount
          /\ before = txn[w].balance /\ before = wallet[u]
      BY <1>1, <2>1, <2>2 DEF ReleaseReads, IsActive, TypeOK, Reservation, Absent, Txn
    <3>1. ApplyWalletChange(u, "refund", wallet[u], amount, r)
      BY <1>3, <2>2 DEF CommitRelease
    <3>2. wallet[u] + amount \in Nat
      OBVIOUS
    <3> QED BY <1>1, <3>1, <3>2, ApplyWalletChangeLedger
  <2>3. CASE ~(txn[w].amount > 0)
    BY <1>3, <2>3, MoneyKeptLedger DEF CommitRelease
  <2> QED BY <2>2, <2>3
<1>4. ASSUME NEW w \in Workers, CommitTopUp(w)
      PROVE  LedgerInv'
  <2>1. DepositReads(w)
    BY <1>1, <1>4 DEF Inv, ReadsStayTrue, TxnOK, CommitTopUp, Doing, NoTxn, Releasing
  <2> PICK u \in Users, amount \in TopUps, before \in Nat :
        /\ u = txn[w].user /\ amount = txn[w].amount
        /\ before = txn[w].balance /\ before = wallet[u]
    BY <1>1, <2>1 DEF DepositReads, TypeOK
  <2>2. ApplyWalletChange(u, "charge", wallet[u], amount, None)
    BY <1>4 DEF CommitTopUp
  <2>3. amount \in Int /\ wallet[u] + amount \in Nat
    BY SettingsAssumption
  <2> PICK r \in Refs \cup {None} : r = None
    OBVIOUS
  <2>4. ApplyWalletChange(u, "charge", wallet[u], amount, r)
    BY <2>2
  <2> QED BY <1>1, <2>3, <2>4, ApplyWalletChangeLedger
<1>5. ASSUME NEW w \in Workers, Continue(w)
      PROVE  LedgerInv'
  BY <1>2, <1>3, <1>4, <1>5, MoneyKept, MoneyKeptLedger DEF Continue
<1>6. ASSUME NEW w \in Workers,
             \/ Request(w) \/ ListOverdue(w) \/ ListExpiring(w) \/ ActivateFlights(w)
             \/ SweepFails(w) \/ Crash(w)
      PROVE  LedgerInv'
  BY <1>6, MoneyKept, MoneyKeptLedger
<1>7. CASE Tick \/ Quiet \/ UNCHANGED vars
  BY <1>7, MoneyKeptLedger DEF Tick, Quiet, vars, db
<1> QED BY <1>5, <1>6, <1>7 DEF Next

\* No update of a wallet is ever lost, and its ledger accounts for every cent.
THEOREM LedgerIsUnbroken == Spec => []LedgerExplainsWallet
<1>1. LedgerInv => LedgerExplainsWallet BY DEF LedgerInv
<1> QED BY <1>1, InitLedger, NextLedger, Invariance, PTL DEF Spec

-----------------------------------------------------------------------------
(* The limit of pending reservations.                                      *)

\* A booking that has counted under the user's lock has room for one more.
RoomLeft(w) ==
    Doing(w, "create", "commit") => Cardinality(PendingOf(txn[w].user)) < MaxPending

LimitInv == PendingLimit /\ \A w \in Workers : RoomLeft(w)

\* A user's pending reservations are finitely many.
LEMMA FinitePending ==
    ASSUME NEW u
    PROVE  IsFiniteSet(PendingOf(u)) /\ Cardinality(PendingOf(u)) \in Nat
<1>1. PendingOf(u) \in SUBSET Refs BY DEF PendingOf
<1> QED BY <1>1, KeysAssumption, FS_Subset, FS_CardinalityType

\* Nothing new is pending for u.
NoMore(u) == PendingOf(u)' \subseteq PendingOf(u)

\* Fewer pending reservations are not more.
LEMMA NoMoreCount ==
    ASSUME NEW u, NoMore(u)
    PROVE  Cardinality(PendingOf(u)') <= Cardinality(PendingOf(u))
           /\ Cardinality(PendingOf(u)') \in Nat
<1>1. PendingOf(u)' \in SUBSET PendingOf(u) BY DEF NoMore
<1>2. IsFiniteSet(PendingOf(u)') /\ Cardinality(PendingOf(u)') <= Cardinality(PendingOf(u))
  BY <1>1, FinitePending, FS_Subset
<1> QED BY <1>2, FS_CardinalityType

\* A reservation is pending for u in the next state only if it was, when every
\* row that was there keeps its user and deadline and none becomes pending.
LEMMA NoMoreIf ==
    ASSUME NEW u, now \in Int, now' \in Int, now' >= now,
           \A r \in Refs : res'[r].status = "pending" =>
               res[r].status = "pending" /\ res'[r].user = res[r].user
               /\ res'[r].deadline = res[r].deadline /\ res[r].deadline \in Int
    PROVE  NoMore(u)
  BY DEF NoMore, PendingOf

\* A step that makes nothing pending and brings no worker to its commit but one
\* that has counted keeps the limit.
LEMMA NoMoreInv ==
    ASSUME LimitInv, \A u : NoMore(u),
           \A w \in Workers : Doing(w, "create", "commit")' =>
               \/ Doing(w, "create", "commit") /\ txn'[w] = txn[w]
               \/ Cardinality(PendingOf(txn'[w].user)) < MaxPending
    PROVE  LimitInv'
<1>1. ASSUME NEW u \in Users PROVE Cardinality(PendingOf(u)') <= MaxPending
  <2>1. Cardinality(PendingOf(u)') <= Cardinality(PendingOf(u))
        /\ Cardinality(PendingOf(u)') \in Nat /\ Cardinality(PendingOf(u)) \in Nat
    BY NoMoreCount, FinitePending
  <2> QED BY <2>1, SettingsAssumption DEF LimitInv, PendingLimit
<1>2. ASSUME NEW w \in Workers, Doing(w, "create", "commit")'
      PROVE  Cardinality(PendingOf(txn[w].user)') < MaxPending
  <2> DEFINE u == txn[w].user
  <2> PICK v : v = txn'[w].user
    OBVIOUS
  <2>1. Cardinality(PendingOf(v)) < MaxPending
    BY <1>2 DEF LimitInv, RoomLeft
  <2>2. Cardinality(PendingOf(v)') <= Cardinality(PendingOf(v))
        /\ Cardinality(PendingOf(v)') \in Nat /\ Cardinality(PendingOf(v)) \in Nat
    BY NoMoreCount, FinitePending
  <2>3. Cardinality(PendingOf(v)') < MaxPending
    BY <2>1, <2>2, SettingsAssumption
  <2>4. PendingOf(txn[w].user)' = PendingOf(v)'
    BY DEF PendingOf
  <2> QED BY <2>3, <2>4
<1> QED BY <1>1, <1>2 DEF LimitInv, PendingLimit, RoomLeft

\* A booking's commit: nobody else is about to commit one for the same user.
LEMMA HoldSeatsLimit ==
    ASSUME Inv, LimitInv, NEW w \in Workers, NEW r \in Refs,
           Doing(w, "create", "commit"), res[r].status = "none", HoldSeats(w, r)
    PROVE  LimitInv'
<1>1. TypeOK /\ BookingReads(w) /\ txn[w].pc = "commit"
  BY DEF Inv, ReadsStayTrue, TxnOK, Doing, NoTxn, Releasing
<1> PICK u \in Users : u = txn[w].user
  BY <1>1 DEF BookingReads
<1>2. lock[u] = w /\ Cardinality(PendingOf(u)) < MaxPending
  BY <1>1 DEF BookingReads, LimitInv, RoomLeft
<1>3. /\ \A q \in Refs \ {r} : res'[q] = res[q]
      /\ res'[r].user = u /\ now' = now
      /\ txn' = [txn EXCEPT ![w] = NoTxn]
  BY <1>1 DEF HoldSeats, TypeOK, Absent, EndTxn
<1>4. PendingOf(u)' \subseteq PendingOf(u) \cup {r}
  BY <1>3 DEF PendingOf
<1>5. \A v : v # u => PendingOf(v)' \subseteq PendingOf(v)
  BY <1>3 DEF PendingOf
<1>6. Cardinality(PendingOf(u)') <= MaxPending
  <2>1. IsFiniteSet(PendingOf(u) \cup {r})
        /\ Cardinality(PendingOf(u) \cup {r}) <= Cardinality(PendingOf(u)) + 1
        /\ Cardinality(PendingOf(u)) \in Nat
    <3>1. IsFiniteSet(PendingOf(u)) /\ Cardinality(PendingOf(u)) \in Nat
      BY FinitePending
    <3>2. IsFiniteSet(PendingOf(u) \cup {r})
          /\ Cardinality(PendingOf(u) \cup {r}) \in
               {Cardinality(PendingOf(u)), Cardinality(PendingOf(u)) + 1}
      BY <3>1, FS_AddElement
    <3> QED BY <3>1, <3>2
  <2>2. Cardinality(PendingOf(u)') <= Cardinality(PendingOf(u) \cup {r})
        /\ Cardinality(PendingOf(u)') \in Nat /\ Cardinality(PendingOf(u) \cup {r}) \in Nat
    BY <1>4, <2>1, FS_Subset, FS_CardinalityType
  <2> QED BY <1>2, <2>1, <2>2, SettingsAssumption
<1>7. ASSUME NEW v \in Users PROVE Cardinality(PendingOf(v)') <= MaxPending
  <2>1. CASE v = u
    BY <1>6, <2>1 DEF PendingOf
  <2>2. CASE v # u
    <3>1. NoMore(v)
      BY <1>5, <2>2 DEF NoMore
    <3>2. Cardinality(PendingOf(v)') <= Cardinality(PendingOf(v))
          /\ Cardinality(PendingOf(v)') \in Nat /\ Cardinality(PendingOf(v)) \in Nat
      BY <3>1, NoMoreCount, FinitePending
    <3> QED BY <3>2, SettingsAssumption DEF LimitInv, PendingLimit
  <2> QED BY <2>1, <2>2
<1>8. ASSUME NEW x \in Workers, Doing(x, "create", "commit")'
      PROVE  Cardinality(PendingOf(txn[x].user)') < MaxPending
  <2>1. x # w /\ txn'[x] = txn[x]
    BY <1>1, <1>3, <1>8 DEF Doing, NoTxn, TypeOK
  <2>2. BookingReads(x) /\ txn[x].pc = "commit"
    BY <1>8, <2>1 DEF Doing, Inv, ReadsStayTrue, TxnOK, NoTxn, Releasing
  <2> PICK v \in Users : v = txn[x].user
    BY <2>2 DEF BookingReads
  <2>3. v # u
    BY <1>2, <2>1, <2>2 DEF BookingReads
  <2>4. NoMore(v)
    BY <1>5, <2>3 DEF NoMore
  <2>5. Cardinality(PendingOf(v)) < MaxPending
    BY <1>8, <2>1, <2>2 DEF LimitInv, RoomLeft, Doing
  <2>6. Cardinality(PendingOf(v)') <= Cardinality(PendingOf(v))
        /\ Cardinality(PendingOf(v)') \in Nat /\ Cardinality(PendingOf(v)) \in Nat
    BY <2>4, NoMoreCount, FinitePending
  <2>7. PendingOf(txn[x].user)' = PendingOf(v)'
    BY <2>1 DEF PendingOf
  <2> QED BY <2>5, <2>6, <2>7, SettingsAssumption
<1> QED BY <1>7, <1>8 DEF LimitInv, PendingLimit, RoomLeft

\* The reservations a step may rewrite do not become pending.
LEMMA RowsNoMore ==
    ASSUME Inv, NEW u,
           \/ UNCHANGED res /\ now' \in Nat /\ now' >= now
           \/ \E w \in Workers : CommitPayment(w) \/ CommitRelease(w) \/ CommitPassengers(w)
    PROVE  NoMore(u)
<1>1. TypeOK /\ now \in Int BY DEF Inv, TypeOK
<1>2. \A r \in Refs : res[r].status = "pending" => res[r].deadline \in Int
  BY <1>1 DEF TypeOK, Reservation, Absent
<1>3. CASE UNCHANGED res /\ now' \in Nat /\ now' >= now
  BY <1>1, <1>2, <1>3, NoMoreIf
<1>4. ASSUME NEW w \in Workers, CommitPayment(w)
      PROVE  NoMore(u)
  <2>1. now' = now /\ res' = [res EXCEPT ![txn[w].ref].status = "reserved", ![txn[w].ref].settledAt = now]
    BY <1>4 DEF CommitPayment
  <2>2. ASSUME NEW r \in Refs, res'[r].status = "pending"
        PROVE  res'[r] = res[r]
    <3>1. r # txn[w].ref
      BY <1>1, <2>1, <2>2 DEF TypeOK, Reservation, Absent
    <3> QED BY <1>1, <2>1, <3>1 DEF TypeOK
  <2>3. \A r \in Refs : res'[r].status = "pending" =>
          res[r].status = "pending" /\ res'[r].user = res[r].user
          /\ res'[r].deadline = res[r].deadline /\ res[r].deadline \in Int
    BY <1>2, <2>2
  <2>4. now' \in Int /\ now' >= now
    BY <1>1, <2>1
  <2> QED BY <1>1, <2>3, <2>4, NoMoreIf
<1>5. ASSUME NEW w \in Workers, CommitRelease(w)
      PROVE  NoMore(u)
  <2>1. now' = now /\ res' = [res EXCEPT ![txn[w].ref].status = "cancelled",
                                         ![txn[w].ref].reason = txn[w].reason,
                                         ![txn[w].ref].refund = txn[w].amount]
    BY <1>5 DEF CommitRelease
  <2>2. ASSUME NEW r \in Refs, res'[r].status = "pending"
        PROVE  res'[r] = res[r]
    <3>1. r # txn[w].ref
      BY <1>1, <2>1, <2>2 DEF TypeOK, Reservation, Absent
    <3> QED BY <1>1, <2>1, <3>1 DEF TypeOK
  <2>3. \A r \in Refs : res'[r].status = "pending" =>
          res[r].status = "pending" /\ res'[r].user = res[r].user
          /\ res'[r].deadline = res[r].deadline /\ res[r].deadline \in Int
    BY <1>2, <2>2
  <2>4. now' \in Int /\ now' >= now
    BY <1>1, <2>1
  <2> QED BY <1>1, <2>3, <2>4, NoMoreIf
<1>6. ASSUME NEW w \in Workers, CommitPassengers(w)
      PROVE  NoMore(u)
  <2>1. now' = now /\ res' = [res EXCEPT ![txn[w].ref].ids = txn[w].ids]
    BY <1>6 DEF CommitPassengers
  <2>2. \A r \in Refs : /\ res'[r].status = res[r].status /\ res'[r].user = res[r].user
                        /\ res'[r].deadline = res[r].deadline
    BY <1>1, <2>1 DEF TypeOK, Reservation, Absent
  <2> QED BY <1>1, <1>2, <2>1, <2>2, NoMoreIf
<1> QED BY <1>3, <1>4, <1>5, <1>6

\* Ending, waiting for the next lock, or going on with a loop brings nobody to
\* the commit of a booking.
NoBooking == \A w \in Workers : Doing(w, "create", "commit")' =>
                Doing(w, "create", "commit") /\ txn'[w] = txn[w]

\* Only LockUserForBooking brings a worker to the commit of a booking.
LEMMA StepNoBooking ==
    ASSUME Inv, NEW w \in Workers,
           \/ Request(w) \/ ListOverdue(w) \/ ListExpiring(w) \/ ActivateFlights(w)
           \/ SweepFails(w) \/ Crash(w) \/ Rollback(w)
           \/ LockUserForPayment(w) \/ CommitPayment(w)
           \/ LockClassForRelease(w) \/ LockUserForRefund(w) \/ CommitRelease(w)
           \/ LockFlightForPassengers(w) \/ CommitPassengers(w)
           \/ CommitTopUp(w) \/ TellTopUp(w)
           \/ ExpireNext(w) \/ ListForSweep(w) \/ SweepNext(w) \/ WarnNext(w)
           \/ CompleteFlights(w)
    PROVE  NoBooking
<1>1. txn \in [Workers -> Txn] BY DEF Inv, TypeOK
<1>2. CASE UNCHANGED txn
  BY <1>2 DEF NoBooking, Doing
<1>3. CASE EndTxn(w)
  BY <1>1, <1>3 DEF EndTxn, NoBooking, Doing, NoTxn
<1>5. CASE Request(w)
  <2>1. CASE \E f \in Flights : CancelFlight(w, f)
    BY <1>2, <2>1 DEF CancelFlight
  <2>2. ASSUME NEW r \in Refs, LockReservationForPayment(w, r) \/ LockReservationForCancel(w, r)
        PROVE  NoBooking
    <3>1. CASE \E op \in {"pay", "cancel"} : \E reason, amount :
                 BeginRelease(w, op, r, reason, amount)
      BY <1>1, <3>1 DEF BeginRelease, NoTxn, Advance, NoBooking, Doing
    <3>2. CASE LockReservationForPayment(w, r) /\ ~Overdue(r)
      BY <1>1, <3>2 DEF LockReservationForPayment, NoTxn, Advance, NoBooking, Doing
    <3>3. CASE LockReservationForPayment(w, r) /\ Overdue(r)
      BY <3>1, <3>3 DEF LockReservationForPayment
    <3>4. CASE LockReservationForCancel(w, r)
      BY <3>1, <3>4 DEF LockReservationForCancel
    <3> QED BY <2>2, <3>2, <3>3, <3>4
  <2>3. ASSUME NEW u \in Users, NEW c \in Classes, NEW S \in SUBSET Seats,
               LockClassForBooking(w, u, c, S)
        PROVE  NoBooking
    BY <1>1, <2>3 DEF LockClassForBooking, NoTxn, Advance, NoBooking, Doing
  <2>4. ASSUME NEW r \in Refs, NEW ids \in SUBSET NationalIds, LockReservationForPassengers(w, r, ids)
        PROVE  NoBooking
    BY <1>1, <2>4 DEF LockReservationForPassengers, NoTxn, Advance, NoBooking, Doing
  <2>5. ASSUME NEW u \in Users, NEW amount \in TopUps, LockUserForTopUp(w, u, amount)
        PROVE  NoBooking
    BY <1>1, <2>5 DEF LockUserForTopUp, NoTxn, Advance, NoBooking, Doing
  <2> QED BY <1>5, <2>1, <2>2, <2>3, <2>4, <2>5 DEF Request
<1>6. CASE \/ ListOverdue(w) \/ ListExpiring(w) \/ ActivateFlights(w) \/ ListForSweep(w)
           \/ WarnNext(w) \/ TellTopUp(w) \/ CompleteFlights(w)
  BY <1>2, <1>6 DEF ListOverdue, ListExpiring, ActivateFlights, ListForSweep, WarnNext,
                    TellTopUp, CompleteFlights
<1>7. CASE \/ SweepFails(w) \/ Crash(w) \/ Rollback(w) \/ CommitPayment(w) \/ CommitRelease(w)
           \/ CommitPassengers(w) \/ CommitTopUp(w)
  BY <1>3, <1>7 DEF SweepFails, Crash, Rollback, CommitPayment, CommitRelease,
                    CommitPassengers, CommitTopUp
<1>8. CASE ExpireNext(w) \/ SweepNext(w)
  <2>1. ASSUME NEW op \in {"expire", "sweep"}, NEW r, NEW reason, NEW amount,
               BeginRelease(w, op, r, reason, amount)
        PROVE  NoBooking
    BY <1>1, <2>1 DEF BeginRelease, Advance, NoTxn, NoBooking, Doing
  <2> QED BY <1>2, <1>8, <2>1 DEF ExpireNext, SweepNext, ExpireIfOverdue, SweepIfActive
<1>9. CASE LockUserForPayment(w) \/ LockFlightForPassengers(w)
  <2>1. CASE Rollback(w)
    BY <1>3, <2>1 DEF Rollback
  <2>2. CASE \E row : Advance(w, row, [txn[w] EXCEPT !.pc = "charge", !.balance = wallet[txn[w].user]])
    BY <1>1, <2>2 DEF Advance, NoBooking, Doing, Txn
  <2>3. CASE txn[w].op = "passengers" /\ \E row : Advance(w, row, [txn[w] EXCEPT !.pc = "commit"])
    BY <1>1, <2>3 DEF Advance, NoBooking, Doing, Txn
  <2> QED BY <1>9, <2>1, <2>2, <2>3 DEF LockUserForPayment, LockFlightForPassengers, Doing
<1>10. CASE LockClassForRelease(w) \/ LockUserForRefund(w)
  <2>1. txn[w].op \in Releasing /\ \A v \in Workers \ {w} : txn'[v] = txn[v]
    BY <1>1, <1>10 DEF LockClassForRelease, LockUserForRefund, Advance
  <2>2. txn'[w].op = txn[w].op
    <3>1. CASE LockClassForRelease(w)
      BY <1>1, <3>1 DEF LockClassForRelease, Advance, Txn
    <3>2. CASE LockUserForRefund(w)
      BY <1>1, <3>2 DEF LockUserForRefund, Advance, Txn
    <3> QED BY <1>10, <3>1, <3>2
  <2> QED BY <2>1, <2>2 DEF Releasing, NoBooking, Doing
<1> QED BY <1>5, <1>6, <1>7, <1>8, <1>9, <1>10

\* What brings a worker to the commit of a booking has counted.
LEMMA LockUserForBookingLimit ==
    ASSUME Inv, LimitInv, NEW w \in Workers, LockUserForBooking(w)
    PROVE  LimitInv'
<1>1. TypeOK /\ txn[w] \in Txn BY DEF Inv, TypeOK
<1>2. \A u : NoMore(u)
  BY <1>1, RowsNoMore DEF LockUserForBooking, Rollback, db, TypeOK
<1>3. CASE Rollback(w)
  BY <1>2, <1>3, StepNoBooking, NoMoreInv DEF NoBooking
<1>4. CASE /\ Cardinality(PendingOf(txn[w].user)) < MaxPending
           /\ Advance(w, txn[w].user, [txn[w] EXCEPT !.pc = "commit"])
  <2>1. /\ \A v \in Workers \ {w} : txn'[v] = txn[v]
        /\ txn'[w].user = txn[w].user
    BY <1>1, <1>4 DEF Advance, TypeOK, Txn
  <2>2. \A v \in Workers : Doing(v, "create", "commit")' =>
               \/ Doing(v, "create", "commit") /\ txn'[v] = txn[v]
               \/ Cardinality(PendingOf(txn'[v].user)) < MaxPending
    BY <1>4, <2>1 DEF Doing
  <2> QED BY <1>2, <2>2, NoMoreInv
<1>5. Cardinality(PendingOf(txn[w].user)) \in Nat
  BY FinitePending
<1> QED BY <1>3, <1>4, <1>5, SettingsAssumption DEF LockUserForBooking

\* Nothing is pending at the start.
LEMMA InitLimit == Init => LimitInv
<1> SUFFICES ASSUME Init PROVE LimitInv
  OBVIOUS
<1>1. \A u : PendingOf(u) = {}
  BY DEF Init, PendingOf, Absent
<1>2. Cardinality({}) = 0
  BY FS_EmptySet
<1>3. \A w \in Workers : ~Doing(w, "create", "commit")
  BY DEF Init, Doing, NoTxn
<1> QED BY <1>1, <1>2, <1>3, SettingsAssumption DEF LimitInv, PendingLimit, RoomLeft

\* Every action keeps the limit.
LEMMA NextLimit == Inv /\ LimitInv /\ [Next]_vars => LimitInv'
<1> SUFFICES ASSUME Inv, LimitInv, [Next]_vars PROVE LimitInv'
  OBVIOUS
<1>1. TypeOK BY DEF Inv
<1>2. ASSUME NoBooking, UNCHANGED res, now' \in Nat, now' >= now
      PROVE  LimitInv'
  BY <1>2, RowsNoMore, NoMoreInv DEF NoBooking
<1>3. ASSUME NEW w \in Workers, Continue(w)
      PROVE  LimitInv'
  <2>1. CASE CommitBooking(w)
    <3>1. CASE Rollback(w)
      BY <1>1, <1>2, <3>1, StepNoBooking DEF Rollback, db, TypeOK
    <3> QED BY <2>1, <3>1, HoldSeatsLimit DEF CommitBooking
  <2>2. CASE CommitPayment(w) \/ CommitRelease(w) \/ CommitPassengers(w)
    BY <2>2, StepNoBooking, RowsNoMore, NoMoreInv DEF NoBooking
  <2>3. CASE \/ LockUserForPayment(w) \/ LockClassForRelease(w) \/ LockUserForRefund(w)
             \/ LockFlightForPassengers(w) \/ CommitTopUp(w) \/ TellTopUp(w)
             \/ ExpireNext(w) \/ ListForSweep(w) \/ SweepNext(w) \/ WarnNext(w)
             \/ CompleteFlights(w)
    <3>1. NoBooking
      BY <2>3, StepNoBooking
    <3>2. UNCHANGED <<res, now>>
      BY <2>3, NoCommitNow DEF LockUserForPayment, LockClassForRelease, LockUserForRefund,
         LockFlightForPassengers, CommitTopUp, TellTopUp, ExpireNext, ListForSweep, SweepNext,
         WarnNext, CompleteFlights, Rollback
    <3> QED BY <1>1, <1>2, <3>1, <3>2 DEF TypeOK
  <2> QED BY <1>3, <2>1, <2>2, <2>3, LockUserForBookingLimit DEF Continue
<1>4. ASSUME NEW w \in Workers,
             \/ Request(w) \/ ListOverdue(w) \/ ListExpiring(w) \/ ActivateFlights(w)
             \/ SweepFails(w) \/ Crash(w)
      PROVE  LimitInv'
  <2>1. NoBooking
    BY <1>4, StepNoBooking
  <2>2. UNCHANGED <<res, now>>
    BY <1>4, NoCommitYet DEF Request, ListOverdue, ListExpiring, ActivateFlights, SweepFails,
       Crash, LockClassForBooking, LockReservationForPayment, LockReservationForCancel,
       LockReservationForPassengers, CancelFlight, LockUserForTopUp
  <2> QED BY <1>1, <1>2, <2>1, <2>2 DEF TypeOK
<1>5. CASE Tick \/ Quiet \/ UNCHANGED vars
  <2>1. NoBooking /\ UNCHANGED res /\ now' \in {now, now + 1}
    BY <1>5 DEF Tick, Quiet, vars, db, NoBooking, Doing
  <2> QED BY <1>1, <1>2, <2>1 DEF TypeOK
<1> QED BY <1>3, <1>4, <1>5 DEF Next

\* MAX_PENDING_RESERVATIONS_PER_USER holds however many bookings of a user
\* overlap: they are counted under the user's lock.
THEOREM LimitIsKept == Spec => []PendingLimit
<1>1. LimitInv => PendingLimit BY DEF LimitInv
<1> QED BY <1>1, InitLimit, NextLimit, Invariance, PTL DEF Spec

-----------------------------------------------------------------------------
(* Money.                                                                  *)

\* What the columns of a reservation say of one another.
ColumnsAgree(r) ==
    LET row == res[r] IN
    /\ row.status \in {"none", "pending"} => row.settledAt = NotPaid
    /\ row.status = "reserved" => row.settledAt # NotPaid
    /\ row.status # "cancelled" => row.refund = 0 /\ row.reason = "none"
    /\ row.refund > 0 => row.settledAt # NotPaid
    /\ row.refund <= row.price
    /\ row.reason = "timeout" => row.settledAt = NotPaid
    /\ row.reason = "flight_cancelled" /\ row.settledAt # NotPaid => row.refund = row.price

\* The entries E are none, or a single one for this user and amount.
Accounts(E, none, u, amount) ==
    IF none THEN E = {} ELSE \E x : E = {x} /\ x.user = u /\ x.entry.amount = amount

Charged(r) ==
    Accounts(EntriesFor(r, "payment"), res[r].settledAt = NotPaid, res[r].user, - res[r].price)

Repaid(r) ==
    Accounts(EntriesFor(r, "refund"), res[r].refund = 0, res[r].user, res[r].refund)

MoneyInv == \A r \in Refs : ColumnsAgree(r) /\ Charged(r) /\ Repaid(r)

\* The invariant is the property, with the sets of entries instead of their sizes.
LEMMA MoneyInvSuffices == TypeOK /\ MoneyInv => MoneyMatchesReservations
<1> SUFFICES ASSUME TypeOK, MoneyInv, NEW r \in Refs
             PROVE  LET row == res[r]
                        charged == EntriesFor(r, "payment")
                        repaid == EntriesFor(r, "refund") IN
                    /\ Cardinality(charged) = IF row.settledAt = NotPaid THEN 0 ELSE 1
                    /\ Cardinality(repaid) = IF row.refund = 0 THEN 0 ELSE 1
                    /\ \A e \in charged : e.user = row.user /\ e.entry.amount = - row.price
                    /\ \A e \in repaid : e.user = row.user /\ e.entry.amount = row.refund
                    /\ row.refund <= row.price
                    /\ row.status = "pending" => row.settledAt = NotPaid
                    /\ row.status = "reserved" => row.settledAt # NotPaid
                    /\ row.refund > 0 => row.status = "cancelled" /\ row.settledAt # NotPaid
                    /\ row.reason = "timeout" => row.settledAt = NotPaid
                    /\ row.reason = "flight_cancelled" /\ row.settledAt # NotPaid
                         => row.refund = row.price
  BY DEF MoneyMatchesReservations
<1>1. ColumnsAgree(r) /\ Charged(r) /\ Repaid(r)
  BY DEF MoneyInv
<1>2. /\ Cardinality(EntriesFor(r, "payment")) = IF res[r].settledAt = NotPaid THEN 0 ELSE 1
      /\ \A e \in EntriesFor(r, "payment") :
           e.user = res[r].user /\ e.entry.amount = - res[r].price
  <2>1. CASE res[r].settledAt = NotPaid
    BY <1>1, <2>1, FS_EmptySet DEF Charged, Accounts
  <2>2. CASE res[r].settledAt # NotPaid
    <3> PICK x : /\ EntriesFor(r, "payment") = {x} /\ x.user = res[r].user
                 /\ x.entry.amount = - res[r].price
      BY <1>1, <2>2 DEF Charged, Accounts
    <3> QED BY <2>2, FS_Singleton
  <2> QED BY <2>1, <2>2
<1>3. /\ Cardinality(EntriesFor(r, "refund")) = IF res[r].refund = 0 THEN 0 ELSE 1
      /\ \A e \in EntriesFor(r, "refund") :
           e.user = res[r].user /\ e.entry.amount = res[r].refund
  <2>1. CASE res[r].refund = 0
    BY <1>1, <2>1, FS_EmptySet DEF Repaid, Accounts
  <2>2. CASE res[r].refund # 0
    <3> PICK x : /\ EntriesFor(r, "refund") = {x} /\ x.user = res[r].user
                 /\ x.entry.amount = res[r].refund
      BY <1>1, <2>2 DEF Repaid, Accounts
    <3> QED BY <2>2, FS_Singleton
  <2> QED BY <2>1, <2>2
<1>4. res[r].refund > 0 => res[r].status = "cancelled"
  BY <1>1 DEF ColumnsAgree
<1> QED BY <1>1, <1>2, <1>3, <1>4 DEF ColumnsAgree

\* A change of a wallet adds its entry to those for its reservation, and to no others.
LEMMA EntriesGrow ==
    ASSUME TypeOK, NEW u \in Users, NEW kind, NEW before, NEW delta, NEW q,
           ApplyWalletChange(u, kind, before, delta, q),
           NEW r \in Refs, NEW k
    PROVE  IF k = kind /\ r = q
           THEN \E x : /\ EntriesFor(r, k)' = EntriesFor(r, k) \cup {x}
                       /\ x.user = u /\ x.entry.amount = delta
           ELSE EntriesFor(r, k)' = EntriesFor(r, k)
<1> DEFINE e == [kind |-> kind, amount |-> delta, before |-> before,
                 after |-> before + delta, ref |-> q]
           n == Len(ledger[u])
           x == [user |-> u, entry |-> e, at |-> n + 1]
           Of(L, v) == {[user |-> v, entry |-> L[i], at |-> i] :
                           i \in {j \in 1 .. Len(L) : L[j].kind = k /\ L[j].ref = r}}
<1>1. e.kind = kind /\ e.ref = q /\ e.amount = delta /\ x.user = u /\ x.entry = e
  OBVIOUS
<1>2. ledger' = [ledger EXCEPT ![u] = Append(ledger[u], e)]
  BY DEF ApplyWalletChange
<1> HIDE DEF e
<1>3. /\ ledger \in [Users -> Seq(Entry)] /\ n \in Nat
      /\ ledger' \in [Users -> UNION {{ledger[v], Append(ledger[v], e)} : v \in Users}]
      /\ ledger'[u] = Append(ledger[u], e)
      /\ \A v \in Users \ {u} : ledger'[v] = ledger[v]
  BY <1>2 DEF TypeOK
<1>4. /\ Len(Append(ledger[u], e)) = n + 1
      /\ Append(ledger[u], e)[n + 1] = e
      /\ \A i \in 1 .. n : Append(ledger[u], e)[i] = ledger[u][i]
  BY <1>3
<1> DEFINE longer == Append(ledger[u], e)
<1> HIDE DEF longer
<1>5. longer[n + 1] = e /\ Len(longer) = n + 1 /\ \A i \in 1 .. n : longer[i] = ledger[u][i]
  BY <1>4 DEF longer
<1>6. Of(longer, u) = Of(ledger[u], u) \cup (IF k = kind /\ r = q THEN {x} ELSE {})
  <2>1. 1 .. Len(longer) = (1 .. n) \cup {n + 1} /\ n + 1 \notin 1 .. n
    BY <1>3, <1>5
  <2>2. ASSUME NEW y \in Of(longer, u)
        PROVE  y \in Of(ledger[u], u) \cup (IF k = kind /\ r = q THEN {x} ELSE {})
    <3> PICK i \in 1 .. Len(longer) : /\ longer[i].kind = k /\ longer[i].ref = r
                                      /\ y = [user |-> u, entry |-> longer[i], at |-> i]
      BY <2>2
    <3>1. CASE i = n + 1
      BY <1>1, <1>5, <3>1
    <3>2. CASE i \in 1 .. n
      <4>1. longer[i] = ledger[u][i]
        BY <1>5, <3>2
      <4> QED BY <4>1, <3>2
    <3> QED BY <2>1, <3>1, <3>2
  <2>3. ASSUME NEW y \in Of(ledger[u], u)
        PROVE  y \in Of(longer, u)
    <3> PICK i \in 1 .. n : /\ ledger[u][i].kind = k /\ ledger[u][i].ref = r
                            /\ y = [user |-> u, entry |-> ledger[u][i], at |-> i]
      BY <2>3
    <3>1. longer[i] = ledger[u][i] /\ i \in 1 .. Len(longer)
      BY <1>5, <2>1
    <3> QED BY <3>1
  <2>4. k = kind /\ r = q => x \in Of(longer, u)
    <3>1. n + 1 \in 1 .. Len(longer)
      BY <2>1
    <3> QED BY <1>1, <1>5, <3>1
  <2> HIDE DEF x, Of
  <2> QED BY <2>2, <2>3, <2>4
<1> HIDE DEF Of, x
<1>7. /\ EntriesFor(r, k) = UNION {Of(ledger[v], v) : v \in Users}
      /\ EntriesFor(r, k)' = UNION {Of(ledger'[v], v) : v \in Users}
  BY DEF EntriesFor, Of
<1>8. EntriesFor(r, k)' = EntriesFor(r, k) \cup (IF k = kind /\ r = q THEN {x} ELSE {})
  <2>1. \A v \in Users : Of(ledger'[v], v) =
           IF v = u THEN Of(ledger[u], u) \cup (IF k = kind /\ r = q THEN {x} ELSE {})
           ELSE Of(ledger[v], v)
    BY <1>3, <1>6 DEF longer
  <2> QED BY <1>7, <2>1
<1> QED BY <1>1, <1>8

\* A reservation whose columns and entries nobody touches stays settled.
LEMMA KeptMoney ==
    ASSUME NEW r \in Refs, ColumnsAgree(r), Charged(r), Repaid(r),
           res'[r] = res[r], EntriesFor(r, "payment")' = EntriesFor(r, "payment"),
           EntriesFor(r, "refund")' = EntriesFor(r, "refund")
    PROVE  ColumnsAgree(r)' /\ Charged(r)' /\ Repaid(r)'
<1>1. ColumnsAgree(r)'
  BY DEF ColumnsAgree
<1> QED BY <1>1, Zenon DEF Charged, Repaid

\* Steps that touch neither.
LEMMA MoneyAlone == ASSUME MoneyInv, UNCHANGED <<res, moneyVars>> PROVE MoneyInv'
<1>1. \A r \in Refs : \A k : EntriesFor(r, k)' = EntriesFor(r, k)
  BY DEF EntriesFor, moneyVars
<1> QED BY <1>1, KeptMoney DEF MoneyInv

\* A new reservation is neither paid nor refunded.
LEMMA HoldSeatsMoney ==
    ASSUME TypeOK, MoneyInv, NEW w \in Workers, NEW r \in Refs, res[r].status = "none",
           HoldSeats(w, r), txn[w].class \in Classes
    PROVE  MoneyInv'
<1>1. res[r] = Absent
  BY DEF TypeOK, Reservation
<1>2. EntriesFor(r, "payment") = {} /\ EntriesFor(r, "refund") = {}
  BY <1>1 DEF MoneyInv, Charged, Repaid, Accounts, Absent
<1>3. \A q \in Refs : \A k : EntriesFor(q, k)' = EntriesFor(q, k)
  BY DEF EntriesFor, HoldSeats, moneyVars
<1>4. ASSUME NEW q \in Refs, q # r
      PROVE  ColumnsAgree(q)' /\ Charged(q)' /\ Repaid(q)'
  <2>1. res'[q] = res[q]
    BY <1>4 DEF HoldSeats, TypeOK
  <2> QED BY <1>3, <2>1, KeptMoney DEF MoneyInv
<1>5. /\ res'[r].status = "pending" /\ res'[r].settledAt = NotPaid /\ res'[r].refund = 0
      /\ res'[r].reason = "none" /\ res'[r].price = Fare[txn[w].class] * Cardinality(txn[w].seats)
  BY DEF HoldSeats, TypeOK, Absent
<1>6. Fare[txn[w].class] * Cardinality(txn[w].seats) >= 0
  <2>1. Fare[txn[w].class] \in Nat
    BY ShapeAssumption
  <2>2. Cardinality(txn[w].seats) \in Nat
    <3>1. txn[w].seats \in SUBSET Seats
      BY DEF TypeOK, Txn
    <3> QED BY <3>1, KeysAssumption, FS_Subset, FS_CardinalityType
  <2> QED BY <2>1, <2>2, TimesType
<1>7. ColumnsAgree(r)'
  BY <1>5, <1>6 DEF ColumnsAgree
<1>8. Charged(r)' /\ Repaid(r)'
  BY <1>2, <1>3, <1>5 DEF Charged, Repaid, Accounts
<1> QED BY <1>4, <1>7, <1>8 DEF MoneyInv

\* A payment charges the price of a reservation that was not paid before.
LEMMA CommitPaymentMoney ==
    ASSUME Inv, MoneyInv, NEW w \in Workers, CommitPayment(w)
    PROVE  MoneyInv'
<1>1. TypeOK BY DEF Inv
<1>2. PaymentReads(w) /\ txn[w].pc = "charge"
  BY <1>1 DEF Inv, ReadsStayTrue, TxnOK, CommitPayment, Doing, NoTxn, Releasing
<1> PICK r \in Refs : r = txn[w].ref
  BY <1>2 DEF PaymentReads
<1> PICK row \in Reservation : row = res[r]
  BY <1>1, <1>2 DEF PaymentReads, TypeOK, Absent
<1>3. row.status = "pending" /\ txn[w].user = row.user /\ txn[w].amount = row.price /\ row.user \in Users
  BY <1>2 DEF PaymentReads, Reservation
<1>4. ApplyWalletChange(row.user, "payment", txn[w].balance, - row.price, r)
  BY <1>3 DEF CommitPayment
<1>5. ColumnsAgree(r) /\ Charged(r) /\ Repaid(r)
  BY DEF MoneyInv
<1>6. row.settledAt = NotPaid /\ row.refund = 0 /\ row.reason = "none"
  BY <1>3, <1>5 DEF ColumnsAgree
<1>7. ASSUME NEW q \in Refs, q # r
      PROVE  ColumnsAgree(q)' /\ Charged(q)' /\ Repaid(q)'
  <2>1. res'[q] = res[q]
    BY <1>1, <1>7 DEF CommitPayment, TypeOK
  <2>2. /\ EntriesFor(q, "payment")' = EntriesFor(q, "payment")
        /\ EntriesFor(q, "refund")' = EntriesFor(q, "refund")
    BY <1>1, <1>3, <1>4, <1>7, EntriesGrow
  <2> QED BY <2>1, <2>2, KeptMoney DEF MoneyInv
<1>8. /\ res'[r].status = "reserved" /\ res'[r].settledAt = now /\ res'[r].price = row.price
      /\ res'[r].user = row.user /\ res'[r].refund = 0 /\ res'[r].reason = "none"
  BY <1>1, <1>6 DEF CommitPayment, TypeOK, Reservation
<1>9. now # NotPaid /\ row.price >= 0
  BY <1>1 DEF TypeOK, NotPaid, Reservation
<1>10. ColumnsAgree(r)'
  BY <1>8, <1>9 DEF ColumnsAgree
<1>11. Charged(r)'
  <2> PICK x : /\ EntriesFor(r, "payment")' = EntriesFor(r, "payment") \cup {x}
               /\ x.user = row.user /\ x.entry.amount = - row.price
    BY <1>1, <1>3, <1>4, EntriesGrow
  <2>1. EntriesFor(r, "payment") = {}
    BY <1>5, <1>6 DEF Charged, Accounts
  <2>2. EntriesFor(r, "payment")' = {x}
    BY <2>1
  <2> QED BY <1>8, <1>9, <2>2 DEF Charged, Accounts
<1>12. Repaid(r)'
  <2>1. EntriesFor(r, "refund")' = EntriesFor(r, "refund")
    BY <1>1, <1>3, <1>4, EntriesGrow
  <2>2. EntriesFor(r, "refund") = {}
    BY <1>5, <1>6 DEF Repaid, Accounts
  <2> QED BY <1>8, <2>1, <2>2 DEF Repaid, Accounts
<1> QED BY <1>7, <1>10, <1>11, <1>12 DEF MoneyInv

\* A release refunds what it read to be owed, once.
LEMMA CommitReleaseMoney ==
    ASSUME Inv, MoneyInv, NEW w \in Workers, CommitRelease(w)
    PROVE  MoneyInv'
<1>1. TypeOK BY DEF Inv
<1>2. ReleaseReads(w) /\ txn[w] \in Txn
  <2>1. TxnOK(w) /\ txn[w].op \in Releasing /\ txn[w].pc = "release"
    BY DEF Inv, ReadsStayTrue, CommitRelease
  <2> QED BY <1>1, <2>1 DEF TxnOK, NoTxn, Releasing, TypeOK
<1> PICK r \in Refs : r = txn[w].ref
  BY <1>2 DEF ReleaseReads
<1> PICK amount \in Nat : amount = txn[w].amount
  BY <1>2 DEF Txn
<1> DEFINE reason == txn[w].reason
<1> PICK row \in Reservation : row = res[r]
  BY <1>1, <1>2 DEF ReleaseReads, IsActive, TypeOK, Absent
<1>3. /\ row.status \in {"pending", "reserved"}
      /\ amount > 0 => row.status = "reserved"
      /\ amount <= row.price
      /\ reason = "timeout" => row.status = "pending"
      /\ reason = "flight_cancelled" /\ row.status = "reserved" => amount = row.price
      /\ row.user \in Users
  BY <1>2 DEF ReleaseReads, IsActive, Reservation
<1>4. ColumnsAgree(r) /\ Charged(r) /\ Repaid(r)
  BY DEF MoneyInv
<1>5. /\ row.refund = 0
      /\ row.status = "pending" => row.settledAt = NotPaid
      /\ row.status = "reserved" => row.settledAt # NotPaid
  BY <1>3, <1>4 DEF ColumnsAgree
<1>6. IF amount > 0 THEN ApplyWalletChange(row.user, "refund", txn[w].balance, amount, r)
      ELSE UNCHANGED moneyVars
  BY DEF CommitRelease
<1>7. ASSUME NEW q \in Refs
      PROVE  /\ EntriesFor(q, "payment")' = EntriesFor(q, "payment")
             /\ q # r => EntriesFor(q, "refund")' = EntriesFor(q, "refund")
  <2>1. CASE amount > 0
    BY <1>1, <1>3, <1>6, <2>1, EntriesGrow
  <2>2. CASE ~(amount > 0)
    BY <1>6, <2>2 DEF EntriesFor, moneyVars
  <2> QED BY <2>1, <2>2
<1>8. ASSUME NEW q \in Refs, q # r
      PROVE  ColumnsAgree(q)' /\ Charged(q)' /\ Repaid(q)'
  <2>1. res'[q] = res[q]
    BY <1>1, <1>8 DEF CommitRelease, TypeOK
  <2> QED BY <1>7, <1>8, <2>1, KeptMoney DEF MoneyInv
<1>9. /\ res'[r].status = "cancelled" /\ res'[r].settledAt = row.settledAt
      /\ res'[r].price = row.price /\ res'[r].user = row.user
      /\ res'[r].refund = amount /\ res'[r].reason = reason
  BY <1>1 DEF CommitRelease, TypeOK, Reservation
<1> HIDE DEF reason
<1>10. ColumnsAgree(r)'
  BY <1>3, <1>5, <1>9 DEF ColumnsAgree
<1>11. Charged(r)'
  BY <1>4, <1>7, <1>9 DEF Charged, Accounts
<1>12. EntriesFor(r, "refund") = {}
  BY <1>4, <1>5 DEF Repaid, Accounts
<1>13. Repaid(r)'
  <2>1. CASE amount > 0
    <3> PICK x : /\ EntriesFor(r, "refund")' = EntriesFor(r, "refund") \cup {x}
                 /\ x.user = row.user /\ x.entry.amount = amount
      BY <1>1, <1>3, <1>6, <2>1, EntriesGrow
    <3>1. EntriesFor(r, "refund")' = {x}
      BY <1>12
    <3> QED BY <1>9, <2>1, <3>1 DEF Repaid, Accounts
  <2>2. CASE ~(amount > 0)
    <3>1. EntriesFor(r, "refund")' = EntriesFor(r, "refund")
      BY <1>6, <2>2 DEF EntriesFor, moneyVars
    <3> QED BY <1>9, <1>12, <2>2, <3>1 DEF Repaid, Accounts
  <2> QED BY <2>1, <2>2
<1> QED BY <1>8, <1>10, <1>11, <1>13 DEF MoneyInv

\* A deposit and the names of passengers touch neither columns nor entries.
LEMMA OtherCommitsMoney ==
    ASSUME Inv, MoneyInv, NEW w \in Workers, CommitTopUp(w) \/ CommitPassengers(w)
    PROVE  MoneyInv'
<1>1. TypeOK BY DEF Inv
<1>2. CASE CommitTopUp(w)
  <2>1. DepositReads(w)
    BY <1>1, <1>2 DEF Inv, ReadsStayTrue, TxnOK, CommitTopUp, Doing, NoTxn, Releasing
  <2> PICK u \in Users : u = txn[w].user
    BY <2>1 DEF DepositReads
  <2>2. ApplyWalletChange(u, "charge", txn[w].balance, txn[w].amount, None)
    BY <1>2 DEF CommitTopUp
  <2>3. ASSUME NEW r \in Refs
        PROVE  /\ EntriesFor(r, "payment")' = EntriesFor(r, "payment")
               /\ EntriesFor(r, "refund")' = EntriesFor(r, "refund")
    BY <1>1, <2>2, EntriesGrow
  <2>4. UNCHANGED res
    BY <1>2 DEF CommitTopUp
  <2> QED BY <2>3, <2>4, KeptMoney DEF MoneyInv
<1>3. CASE CommitPassengers(w)
  <2>1. \A r \in Refs : \A k : EntriesFor(r, k)' = EntriesFor(r, k)
    BY <1>3 DEF CommitPassengers, EntriesFor, moneyVars
  <2>2. ASSUME NEW r \in Refs
        PROVE  /\ res'[r].status = res[r].status /\ res'[r].settledAt = res[r].settledAt
               /\ res'[r].price = res[r].price /\ res'[r].user = res[r].user
               /\ res'[r].refund = res[r].refund /\ res'[r].reason = res[r].reason
    BY <1>1, <1>3 DEF CommitPassengers, TypeOK, Reservation, Absent
  <2>3. \A r \in Refs : ColumnsAgree(r)'
    BY <2>2 DEF MoneyInv, ColumnsAgree
  <2>4. \A r \in Refs : Charged(r)' /\ Repaid(r)'
    BY <2>1, <2>2 DEF MoneyInv, Charged, Repaid, Accounts
  <2> QED BY <2>3, <2>4 DEF MoneyInv
<1> QED BY <1>2, <1>3

\* At the start there is nothing to pay for, and only the first charges are booked.
LEMMA InitMoney == Init => MoneyInv
<1> SUFFICES ASSUME Init, NEW r \in Refs PROVE ColumnsAgree(r) /\ Charged(r) /\ Repaid(r)
  BY DEF MoneyInv
<1> DEFINE first == [kind |-> "charge", amount |-> InitialBalance, before |-> 0,
                     after |-> InitialBalance, ref |-> None]
<1>1. \A u \in Users : ledger[u] = <<first>>
  BY DEF Init
<1>2. first.kind = "charge"
  OBVIOUS
<1> HIDE DEF first
<1>3. \A u \in Users : \A i \in 1 .. Len(ledger[u]) : ledger[u][i].kind = "charge"
  BY <1>1, <1>2
<1>4. EntriesFor(r, "payment") = {} /\ EntriesFor(r, "refund") = {}
  BY <1>3 DEF EntriesFor
<1>5. res[r] = Absent
  BY DEF Init
<1>6. ColumnsAgree(r)
  BY <1>5 DEF ColumnsAgree, Absent
<1> QED BY <1>4, <1>5, <1>6 DEF Charged, Repaid, Accounts, Absent

\* Every action keeps money and columns together.
LEMMA NextMoney == Inv /\ MoneyInv /\ [Next]_vars => MoneyInv'
<1> SUFFICES ASSUME Inv, MoneyInv, [Next]_vars PROVE MoneyInv'
  OBVIOUS
<1>1. TypeOK BY DEF Inv
<1>2. ASSUME NEW w \in Workers, CommitBooking(w)
      PROVE  MoneyInv'
  <2>1. CASE Rollback(w)
    <3>1. res' = res
      BY <2>1, NoCommitYet, NoCommitNow
    <3>2. UNCHANGED moneyVars
      BY <2>1, MoneyKept
    <3> QED BY <3>1, <3>2, MoneyAlone
  <2>2. txn[w].class \in Classes
    BY <1>2 DEF Inv, ReadsStayTrue, TxnOK, CommitBooking, Doing, NoTxn, Releasing, BookingReads
  <2> QED BY <1>1, <1>2, <2>1, <2>2, HoldSeatsMoney DEF CommitBooking
<1>3. ASSUME NEW w \in Workers, Continue(w)
      PROVE  MoneyInv'
  <2>1. CASE \/ LockUserForBooking(w) \/ LockUserForPayment(w)
             \/ LockClassForRelease(w) \/ LockUserForRefund(w) \/ LockFlightForPassengers(w)
             \/ TellTopUp(w) \/ ExpireNext(w) \/ ListForSweep(w) \/ SweepNext(w)
             \/ WarnNext(w) \/ CompleteFlights(w)
    <3>1. res' = res
      BY <2>1, NoCommitYet, NoCommitNow
    <3>2. UNCHANGED moneyVars
      BY <2>1, MoneyKept
    <3> QED BY <3>1, <3>2, MoneyAlone
  <2> QED BY <1>2, <1>3, <2>1, CommitPaymentMoney, CommitReleaseMoney, OtherCommitsMoney DEF Continue
<1>4. ASSUME NEW w \in Workers,
             \/ Request(w) \/ ListOverdue(w) \/ ListExpiring(w) \/ ActivateFlights(w)
             \/ SweepFails(w) \/ Crash(w)
      PROVE  MoneyInv'
  <2>1. res' = res
    BY <1>4, NoCommitYet, NoCommitNow
  <2>2. UNCHANGED moneyVars
    BY <1>4, MoneyKept
  <2> QED BY <2>1, <2>2, MoneyAlone
<1>5. CASE Tick \/ Quiet \/ UNCHANGED vars
  BY <1>5, MoneyAlone DEF Tick, Quiet, vars, db
<1> QED BY <1>3, <1>4, <1>5 DEF Next

\* Both hold together, for every instance of Booking.
THEOREM MoneyInvariance == Spec => []MoneyInv
  BY InitMoney, NextMoney, Invariance, PTL DEF Spec

\* A reservation is charged and refunded exactly as its columns say, once each,
\* whoever pays, cancels and expires it at the same time.
THEOREM MoneyIsRight == Spec => []MoneyMatchesReservations
<1>1. Inv => TypeOK BY DEF Inv
<1> QED BY <1>1, MoneyInvSuffices, MoneyInvariance, Invariance, PTL

-----------------------------------------------------------------------------
(* Notifications.                                                          *)

\* What a notification says of the reservation it is about.
NoteIsTrue(n) ==
    n.about \in Refs =>
        LET row == res[n.about] IN
        /\ n.kind = "paid" => row.settledAt # NotPaid
        /\ n.kind = "refund" => row.refund > 0
        /\ n.kind = "expired" => row.reason = "timeout"
        /\ n.kind = "flight_cancelled" => row.reason = "flight_cancelled"

\* A payment that found its reservation pending, in time and bookable.
Paying(t) == t.op = "pay" /\ t.pc \in {"user", "charge"}

\* A release is recorded with a reason, that of the job that began it.
ReasonFits(t) ==
    /\ t.op = "expire" => t.reason = "timeout"
    /\ t.op = "sweep" => t.reason = "flight_cancelled"
    /\ t.op \in Releasing /\ ~Paying(t) => t.reason # "none"

NotesInv ==
    /\ \A n \in notes : NoteIsTrue(n)
    /\ \A w \in Workers : ReasonFits(txn[w])

\* The invariant is the property, with nothing said of who was told.
LEMMA NotesInvSuffices == NotesInv => NotesAreTrue
<1> SUFFICES ASSUME NotesInv, NEW r \in Refs, NEW kind, NEW u, Note(kind, u, r) \in notes
             PROVE  /\ kind = "paid" => res[r].settledAt # NotPaid
                    /\ kind = "refund" => res[r].refund > 0
                    /\ kind = "expired" => res[r].reason = "timeout"
                    /\ kind = "flight_cancelled" => res[r].reason = "flight_cancelled"
  BY DEF NotesAreTrue
<1>1. NoteIsTrue(Note(kind, u, r))
  BY DEF NotesInv
<1> QED BY <1>1 DEF NoteIsTrue, Note

\* What was said of a reservation is not taken back: no payment, refund or reason is undone.
FactsStay ==
    \A r \in Refs :
        /\ res[r].settledAt # NotPaid => res'[r].settledAt # NotPaid
        /\ res[r].refund > 0 => res'[r].refund > 0
        /\ res[r].reason # "none" => res'[r].reason = res[r].reason

\* Old notifications stay true.
LEMMA OldNotesStayTrue ==
    ASSUME NotesInv, FactsStay, NEW n \in notes
    PROVE  NoteIsTrue(n)'
<1>1. NoteIsTrue(n)
  BY DEF NotesInv
<1> QED BY <1>1 DEF NoteIsTrue, FactsStay

\* A release takes back nothing, because it finds no refund and no reason.
LEMMA ReleaseFacts ==
    ASSUME Inv, MoneyInv, NEW w \in Workers, CommitRelease(w)
    PROVE  /\ FactsStay
           /\ txn[w].ref \in Refs
           /\ res'[txn[w].ref].refund = txn[w].amount
           /\ res'[txn[w].ref].reason = txn[w].reason
<1>1. TypeOK BY DEF Inv
<1>2. ReleaseReads(w)
  <2>1. TxnOK(w) /\ txn[w].op \in Releasing /\ txn[w].pc = "release"
    BY DEF Inv, ReadsStayTrue, CommitRelease
  <2> QED BY <2>1 DEF TxnOK, NoTxn, Releasing
<1> PICK r \in Refs : r = txn[w].ref
  BY <1>2 DEF ReleaseReads
<1>3. res[r].refund = 0 /\ res[r].reason = "none"
  BY <1>2 DEF ReleaseReads, IsActive, MoneyInv, ColumnsAgree
<1>4. /\ res'[r].settledAt = res[r].settledAt /\ res'[r].refund = txn[w].amount
      /\ res'[r].reason = txn[w].reason
      /\ \A q \in Refs \ {r} : res'[q] = res[q]
  <2>1. res[r] \in Reservation
    BY <1>1, <1>2 DEF ReleaseReads, IsActive, TypeOK, Absent
  <2> QED BY <1>1, <2>1 DEF CommitRelease, TypeOK, Reservation
<1> QED BY <1>3, <1>4 DEF FactsStay

\* Nor does a payment, the names of passengers or a new reservation.
LEMMA OtherFacts ==
    ASSUME Inv, MoneyInv, NEW w \in Workers,
           CommitPayment(w) \/ CommitPassengers(w) \/ CommitBooking(w)
    PROVE  FactsStay
<1>1. TypeOK BY DEF Inv
<1>2. \A r \in Refs : res[r] \in Reservation \cup {Absent}
  BY <1>1 DEF TypeOK
<1>3. CASE CommitPayment(w)
  <2>1. now # NotPaid
    BY <1>1 DEF TypeOK, NotPaid
  <2>2. ASSUME NEW r \in Refs
        PROVE  /\ res'[r].settledAt \in {now, res[r].settledAt}
               /\ res'[r].refund = res[r].refund /\ res'[r].reason = res[r].reason
    BY <1>1, <1>2, <1>3 DEF CommitPayment, TypeOK, Reservation, Absent
  <2> QED BY <2>1, <2>2 DEF FactsStay
<1>4. CASE CommitPassengers(w)
  <2>1. ASSUME NEW r \in Refs
        PROVE  /\ res'[r].settledAt = res[r].settledAt
               /\ res'[r].refund = res[r].refund /\ res'[r].reason = res[r].reason
    BY <1>1, <1>2, <1>4 DEF CommitPassengers, TypeOK, Reservation, Absent
  <2> QED BY <2>1 DEF FactsStay
<1>5. CASE CommitBooking(w)
  <2>1. CASE Rollback(w)
    BY <2>1 DEF Rollback, db, FactsStay
  <2>2. ASSUME NEW r \in Refs, res[r].status = "none", HoldSeats(w, r)
        PROVE  FactsStay
    <3>1. res[r].settledAt = NotPaid /\ res[r].refund = 0 /\ res[r].reason = "none"
      BY <2>2 DEF MoneyInv, ColumnsAgree
    <3>2. \A q \in Refs \ {r} : res'[q] = res[q]
      BY <1>1, <2>2 DEF HoldSeats, TypeOK
    <3> QED BY <3>1, <3>2 DEF FactsStay
  <2> QED BY <1>5, <2>1, <2>2 DEF CommitBooking
<1> QED BY <1>3, <1>4, <1>5

\* A transaction that begins has a reason that fits its job, a passenger form waits for
\* its flight, and a payment is for a flight that can be booked.
Begins(t) ==
    /\ ReasonFits(t)
    /\ t.op = "passengers" => t.pc = "flight"
    /\ Paying(t) => Bookable(FlightFor(t.ref))

\* The transaction t is the next stage of s.
Follows(t, s) ==
    /\ s.op # "passengers" /\ t.op = s.op /\ t.reason = s.reason /\ t.ref = s.ref
    /\ Paying(t) <=> Paying(s)

\* What a step does to the transaction of v: nothing, move it on, begin it or end it.
TxnStep(v) ==
    \/ txn'[v] = txn[v]
    \/ Follows(txn'[v], txn[v])
    \/ txn[v] = NoTxn /\ Begins(txn'[v])
    \/ txn'[v] = NoTxn
    \/ LockFlightForPassengers(v)

\* Every transaction begins and goes on like this.
LEMMA TxnSteps ==
    ASSUME TypeOK, [Next]_vars
    PROVE  \A v \in Workers : TxnStep(v)
<1>1. txn \in [Workers -> Txn]
  BY DEF TypeOK
<1>2. ASSUME NEW w \in Workers, NEW t, txn' = [txn EXCEPT ![w] = t], txn[w] = NoTxn, Begins(t)
      PROVE  \A v \in Workers : TxnStep(v)
  BY <1>1, <1>2 DEF TxnStep
<1>4. ASSUME UNCHANGED txn PROVE \A v \in Workers : TxnStep(v)
  BY <1>4 DEF TxnStep
<1>5. ASSUME NEW w \in Workers, EndTxn(w) PROVE \A v \in Workers : TxnStep(v)
  BY <1>1, <1>5 DEF EndTxn, TxnStep
<1>6. ASSUME NEW w \in Workers, NEW op \in Releasing, NEW r, NEW reason, NEW amount,
             txn[w] = NoTxn, BeginRelease(w, op, r, reason, amount), reason # "none",
             op = "expire" => reason = "timeout", op = "sweep" => reason = "flight_cancelled"
      PROVE  \A v \in Workers : TxnStep(v)
  <2> DEFINE t == [NoTxn EXCEPT !.op = op, !.pc = "class", !.ref = r,
                                !.reason = reason, !.amount = amount]
  <2>1. t.op = op /\ t.reason = reason /\ t.pc = "class"
    BY DEF NoTxn
  <2>2. txn' = [txn EXCEPT ![w] = t]
    BY <1>6 DEF BeginRelease, Advance
  <2> HIDE DEF t
  <2>3. Begins(t)
    BY <1>6, <2>1 DEF Begins, ReasonFits, Releasing, Paying
  <2> QED BY <1>2, <1>6, <2>2, <2>3
<1>7. ASSUME NEW w \in Workers, NEW row, NEW t, txn[w] = NoTxn, Advance(w, row, t),
             \/ t.op \in {"create", "deposit"}
             \/ t.op = "passengers" /\ t.pc = "flight"
             \/ Paying(t) /\ Bookable(FlightFor(t.ref))
      PROVE  \A v \in Workers : TxnStep(v)
  <2>1. Begins(t)
    BY <1>7 DEF Begins, ReasonFits, Paying, Releasing
  <2> QED BY <1>2, <1>7, <2>1 DEF Advance
<1>8. ASSUME NEW w \in Workers, NEW row, NEW t, Advance(w, row, t), Follows(t, txn[w])
      PROVE  \A v \in Workers : TxnStep(v)
  BY <1>1, <1>8 DEF Advance, TxnStep
<1>9. ASSUME NEW w \in Workers, Request(w)
      PROVE  \A v \in Workers : TxnStep(v)
  <2>1. ASSUME NEW u \in Users, NEW c \in Classes, NEW S \in SUBSET Seats,
               LockClassForBooking(w, u, c, S)
        PROVE  \A v \in Workers : TxnStep(v)
    <3> DEFINE t == [NoTxn EXCEPT !.op = "create", !.pc = "user", !.user = u, !.class = c,
                          !.seats = S]
    <3>1. Advance(w, c, t)
      BY <2>1 DEF LockClassForBooking
    <3>2. t.op \in {"create", "deposit"}
      BY DEF NoTxn
    <3> HIDE DEF t
    <3>3. txn[w] = NoTxn
      BY <2>1 DEF LockClassForBooking, Ready
    <3> QED BY <1>7, <3>1, <3>2, <3>3
  <2>2. ASSUME NEW r \in Refs, LockReservationForPayment(w, r)
        PROVE  \A v \in Workers : TxnStep(v)
    <3>0. txn[w] = NoTxn
      BY <2>2 DEF LockReservationForPayment, Ready
    <3>1. CASE Overdue(r)
      BY <1>6, <2>2, <3>0, <3>1 DEF LockReservationForPayment, Releasing
    <3>2. CASE ~Overdue(r)
      <4> DEFINE t == [NoTxn EXCEPT !.op = "pay", !.pc = "user", !.ref = r,
                        !.user = res[r].user, !.amount = res[r].price]
      <4>1. Advance(w, r, t)
        BY <2>2, <3>2 DEF LockReservationForPayment
      <4>2. Paying(t) /\ t.ref = r
        BY DEF NoTxn, Paying
      <4>3. Bookable(FlightFor(r))
        BY <2>2, <3>2 DEF LockReservationForPayment
      <4> HIDE DEF t
      <4> QED BY <1>7, <3>0, <4>1, <4>2, <4>3
    <3> QED BY <3>1, <3>2
  <2>3. ASSUME NEW r \in Refs, LockReservationForCancel(w, r)
        PROVE  \A v \in Workers : TxnStep(v)
    BY <1>6, <2>3 DEF LockReservationForCancel, Releasing, Ready
  <2>4. ASSUME NEW r \in Refs, NEW ids \in SUBSET NationalIds,
               LockReservationForPassengers(w, r, ids)
        PROVE  \A v \in Workers : TxnStep(v)
    <3> DEFINE t == [NoTxn EXCEPT !.op = "passengers", !.pc = "flight", !.ref = r, !.ids = ids]
    <3>1. Advance(w, r, t)
      BY <2>4 DEF LockReservationForPassengers
    <3>2. t.op = "passengers" /\ t.pc = "flight"
      BY DEF NoTxn
    <3> HIDE DEF t
    <3>3. txn[w] = NoTxn
      BY <2>4 DEF LockReservationForPassengers, Ready
    <3> QED BY <1>7, <3>1, <3>2, <3>3
  <2>5. ASSUME NEW f \in Flights, CancelFlight(w, f)
        PROVE  \A v \in Workers : TxnStep(v)
    BY <1>4, <2>5 DEF CancelFlight
  <2>6. ASSUME NEW u \in Users, NEW amount \in TopUps, LockUserForTopUp(w, u, amount)
        PROVE  \A v \in Workers : TxnStep(v)
    <3> DEFINE t == [NoTxn EXCEPT !.op = "deposit", !.pc = "charge", !.user = u,
                          !.amount = amount, !.balance = wallet[u]]
    <3>1. Advance(w, u, t)
      BY <2>6 DEF LockUserForTopUp
    <3>2. t.op \in {"create", "deposit"}
      BY DEF NoTxn
    <3> HIDE DEF t
    <3>3. txn[w] = NoTxn
      BY <2>6 DEF LockUserForTopUp, Ready
    <3> QED BY <1>7, <3>1, <3>2, <3>3
  <2> QED BY <1>9, <2>1, <2>2, <2>3, <2>4, <2>5, <2>6, Zenon DEF Request
<1>10. ASSUME NEW w \in Workers,
              \/ LockUserForBooking(w) \/ LockUserForPayment(w)
              \/ LockClassForRelease(w) \/ LockUserForRefund(w) \/ LockFlightForPassengers(w)
       PROVE  \A v \in Workers : TxnStep(v)
  <2> PICK t \in Txn : t = txn[w]
    BY <1>1
  <2>1. ASSUME NEW row, NEW pc, t.op # "passengers", Advance(w, row, [t EXCEPT !.pc = pc]),
               t.op = "pay" => (pc \in {"user", "charge"} <=> t.pc \in {"user", "charge"})
        PROVE  \A v \in Workers : TxnStep(v)
    <3> DEFINE next == [t EXCEPT !.pc = pc]
    <3>1. next.op = t.op /\ next.reason = t.reason /\ next.ref = t.ref /\ next.pc = pc
      BY DEF Txn
    <3> HIDE DEF next
    <3>2. Follows(next, t)
      BY <2>1, <3>1 DEF Follows, Paying
    <3> QED BY <1>8, <2>1, <3>2 DEF next
  <2>2. ASSUME NEW row, NEW pc, NEW balance, t.op # "passengers",
               Advance(w, row, [t EXCEPT !.pc = pc, !.balance = balance]),
               t.op = "pay" => (pc \in {"user", "charge"} <=> t.pc \in {"user", "charge"})
        PROVE  \A v \in Workers : TxnStep(v)
    <3> DEFINE next == [t EXCEPT !.pc = pc, !.balance = balance]
    <3>1. next.op = t.op /\ next.reason = t.reason /\ next.ref = t.ref /\ next.pc = pc
      BY DEF Txn
    <3> HIDE DEF next
    <3>2. Follows(next, t)
      BY <2>2, <3>1 DEF Follows, Paying
    <3> QED BY <1>8, <2>2, <3>2 DEF next
  <2>3. CASE LockUserForBooking(w)
    BY <1>5, <2>1, <2>3 DEF LockUserForBooking, Rollback, Doing
  <2>4. CASE LockUserForPayment(w)
    BY <1>5, <2>2, <2>4 DEF LockUserForPayment, Rollback, Doing
  <2>5. CASE LockClassForRelease(w)
    BY <2>1, <2>5 DEF LockClassForRelease, Releasing
  <2>6. CASE LockUserForRefund(w)
    <3> PICK u : u = res[t.ref].user
      OBVIOUS
    <3>1. Advance(w, u, [t EXCEPT !.pc = "release", !.balance = wallet[u]])
      BY <2>6 DEF LockUserForRefund
    <3>2. t.op # "passengers" /\ t.pc = "refund"
      BY <2>6 DEF LockUserForRefund, Releasing
    <3> QED BY <2>2, <3>1, <3>2
  <2>7. CASE LockFlightForPassengers(w)
    <3>1. \A v \in Workers \ {w} : txn'[v] = txn[v]
      BY <1>1, <2>7 DEF LockFlightForPassengers, Rollback, EndTxn, Advance
    <3> QED BY <2>7, <3>1 DEF TxnStep
  <2> QED BY <1>10, <2>3, <2>4, <2>5, <2>6, <2>7
<1>11. ASSUME NEW w \in Workers,
              \/ CommitBooking(w) \/ CommitPayment(w) \/ CommitRelease(w)
              \/ CommitPassengers(w) \/ CommitTopUp(w) \/ SweepFails(w) \/ Crash(w)
       PROVE  \A v \in Workers : TxnStep(v)
  <2>1. EndTxn(w)
    BY <1>11 DEF CommitBooking, HoldSeats, Rollback, CommitPayment, CommitRelease,
       CommitPassengers, CommitTopUp, SweepFails, Crash
  <2> QED BY <1>5, <2>1
<1>12. ASSUME NEW w \in Workers, ExpireNext(w)
       PROVE  \A v \in Workers : TxnStep(v)
  BY <1>4, <1>6, <1>12 DEF ExpireNext, ExpireIfOverdue, Releasing
<1>13. ASSUME NEW w \in Workers, SweepNext(w)
       PROVE  \A v \in Workers : TxnStep(v)
  BY <1>4, <1>6, <1>13 DEF SweepNext, SweepIfActive, Releasing
<1>14. ASSUME NEW w \in Workers,
              \/ ListOverdue(w) \/ ListExpiring(w) \/ ActivateFlights(w) \/ TellTopUp(w)
              \/ ListForSweep(w) \/ WarnNext(w) \/ CompleteFlights(w)
       PROVE  \A v \in Workers : TxnStep(v)
  <2>1. UNCHANGED txn
    BY <1>14 DEF ListOverdue, ListExpiring, ActivateFlights, TellTopUp, ListForSweep, WarnNext,
       CompleteFlights
  <2> QED BY <1>4, <2>1
<1>15. CASE Tick \/ Quiet \/ UNCHANGED vars
  <2>1. UNCHANGED txn
    BY <1>15 DEF Tick, Quiet, vars
  <2> QED BY <1>4, <2>1
<1> QED BY <1>9, <1>10, <1>11, <1>12, <1>13, <1>14, <1>15, Zenon DEF Next, Continue

\* Everything but four commits takes no time and tells nothing of a reservation but a warning.
LEMMA NotesKept ==
    ASSUME NEW w \in Workers,
           \/ Request(w) \/ ListOverdue(w) \/ ListExpiring(w) \/ ActivateFlights(w)
           \/ SweepFails(w) \/ Crash(w) \/ Rollback(w)
           \/ LockUserForBooking(w) \/ LockUserForPayment(w)
           \/ LockClassForRelease(w) \/ LockUserForRefund(w) \/ LockFlightForPassengers(w)
           \/ CommitTopUp(w) \/ TellTopUp(w) \/ ExpireNext(w) \/ ListForSweep(w) \/ SweepNext(w)
           \/ WarnNext(w) \/ CompleteFlights(w)
    PROVE  now' = now /\ (notes' = notes \/ WarnNext(w) \/ TellTopUp(w))
<1>1. CASE Request(w)
  <2>1. ASSUME NEW u \in Users, NEW c \in Classes, NEW S \in SUBSET Seats,
               LockClassForBooking(w, u, c, S)
        PROVE  now' = now /\ (notes' = notes \/ WarnNext(w) \/ TellTopUp(w))
    BY <2>1 DEF LockClassForBooking, db
  <2>2. ASSUME NEW r \in Refs, LockReservationForPayment(w, r)
        PROVE  now' = now /\ (notes' = notes \/ WarnNext(w) \/ TellTopUp(w))
    BY <2>2 DEF LockReservationForPayment, db
  <2>3. ASSUME NEW r \in Refs, LockReservationForCancel(w, r)
        PROVE  now' = now /\ (notes' = notes \/ WarnNext(w) \/ TellTopUp(w))
    BY <2>3 DEF LockReservationForCancel, db
  <2>4. ASSUME NEW r \in Refs, NEW ids \in SUBSET NationalIds,
               LockReservationForPassengers(w, r, ids)
        PROVE  now' = now /\ (notes' = notes \/ WarnNext(w) \/ TellTopUp(w))
    BY <2>4 DEF LockReservationForPassengers, db
  <2>5. ASSUME NEW f \in Flights, CancelFlight(w, f)
        PROVE  now' = now /\ (notes' = notes \/ WarnNext(w) \/ TellTopUp(w))
    BY <2>5 DEF CancelFlight
  <2>6. ASSUME NEW u \in Users, NEW amount \in TopUps, LockUserForTopUp(w, u, amount)
        PROVE  now' = now /\ (notes' = notes \/ WarnNext(w) \/ TellTopUp(w))
    BY <2>6 DEF LockUserForTopUp, db
  <2> QED BY <1>1, <2>1, <2>2, <2>3, <2>4, <2>5, <2>6, Zenon DEF Request
<1>2. CASE \/ ListOverdue(w) \/ ListExpiring(w) \/ ActivateFlights(w)
           \/ SweepFails(w) \/ Crash(w) \/ Rollback(w) \/ ListForSweep(w)
           \/ ExpireNext(w) \/ SweepNext(w)
  BY <1>2, Zenon DEF ListOverdue, ListExpiring, ActivateFlights, SweepFails, Crash, db,
     Rollback, ExpireNext, ListForSweep, SweepNext
<1>3. CASE \/ LockUserForBooking(w) \/ LockUserForPayment(w)
           \/ LockClassForRelease(w) \/ LockUserForRefund(w) \/ LockFlightForPassengers(w)
  BY <1>3 DEF LockUserForBooking, LockUserForPayment, LockClassForRelease,
     LockUserForRefund, LockFlightForPassengers, Rollback, db
<1>4. CASE CommitTopUp(w) \/ TellTopUp(w) \/ WarnNext(w) \/ CompleteFlights(w)
  BY <1>4 DEF CommitTopUp, TellTopUp, WarnNext, CompleteFlights
<1> QED BY <1>1, <1>2, <1>3, <1>4, Zenon

\* So every release keeps a reason that fits.
LEMMA ReasonsStay ==
    ASSUME TypeOK, NotesInv, [Next]_vars
    PROVE  \A v \in Workers : ReasonFits(txn'[v])
<1> SUFFICES ASSUME NEW v \in Workers PROVE ReasonFits(txn'[v])
  OBVIOUS
<1>1. TxnStep(v) /\ ReasonFits(txn[v])
  BY TxnSteps DEF NotesInv
<1>2. LockFlightForPassengers(v) => txn'[v].op \in {"passengers", "none"}
  BY DEF TypeOK, LockFlightForPassengers, Doing, Rollback, EndTxn, Advance, NoTxn, Txn
<1>3. ReasonFits(NoTxn)
  BY DEF ReasonFits, NoTxn, Releasing
<1> QED BY <1>1, <1>2, <1>3 DEF TxnStep, Follows, Begins, ReasonFits, Releasing, Paying

\* Every action tells the truth, and makes nothing told before a lie.
LEMMA NextNotes == Inv /\ MoneyInv /\ NotesInv /\ [Next]_vars => NotesInv'
<1> SUFFICES ASSUME Inv, MoneyInv, NotesInv, [Next]_vars PROVE NotesInv'
  OBVIOUS
<1>1. TypeOK BY DEF Inv
<1>2. \A v \in Workers : ReasonFits(txn'[v])
  BY <1>1, ReasonsStay
<1> SUFFICES FactsStay /\ \A n \in notes' \ notes : NoteIsTrue(n)'
  BY <1>2, OldNotesStayTrue DEF NotesInv
<1>3. res' = res => FactsStay
  BY DEF FactsStay
<1>4. ASSUME NEW w \in Workers, CommitPayment(w)
      PROVE  FactsStay /\ \A n \in notes' \ notes : NoteIsTrue(n)'
  <2>1. FactsStay
    BY <1>4, OtherFacts
  <2>2. PaymentReads(w)
    BY <1>1, <1>4 DEF Inv, ReadsStayTrue, TxnOK, CommitPayment, Doing, NoTxn, Releasing
  <2> PICK r \in Refs : r = txn[w].ref
    BY <2>2 DEF PaymentReads
  <2>3. res'[r].settledAt # NotPaid
    <3>1. res[r] \in Reservation
      BY <1>1, <2>2 DEF PaymentReads, TypeOK, Absent
    <3> QED BY <1>1, <1>4, <3>1 DEF CommitPayment, TypeOK, Reservation, NotPaid
  <2>4. notes' = notes \cup {Note("paid", txn[w].user, r)}
    BY <1>4 DEF CommitPayment
  <2> QED BY <2>1, <2>3, <2>4 DEF NoteIsTrue, Note
<1>5. ASSUME NEW w \in Workers, CommitRelease(w)
      PROVE  FactsStay /\ \A n \in notes' \ notes : NoteIsTrue(n)'
  <2>1. /\ FactsStay
        /\ txn[w].ref \in Refs
        /\ res'[txn[w].ref].refund = txn[w].amount
        /\ res'[txn[w].ref].reason = txn[w].reason
    BY <1>5, ReleaseFacts
  <2> PICK r \in Refs : r = txn[w].ref
    BY <2>1
  <2>2. ReasonFits(txn[w])
    BY DEF NotesInv
  <2>3. notes' = notes \cup ReleaseNotes(txn[w].op, r, txn[w].amount)
    BY <1>5 DEF CommitRelease
  <2>4. ASSUME NEW n \in ReleaseNotes(txn[w].op, r, txn[w].amount)
        PROVE  /\ n.about = r
               /\ \/ n.kind = "expired" /\ txn[w].op = "expire"
                  \/ n.kind = "flight_cancelled" /\ txn[w].op = "sweep"
                  \/ n.kind = "refund" /\ txn[w].amount > 0
    BY <2>4 DEF ReleaseNotes, Note
  <2> QED BY <2>1, <2>2, <2>3, <2>4 DEF NoteIsTrue, ReasonFits
<1>6. ASSUME NEW w \in Workers, CommitPassengers(w) \/ CommitBooking(w)
      PROVE  FactsStay /\ \A n \in notes' \ notes : NoteIsTrue(n)'
  <2>1. notes' = notes
    BY <1>6 DEF CommitPassengers, CommitBooking, HoldSeats, Rollback, db
  <2> QED BY <1>6, <2>1, OtherFacts
<1>7. ASSUME NEW w \in Workers,
             \/ Request(w) \/ ListOverdue(w) \/ ListExpiring(w) \/ ActivateFlights(w)
             \/ SweepFails(w) \/ Crash(w)
             \/ LockUserForBooking(w) \/ LockUserForPayment(w)
             \/ LockClassForRelease(w) \/ LockUserForRefund(w) \/ LockFlightForPassengers(w)
             \/ CommitTopUp(w) \/ TellTopUp(w) \/ ExpireNext(w) \/ ListForSweep(w)
             \/ SweepNext(w) \/ WarnNext(w) \/ CompleteFlights(w)
      PROVE  FactsStay /\ \A n \in notes' \ notes : NoteIsTrue(n)'
  <2>1. res' = res
    BY <1>7, NoCommitYet, NoCommitNow
  <2>2. notes' = notes \/ WarnNext(w) \/ TellTopUp(w)
    BY <1>7, NotesKept
  <2>3. WarnNext(w) \/ TellTopUp(w) => \A n \in notes' \ notes : n.kind \in {"expiring", "charged"}
    BY DEF WarnNext, TellTopUp, Note
  <2> QED BY <1>3, <2>1, <2>2, <2>3 DEF NoteIsTrue
<1>8. CASE Tick \/ Quiet \/ UNCHANGED vars
  <2>1. res' = res /\ notes' = notes
    BY <1>8 DEF Tick, Quiet, vars, db
  <2> QED BY <1>3, <2>1
<1> QED BY <1>4, <1>5, <1>6, <1>7, <1>8, Zenon DEF Next, Continue

\* The invariant, for every instance of Booking.
THEOREM NotesInvariance == Spec => []NotesInv
<1>1. Init => NotesInv
  <2>1. Init => \A w \in Workers : ReasonFits(txn[w])
    BY DEF Init, ReasonFits, NoTxn, Releasing
  <2> QED BY <2>1 DEF Init, NotesInv
<1>2. [](Inv /\ MoneyInv) /\ [][Next]_vars /\ NotesInv => []NotesInv
  BY NextNotes, PTL
<1> QED BY <1>1, <1>2, Invariance, MoneyInvariance, PTL DEF Spec

\* A notification never says what is not so, in whatever order payments, releases
\* and cancellations overlap: what it reports has been committed and is not undone.
THEOREM NotesNeverLie == Spec => []NotesAreTrue
  BY NotesInvSuffices, NotesInvariance, PTL

-----------------------------------------------------------------------------
(* Passengers.                                                             *)

\* A reservation that the check of national ids did not have to see, or need not see any more.
Stale(r) == Overdue(r) \/ PaidLate(r)

\* Two reservations that still hold seats of a flight name the same person.
Shared(q, r) ==
    /\ q # r /\ IsActive(q) /\ IsActive(r) /\ FlightFor(q) = FlightFor(r)
    /\ res[q].ids \cap res[r].ids # {}

\* A passenger form that passed the check is about to name a person of q.
Claims(w, q) ==
    /\ Doing(w, "passengers", "commit")
    /\ q # txn[w].ref /\ IsActive(q) /\ FlightFor(q) = FlightFor(txn[w].ref)
    /\ txn[w].ids \cap res[q].ids # {}

PersonInv ==
    /\ \A q, r \in Refs : Shared(q, r) => Stale(q) \/ Stale(r)
    /\ \A w \in Workers : \A q \in Refs : Claims(w, q) => Stale(q)

\* A reservation that is live and stale was paid late.
LEMMA PersonInvSuffices == TypeOK /\ PersonInv => SharedPersonWasPaidLate
<1> SUFFICES ASSUME TypeOK, PersonInv, NEW q \in Refs, NEW r \in Refs,
                    q # r, IsLive(q), IsLive(r), FlightFor(q) = FlightFor(r),
                    res[q].ids \cap res[r].ids # {}
             PROVE  PaidLate(q) \/ PaidLate(r)
  BY DEF SharedPersonWasPaidLate
<1>1. \A s \in Refs : IsLive(s) => IsActive(s) /\ ~Overdue(s)
  BY DEF TypeOK, IsLive, IsActive, Overdue, Reservation, Absent
<1>2. Shared(q, r)
  BY <1>1 DEF Shared
<1> QED BY <1>1, <1>2 DEF PersonInv, Stale

\* What a step may do to a reservation that is not the one whose passengers it writes.
RowStays(r) ==
    IsActive(r)' =>
        IF IsActive(r)
        THEN /\ res'[r].class = res[r].class /\ res'[r].ids = res[r].ids
             /\ Stale(r) => Stale(r)'
        ELSE res'[r].ids = {}

\* A form that passed the check earlier keeps what it found, whoever changes other rows.
LEMMA ClaimsKept ==
    ASSUME Inv, Inv', PersonInv, NEW v \in Workers, txn'[v] = txn[v],
           NEW q \in Refs, RowStays(q), RowStays(txn[v].ref), Claims(v, q)'
    PROVE  Stale(q)'
<1>1. Doing(v, "passengers", "commit")
  BY DEF Claims, Doing
<1>2. PassengerReads(v) /\ PassengerReads(v)'
  BY <1>1 DEF Inv, ReadsStayTrue, TxnOK, Doing, NoTxn, Releasing
<1> PICK r : r = txn[v].ref
  OBVIOUS
<1>3. r \in Refs /\ IsActive(r) /\ IsActive(r)'
  BY <1>2 DEF PassengerReads, IsActive
<1>4. res'[r].class = res[r].class
  BY <1>3 DEF RowStays
<1>5. /\ q # r /\ IsActive(q)' /\ FlightOf[res'[q].class] = FlightOf[res'[r].class]
      /\ txn[v].ids \cap res'[q].ids # {}
  BY DEF Claims, FlightFor, IsActive
<1>6. IsActive(q) /\ res'[q].class = res[q].class /\ res'[q].ids = res[q].ids
      /\ (Stale(q) => Stale(q)')
  BY <1>5 DEF RowStays
<1>7. Claims(v, q)
  BY <1>1, <1>4, <1>5, <1>6 DEF Claims, FlightFor
<1> QED BY <1>6, <1>7 DEF PersonInv

\* Two reservations whose passengers are not rewritten share nobody new.
LEMMA SharedKept ==
    ASSUME PersonInv, NEW q \in Refs, NEW r \in Refs, RowStays(q), RowStays(r), Shared(q, r)'
    PROVE  Stale(q)' \/ Stale(r)'
<1>1. /\ q # r /\ IsActive(q)' /\ IsActive(r)'
      /\ FlightOf[res'[q].class] = FlightOf[res'[r].class] /\ res'[q].ids \cap res'[r].ids # {}
  BY DEF Shared, FlightFor
<1>2. IsActive(q) /\ IsActive(r)
  BY <1>1 DEF RowStays
<1>3. Shared(q, r)
  BY <1>1, <1>2 DEF RowStays, Shared, FlightFor
<1> QED BY <1>1, <1>2, <1>3 DEF PersonInv, RowStays

\* A step in which nobody passes the check and nobody's passengers are written.
LEMMA PersonKept ==
    ASSUME Inv, Inv', PersonInv, \A r \in Refs : RowStays(r),
           \A v \in Workers : Doing(v, "passengers", "commit")' => txn'[v] = txn[v]
    PROVE  PersonInv'
<1>1. ASSUME NEW q \in Refs, NEW r \in Refs, Shared(q, r)'
      PROVE  Stale(q)' \/ Stale(r)'
  BY <1>1, SharedKept
<1>2. ASSUME NEW v \in Workers, NEW q \in Refs, Claims(v, q)'
      PROVE  Stale(q)'
  <2>1. Doing(v, "passengers", "commit")' /\ PassengerReads(v)'
    BY <1>2 DEF Claims, Inv, ReadsStayTrue, TxnOK, Doing, NoTxn, Releasing
  <2>2. txn'[v] = txn[v] /\ txn[v].ref \in Refs
    BY <2>1 DEF PassengerReads
  <2> QED BY <1>2, <2>2, ClaimsKept
<1> QED BY <1>1, <1>2 DEF PersonInv

\* Reservations nobody writes stay as they are while time passes.
LEMMA UntouchedRowStays ==
    ASSUME TypeOK, NEW r \in Refs, res'[r] = res[r], now' \in Nat, now' >= now
    PROVE  RowStays(r)
<1>1. res[r].status = "pending" => res[r].deadline \in Int
  BY DEF TypeOK, Reservation, Absent
<1>2. now \in Int
  BY DEF TypeOK
<1> QED BY <1>1, <1>2 DEF RowStays, Stale, Overdue, PaidLate, IsActive

\* The check of national ids, under the flight's lock, sees every live reservation.
LEMMA LockFlightPerson ==
    ASSUME Inv, Inv', PersonInv, NEW w \in Workers, LockFlightForPassengers(w)
    PROVE  PersonInv'
<1>1. TypeOK BY DEF Inv
<1>2. res' = res /\ now' = now
  BY DEF LockFlightForPassengers, Rollback, db
<1>3. \A r \in Refs : RowStays(r)
  BY <1>1, <1>2, UntouchedRowStays DEF TypeOK
<1>4. CASE Rollback(w)
  <2>1. \A v \in Workers : Doing(v, "passengers", "commit")' => txn'[v] = txn[v]
    BY <1>1, <1>4 DEF Rollback, EndTxn, Doing, NoTxn, TypeOK
  <2> QED BY <1>3, <2>1, PersonKept
<1>5. CASE /\ ConflictingIds(txn[w].ref, txn[w].ids) = {}
           /\ Advance(w, FlightFor(txn[w].ref), [txn[w] EXCEPT !.pc = "commit"])
  <2>1. /\ txn'[w].ref = txn[w].ref /\ txn'[w].ids = txn[w].ids
        /\ \A v \in Workers \ {w} : txn'[v] = txn[v]
    BY <1>1, <1>5 DEF Advance, TypeOK, Txn
  <2>2. ASSUME NEW q \in Refs, Claims(w, q)'
        PROVE  Stale(q)'
    <3> PICK r : r = txn[w].ref
      OBVIOUS
    <3>1. /\ q # r /\ IsActive(q) /\ FlightFor(q) = FlightFor(r)
          /\ txn[w].ids \cap res[q].ids # {}
      BY <1>2, <2>1, <2>2 DEF Claims, IsActive, FlightFor
    <3>2. ~IsLive(q)
      BY <1>5, <3>1 DEF ConflictingIds
    <3>3. Overdue(q)
      BY <1>1, <3>1, <3>2 DEF IsLive, IsActive, Overdue, TypeOK, Reservation, Absent
    <3> QED BY <1>2, <3>3 DEF Stale, Overdue
  <2>3. ASSUME NEW v \in Workers, NEW q \in Refs, Claims(v, q)'
        PROVE  Stale(q)'
    <3>1. CASE v = w
      BY <2>2, <2>3, <3>1
    <3>2. CASE v # w
      <4>1. txn'[v] = txn[v] /\ PassengerReads(v)'
        BY <2>1, <2>3, <3>2 DEF Claims, Inv, ReadsStayTrue, TxnOK, Doing, NoTxn, Releasing
      <4>2. txn[v].ref \in Refs
        BY <4>1 DEF PassengerReads
      <4> QED BY <1>3, <2>3, <4>1, <4>2, ClaimsKept
    <3> QED BY <3>1, <3>2
  <2>4. ASSUME NEW q \in Refs, NEW r \in Refs, Shared(q, r)'
        PROVE  Stale(q)' \/ Stale(r)'
    BY <1>3, <2>4, SharedKept
  <2> QED BY <2>3, <2>4 DEF PersonInv
<1> QED BY <1>4, <1>5 DEF LockFlightForPassengers

\* The names are written: nobody else of the flight was about to write theirs.
LEMMA CommitPassengersPerson ==
    ASSUME Inv, Inv', PersonInv, NEW w \in Workers, CommitPassengers(w)
    PROVE  PersonInv'
<1>1. TypeOK BY DEF Inv
<1>2. PassengerReads(w) /\ txn[w].pc = "commit" /\ Doing(w, "passengers", "commit")
  BY DEF Inv, ReadsStayTrue, TxnOK, CommitPassengers, Doing, NoTxn, Releasing
<1> PICK r \in Refs : r = txn[w].ref
  BY <1>2 DEF PassengerReads
<1>3. IsActive(r) /\ lock[FlightFor(r)] = w
  BY <1>2 DEF PassengerReads
<1>4. /\ now' = now
      /\ \A q \in Refs \ {r} : res'[q] = res[q]
      /\ res'[r].status = res[r].status /\ res'[r].class = res[r].class
      /\ res'[r].deadline = res[r].deadline /\ res'[r].settledAt = res[r].settledAt
      /\ res'[r].ids = txn[w].ids
  BY <1>1, <1>3 DEF CommitPassengers, TypeOK, Reservation, Absent, IsActive
<1>5. /\ \A v \in Workers \ {w} : txn'[v] = txn[v]
      /\ ~Doing(w, "passengers", "commit")'
  BY <1>1 DEF CommitPassengers, EndTxn, Doing, NoTxn, TypeOK
<1>6. \A q \in Refs \ {r} : RowStays(q)
  BY <1>1, <1>4, UntouchedRowStays DEF TypeOK
<1>7. ASSUME NEW q \in Refs, q # r, Shared(q, r)' \/ Shared(r, q)'
      PROVE  Stale(q)'
  <2>1. IsActive(q) /\ FlightFor(q) = FlightFor(r) /\ txn[w].ids \cap res[q].ids # {}
    BY <1>4, <1>7 DEF Shared, IsActive, FlightFor
  <2>2. Stale(q)
    BY <1>2, <1>7, <2>1 DEF Claims, PersonInv
  <2> QED BY <1>4, <1>7, <2>2 DEF Stale, Overdue, PaidLate
<1>8. ASSUME NEW q \in Refs, NEW s \in Refs, Shared(q, s)'
      PROVE  Stale(q)' \/ Stale(s)'
  <2>1. CASE q = r \/ s = r
    BY <1>7, <1>8, <2>1 DEF Shared
  <2>2. CASE q # r /\ s # r
    BY <1>6, <1>8, <2>2, SharedKept
  <2> QED BY <2>1, <2>2
<1>9. ASSUME NEW v \in Workers, NEW q \in Refs, Claims(v, q)'
      PROVE  Stale(q)'
  <2>1. v # w /\ txn'[v] = txn[v] /\ Doing(v, "passengers", "commit")
    BY <1>5, <1>9 DEF Claims, Doing
  <2>2. PassengerReads(v) /\ txn[v].pc = "commit"
    BY <2>1 DEF Inv, ReadsStayTrue, TxnOK, Doing, NoTxn, Releasing
  <2> PICK s \in Refs : s = txn[v].ref
    BY <2>2 DEF PassengerReads
  <2>3. lock[FlightFor(s)] = v /\ lock[s] = v /\ lock[r] = w
    BY <1>2, <2>2 DEF PassengerReads
  <2>4. s # r /\ RowStays(s)
    BY <1>6, <2>1, <2>3
  <2>5. q # r
    <3>1. SUFFICES ASSUME q = r PROVE FALSE
      OBVIOUS
    <3>2. FlightOf[res'[r].class] = FlightOf[res'[s].class]
      BY <1>9, <2>1, <3>1 DEF Claims, FlightFor
    <3>3. FlightFor(r) = FlightFor(s)
      BY <1>4, <2>4, <3>2 DEF FlightFor
    <3> QED BY <1>3, <2>1, <2>3, <3>3
  <2> QED BY <1>6, <1>9, <2>1, <2>4, <2>5, ClaimsKept
<1> QED BY <1>8, <1>9 DEF PersonInv

\* Bookings, payments and releases write nobody's passengers.
LEMMA CommitRowStays ==
    ASSUME Inv, MoneyInv, NEW w \in Workers,
           CommitPayment(w) \/ CommitRelease(w) \/ CommitBooking(w),
           NEW q \in Refs
    PROVE  RowStays(q)
<1>1. TypeOK BY DEF Inv
<1>2. now' = now /\ now \in Nat
  BY <1>1 DEF CommitPayment, CommitRelease, CommitBooking, HoldSeats, Rollback, TypeOK
<1>3. CASE CommitPayment(w)
  <2>1. CASE q # txn[w].ref
    BY <1>1, <1>2, <1>3, <2>1, UntouchedRowStays DEF CommitPayment, TypeOK
  <2>2. CASE q = txn[w].ref
    <3>1. PaymentReads(w)
      BY <1>3 DEF Inv, ReadsStayTrue, TxnOK, CommitPayment, Doing, NoTxn, Releasing
    <3> PICK row \in Reservation : row = res[q]
      BY <1>1, <2>2, <3>1 DEF PaymentReads, TypeOK, Absent
    <3>2. row.status = "pending" /\ row.deadline \in Int
      BY <2>2, <3>1 DEF PaymentReads, Reservation
    <3>3. /\ res'[q].class = row.class /\ res'[q].ids = row.ids /\ res'[q].settledAt = now
          /\ res'[q].deadline = row.deadline
      BY <1>1, <1>3, <2>2 DEF CommitPayment, TypeOK, Reservation
    <3>4. IsActive(q)
      BY <3>2 DEF IsActive
    <3>5. ~PaidLate(q)
      BY <3>2 DEF MoneyInv, ColumnsAgree, PaidLate
    <3>6. Overdue(q) => PaidLate(q)'
      <4>1. Overdue(q) => row.deadline <= now
        BY DEF Overdue
      <4>2. PaidLate(q)' <=> now # NotPaid /\ now >= row.deadline
        BY <3>3 DEF PaidLate
      <4> QED BY <1>2, <3>2, <4>1, <4>2 DEF NotPaid
    <3> QED BY <3>3, <3>4, <3>5, <3>6 DEF RowStays, Stale
  <2> QED BY <2>1, <2>2
<1>4. CASE CommitRelease(w)
  <2>1. CASE q # txn[w].ref
    BY <1>1, <1>2, <1>4, <2>1, UntouchedRowStays DEF CommitRelease, TypeOK
  <2>2. CASE q = txn[w].ref
    <3>1. res'[q].status = "cancelled"
      BY <1>1, <1>4, <2>2 DEF CommitRelease, TypeOK, Reservation, Absent
    <3> QED BY <3>1 DEF RowStays, IsActive
  <2> QED BY <2>1, <2>2
<1>5. CASE CommitBooking(w)
  <2>1. CASE Rollback(w)
    BY <1>1, <1>2, <2>1, UntouchedRowStays DEF Rollback, db
  <2>2. ASSUME NEW r \in Refs, res[r].status = "none", HoldSeats(w, r)
        PROVE  RowStays(q)
    <3>1. CASE q # r
      BY <1>1, <1>2, <2>2, <3>1, UntouchedRowStays DEF HoldSeats, TypeOK
    <3>2. CASE q = r
      BY <1>1, <2>2, <3>2 DEF HoldSeats, TypeOK, Absent, RowStays, IsActive
    <3> QED BY <3>1, <3>2
  <2> QED BY <1>5, <2>1, <2>2 DEF CommitBooking
<1> QED BY <1>3, <1>4, <1>5

\* Every action keeps a shared person's excuse.
LEMMA NextPerson == Inv /\ Inv' /\ MoneyInv /\ PersonInv /\ [Next]_vars => PersonInv'
<1> SUFFICES ASSUME Inv, Inv', MoneyInv, PersonInv, [Next]_vars PROVE PersonInv'
  OBVIOUS
<1>1. TypeOK BY DEF Inv
<1>2. CASE \E w \in Workers : LockFlightForPassengers(w) \/ CommitPassengers(w)
  BY <1>2, LockFlightPerson, CommitPassengersPerson
<1>3. CASE ~ \E w \in Workers : LockFlightForPassengers(w) \/ CommitPassengers(w)
  <2>1. ASSUME NEW v \in Workers, Doing(v, "passengers", "commit")'
        PROVE  txn'[v] = txn[v]
    <3>1. TxnStep(v)
      BY <1>1, TxnSteps
    <3> QED BY <1>3, <2>1, <3>1 DEF TxnStep, Follows, Begins, Doing, NoTxn
  <2>2. ASSUME NEW r \in Refs
        PROVE  RowStays(r)
    <3>1. CASE \E w \in Workers : CommitPayment(w) \/ CommitRelease(w) \/ CommitBooking(w)
      BY <3>1, CommitRowStays
    <3>2. CASE UNCHANGED res /\ now' \in Nat /\ now' >= now
      BY <1>1, <3>2, UntouchedRowStays
    <3>3. ASSUME NEW w \in Workers,
                 \/ Request(w) \/ ListOverdue(w) \/ ListExpiring(w) \/ ActivateFlights(w)
                 \/ SweepFails(w) \/ Crash(w)
                 \/ LockUserForBooking(w) \/ LockUserForPayment(w)
                 \/ LockClassForRelease(w) \/ LockUserForRefund(w)
                 \/ CommitTopUp(w) \/ TellTopUp(w) \/ ExpireNext(w) \/ ListForSweep(w)
                 \/ SweepNext(w) \/ WarnNext(w) \/ CompleteFlights(w)
          PROVE  RowStays(r)
      <4>1. res' = res
        BY <3>3, NoCommitYet, NoCommitNow
      <4>2. now' = now
        BY <3>3, NotesKept
      <4> QED BY <1>1, <3>2, <4>1, <4>2 DEF TypeOK
    <3>4. CASE Tick \/ Quiet \/ UNCHANGED vars
      BY <1>1, <3>2, <3>4 DEF Tick, Quiet, vars, db, TypeOK
    <3> QED BY <1>3, <3>1, <3>3, <3>4, Zenon DEF Next, Continue
  <2> QED BY <2>1, <2>2, PersonKept
<1> QED BY <1>2, <1>3

\* Two reservations of a flight name the same person only if one was paid after its time ran
\* out, however forms, payments and expiry overlap.
THEOREM PersonsAreChecked == Spec => []SharedPersonWasPaidLate
<1>1. Init => PersonInv
  BY DEF Init, PersonInv, Shared, Claims, Doing, NoTxn, IsActive, Absent
<1>2. Inv => TypeOK BY DEF Inv
<1> QED BY <1>1, <1>2, PersonInvSuffices, NextPerson, Invariance, MoneyInvariance, PTL DEF Spec

-----------------------------------------------------------------------------
(* Cancelled flights.                                                      *)

\* A reservation of flight f that is paid, or that a payment under way may still pay.
Payable(r) ==
    \/ res[r].status = "reserved"
    \/ res[r].status = "pending" /\ \E v \in Workers : Paying(txn[v]) /\ txn[v].ref = r

Due(r, f) == Payable(r) /\ FlightFor(r) = f

Sweeping(t, r) == t.op = "sweep" /\ t.ref = r

\* What is due of a flight that has been listed is still on the list, failed, or being released.
Covered(w) ==
    LET j == job[w] IN
    j.kind = "sweep" =>
        /\ flightStatus[j.flight] = "cancelled"
        /\ j.pass > 1 => \A r \in Refs : Due(r, j.flight) =>
                             r \in j.todo \cup j.failed \/ Sweeping(txn[w], r)

SweepInv ==
    /\ \A r \in Refs : res[r].status = "cancelled" => res[r].reason # "none"
    /\ \A f \in swept : flightStatus[f] = "cancelled" /\ \A r \in Refs : ~Due(r, f)
    /\ \A w \in Workers : Covered(w)

\* Nothing is due of a swept flight: what was paid is cancelled, by the user or with its price back.
LEMMA SweepInvSuffices == TypeOK /\ MoneyInv /\ SweepInv => SweptFlightIsRefunded
<1> SUFFICES ASSUME TypeOK, MoneyInv, SweepInv, NEW r \in Refs,
                    res[r].status # "none", FlightFor(r) \in swept, res[r].settledAt # NotPaid
             PROVE  /\ res[r].status = "cancelled"
                    /\ res[r].reason = "user" \/ res[r].refund = res[r].price
  BY DEF SweptFlightIsRefunded
<1> PICK row \in Reservation : row = res[r]
  BY DEF TypeOK, Absent
<1>1. ColumnsAgree(r) /\ ~Due(r, FlightFor(r))
  BY DEF MoneyInv, SweepInv
<1>2. row.status \in {"pending", "reserved", "cancelled"}
      /\ row.reason \in {"none", "user", "timeout", "flight_cancelled"}
  BY DEF Reservation
<1>3. row.status # "reserved"
  BY <1>1 DEF Due, Payable
<1>4. row.status # "pending"
  BY <1>1 DEF ColumnsAgree
<1>5. row.reason # "none"
  BY <1>2, <1>3, <1>4 DEF SweepInv
<1> QED BY <1>1, <1>2, <1>3, <1>4, <1>5 DEF ColumnsAgree

\* A cancelled flight stays cancelled.
LEMMA FlightStaysCancelled ==
    ASSUME TypeOK, [Next]_vars, NEW f \in Flights, flightStatus[f] = "cancelled"
    PROVE  flightStatus'[f] = "cancelled"
<1>1. ASSUME UNCHANGED flightStatus PROVE flightStatus'[f] = "cancelled"
  BY <1>1
<1>2. ASSUME NEW w \in Workers, Request(w) PROVE flightStatus'[f] = "cancelled"
  <2>1. ASSUME NEW g \in Flights, CancelFlight(w, g)
        PROVE  flightStatus'[f] = "cancelled"
    BY <2>1 DEF CancelFlight, TypeOK
  <2>2. ASSUME NEW u \in Users, NEW c \in Classes, NEW S \in SUBSET Seats,
               LockClassForBooking(w, u, c, S)
        PROVE  UNCHANGED flightStatus
    BY <2>2 DEF LockClassForBooking, db
  <2>3. ASSUME NEW r \in Refs, LockReservationForPayment(w, r) \/ LockReservationForCancel(w, r)
        PROVE  UNCHANGED flightStatus
    BY <2>3 DEF LockReservationForPayment, LockReservationForCancel, db
  <2>4. ASSUME NEW r \in Refs, NEW ids \in SUBSET NationalIds,
               LockReservationForPassengers(w, r, ids)
        PROVE  UNCHANGED flightStatus
    BY <2>4 DEF LockReservationForPassengers, db
  <2>5. ASSUME NEW u \in Users, NEW amount \in TopUps, LockUserForTopUp(w, u, amount)
        PROVE  UNCHANGED flightStatus
    BY <2>5 DEF LockUserForTopUp, db
  <2> QED BY <1>1, <1>2, <2>1, <2>2, <2>3, <2>4, <2>5, Zenon DEF Request
<1>3. ASSUME NEW w \in Workers, ActivateFlights(w) \/ CompleteFlights(w)
      PROVE  flightStatus'[f] = "cancelled"
  <2> PICK F, s : SetStatus(F, s) /\ f \notin F
    BY <1>3 DEF ActivateFlights, CompleteFlights, ToActivate, ToComplete
  <2> QED BY DEF SetStatus
<1>4. ASSUME NEW w \in Workers,
             \/ ListOverdue(w) \/ ListExpiring(w) \/ SweepFails(w) \/ Crash(w)
             \/ LockUserForBooking(w) \/ LockUserForPayment(w)
             \/ LockClassForRelease(w) \/ LockUserForRefund(w) \/ LockFlightForPassengers(w)
      PROVE  flightStatus'[f] = "cancelled"
  BY <1>1, <1>4, Zenon DEF ListOverdue, ListExpiring, SweepFails, Crash, LockUserForBooking,
     LockUserForPayment, LockClassForRelease, LockUserForRefund, LockFlightForPassengers,
     Rollback, db
<1>5. ASSUME NEW w \in Workers,
             \/ CommitBooking(w) \/ CommitPayment(w) \/ CommitRelease(w) \/ CommitPassengers(w)
             \/ CommitTopUp(w) \/ TellTopUp(w) \/ ExpireNext(w) \/ ListForSweep(w)
             \/ SweepNext(w) \/ WarnNext(w)
      PROVE  flightStatus'[f] = "cancelled"
  BY <1>1, <1>5 DEF CommitBooking, HoldSeats, Rollback, CommitPayment, CommitRelease,
     CommitPassengers, CommitTopUp, TellTopUp, ExpireNext, ListForSweep, SweepNext, WarnNext, db
<1>6. CASE Tick \/ Quiet \/ UNCHANGED vars
  BY <1>1, <1>6 DEF Tick, Quiet, vars, db
<1> QED BY <1>2, <1>3, <1>4, <1>5, <1>6, Zenon DEF Next, Continue

\* What a step does to a reservation's status.
RowStep(r) ==
    \/ res'[r].status = res[r].status /\ res'[r].class = res[r].class
       /\ res'[r].reason = res[r].reason
    \/ \E w \in Workers : CommitPayment(w) /\ txn[w].ref = r
    \/ res'[r].status = "cancelled" /\ \E w \in Workers : CommitRelease(w) /\ txn[w].ref = r
    \/ res[r].status = "none" /\ res'[r].status = "pending" /\ \E w \in Workers : EndTxn(w)

\* A reservation is booked, paid, released, or keeps its status.
LEMMA RowSteps ==
    ASSUME Inv, [Next]_vars, NEW r \in Refs
    PROVE  RowStep(r)
<1>1. TypeOK BY DEF Inv
<1>2. ASSUME res' = res PROVE RowStep(r)
  BY <1>2 DEF RowStep
<1>3. ASSUME NEW w \in Workers, CommitPayment(w) PROVE RowStep(r)
  BY <1>1, <1>3 DEF CommitPayment, RowStep, TypeOK
<1>4. ASSUME NEW w \in Workers, CommitRelease(w) PROVE RowStep(r)
  <2>1. CASE r = txn[w].ref
    <3>1. res'[r].status = "cancelled"
      BY <1>1, <1>4, <2>1 DEF CommitRelease, TypeOK, Reservation, Absent
    <3> QED BY <1>4, <2>1, <3>1 DEF RowStep
  <2>2. CASE r # txn[w].ref
    BY <1>1, <1>4, <2>2 DEF CommitRelease, RowStep, TypeOK
  <2> QED BY <2>1, <2>2
<1>5. ASSUME NEW w \in Workers, CommitPassengers(w) PROVE RowStep(r)
  <2>1. res'[r].status = res[r].status /\ res'[r].class = res[r].class
        /\ res'[r].reason = res[r].reason
    BY <1>1, <1>5 DEF CommitPassengers, TypeOK, Reservation, Absent
  <2> QED BY <2>1 DEF RowStep
<1>6. ASSUME NEW w \in Workers, CommitBooking(w) PROVE RowStep(r)
  <2>1. CASE Rollback(w)
    BY <1>2, <2>1 DEF Rollback, db
  <2>2. ASSUME NEW q \in Refs, res[q].status = "none", HoldSeats(w, q)
        PROVE  RowStep(r)
    <3>1. CASE q = r
      BY <1>1, <2>2, <3>1 DEF HoldSeats, RowStep, TypeOK, Absent
    <3>2. CASE q # r
      BY <1>1, <2>2, <3>2 DEF HoldSeats, RowStep, TypeOK
    <3> QED BY <3>1, <3>2
  <2> QED BY <1>6, <2>1, <2>2 DEF CommitBooking
<1>7. ASSUME NEW w \in Workers,
             \/ Request(w) \/ ListOverdue(w) \/ ListExpiring(w) \/ ActivateFlights(w)
             \/ SweepFails(w) \/ Crash(w)
             \/ LockUserForBooking(w) \/ LockUserForPayment(w)
             \/ LockClassForRelease(w) \/ LockUserForRefund(w) \/ LockFlightForPassengers(w)
             \/ CommitTopUp(w) \/ TellTopUp(w) \/ ExpireNext(w) \/ ListForSweep(w)
             \/ SweepNext(w) \/ WarnNext(w) \/ CompleteFlights(w)
      PROVE  RowStep(r)
  <2>1. res' = res
    BY <1>7, NoCommitYet, NoCommitNow
  <2> QED BY <1>2, <2>1
<1>8. CASE Tick \/ Quiet \/ UNCHANGED vars
  BY <1>2, <1>8 DEF Tick, Quiet, vars, db
<1> QED BY <1>3, <1>4, <1>5, <1>6, <1>7, <1>8, Zenon DEF Next, Continue

\* Nothing becomes due of a cancelled flight: no payment begins, and one that is
\* under way was counted.
LEMMA NothingNewIsDue ==
    ASSUME Inv, [Next]_vars, NEW f, flightStatus[f] = "cancelled", NEW r \in Refs, Due(r, f)'
    PROVE  Due(r, f)
<1>1. TypeOK BY DEF Inv
<1>2. Payable(r)' /\ FlightOf[res'[r].class] = f
  BY DEF Due, FlightFor
<1>3. ASSUME NEW w \in Workers, Paying(txn[w]), txn[w].ref = r
      PROVE  res[r].status = "pending"
  <2>1. PaymentReads(w)
    BY <1>3 DEF Inv, ReadsStayTrue, TxnOK, Paying, NoTxn, Releasing
  <2> QED BY <1>3, <2>1 DEF PaymentReads
<1>4. CASE /\ res'[r].status = res[r].status /\ res'[r].class = res[r].class
           /\ res'[r].reason = res[r].reason
  <2>1. FlightFor(r) = f
    BY <1>2, <1>4 DEF FlightFor
  <2>2. CASE res[r].status = "reserved"
    BY <2>1, <2>2 DEF Due, Payable
  <2>3. CASE res[r].status # "reserved"
    <3>1. res[r].status = "pending" /\ \E v \in Workers : Paying(txn'[v]) /\ txn'[v].ref = r
      BY <1>2, <1>4, <2>3 DEF Payable, Paying
    <3> PICK v \in Workers : Paying(txn'[v]) /\ txn'[v].ref = r
      BY <3>1
    <3>2. TxnStep(v)
      BY <1>1, TxnSteps
    <3>3. ~ (txn'[v] = NoTxn)
      BY DEF Paying, NoTxn
    <3>4. ~ LockFlightForPassengers(v)
      BY <1>1 DEF TypeOK, LockFlightForPassengers, Doing, Rollback, EndTxn, Advance, NoTxn, Txn,
         Paying
    <3>5. ~ Begins(txn'[v])
      BY <2>1 DEF Begins, Bookable
    <3>6. Paying(txn[v]) /\ txn[v].ref = r
      BY <3>2, <3>3, <3>4, <3>5 DEF TxnStep, Follows
    <3> QED BY <2>1, <3>1, <3>6 DEF Due, Payable
  <2> QED BY <2>2, <2>3
<1>5. ASSUME NEW w \in Workers, CommitPayment(w), txn[w].ref = r
      PROVE  Due(r, f)
  <2>1. Paying(txn[w])
    BY <1>5 DEF CommitPayment, Doing, Paying
  <2>2. res[r].status = "pending"
    BY <1>3, <1>5, <2>1
  <2>3. res'[r].class = res[r].class
    BY <1>1, <1>5, <2>2 DEF CommitPayment, TypeOK, Reservation, Absent
  <2> QED BY <1>2, <1>5, <2>1, <2>2, <2>3 DEF Due, Payable, FlightFor
<1>6. CASE res'[r].status = "cancelled"
  BY <1>2, <1>6 DEF Payable
<1>7. ASSUME NEW w \in Workers, res[r].status = "none", res'[r].status = "pending", EndTxn(w)
      PROVE  FALSE
  <2> PICK v \in Workers : Paying(txn'[v]) /\ txn'[v].ref = r
    BY <1>2, <1>7 DEF Payable, Paying
  <2>1. txn'[v] = txn[v]
    BY <1>1, <1>7 DEF EndTxn, TypeOK, Paying, NoTxn
  <2> QED BY <1>3, <1>7, <2>1
<1> QED BY <1>4, <1>5, <1>6, <1>7, RowSteps DEF RowStep

\* What a step does to the work of a loop.
JobStep(v) ==
    \/ job'[v] = job[v]
    \/ job'[v].kind # "sweep"
    \/ \E f \in Flights : CancelFlight(v, f)
    \/ ListForSweep(v) \/ SweepNext(v) \/ SweepFails(v)

\* Only cancelling a flight begins a sweep, and only the sweep itself goes on with it.
LEMMA JobSteps ==
    ASSUME TypeOK, [Next]_vars
    PROVE  \A v \in Workers : JobStep(v)
<1>1. job \in [Workers -> Job]
  BY DEF TypeOK
<1>2. ASSUME UNCHANGED job PROVE \A v \in Workers : JobStep(v)
  BY <1>2 DEF JobStep
<1>3. ASSUME NEW w \in Workers, NEW j, SetJob(w, j), j.kind # "sweep"
      PROVE  \A v \in Workers : JobStep(v)
  BY <1>1, <1>3 DEF SetJob, JobStep
<1>4. ASSUME NEW w \in Workers, NEW j, SetJob(w, j),
             \/ \E f \in Flights : CancelFlight(w, f)
             \/ ListForSweep(w) \/ SweepNext(w) \/ SweepFails(w)
      PROVE  \A v \in Workers : JobStep(v)
  BY <1>1, <1>4 DEF SetJob, JobStep
<1>5. ASSUME NEW w \in Workers, Request(w) PROVE \A v \in Workers : JobStep(v)
  <2>1. ASSUME NEW g \in Flights, CancelFlight(w, g)
        PROVE  \A v \in Workers : JobStep(v)
    BY <1>4, <2>1 DEF CancelFlight
  <2>2. ASSUME NEW u \in Users, NEW c \in Classes, NEW S \in SUBSET Seats,
               LockClassForBooking(w, u, c, S)
        PROVE  UNCHANGED job
    BY <2>2 DEF LockClassForBooking
  <2>3. ASSUME NEW r \in Refs, LockReservationForPayment(w, r) \/ LockReservationForCancel(w, r)
        PROVE  UNCHANGED job
    BY <2>3 DEF LockReservationForPayment, LockReservationForCancel
  <2>4. ASSUME NEW r \in Refs, NEW ids \in SUBSET NationalIds,
               LockReservationForPassengers(w, r, ids)
        PROVE  UNCHANGED job
    BY <2>4 DEF LockReservationForPassengers
  <2>5. ASSUME NEW u \in Users, NEW amount \in TopUps, LockUserForTopUp(w, u, amount)
        PROVE  UNCHANGED job
    BY <2>5, Zenon DEF LockUserForTopUp
  <2> QED BY <1>2, <1>5, <2>1, <2>2, <2>3, <2>4, <2>5, Zenon DEF Request
<1>6. ASSUME NEW w \in Workers,
             \/ LockUserForBooking(w) \/ LockUserForPayment(w)
             \/ LockClassForRelease(w) \/ LockUserForRefund(w) \/ LockFlightForPassengers(w)
             \/ CommitBooking(w) \/ CommitPayment(w) \/ CommitRelease(w) \/ CommitPassengers(w)
      PROVE  \A v \in Workers : JobStep(v)
  <2>1. UNCHANGED job
    BY <1>6 DEF LockUserForBooking, LockUserForPayment, LockClassForRelease, LockUserForRefund,
       LockFlightForPassengers, CommitBooking, HoldSeats, CommitPayment, CommitRelease,
       CommitPassengers, Rollback
  <2> QED BY <1>2, <2>1
<1>7. ASSUME NEW w \in Workers, NEW j, SetJob(w, j), job[w].kind # "sweep",
             \/ j = NoJob
             \/ \E r : j = Without(job[w], r)
      PROVE  \A v \in Workers : JobStep(v)
  <2>1. NoJob.kind = "none"
    BY DEF NoJob
  <2>2. \A r : Without(job[w], r).kind # "sweep"
    BY <1>1, <1>7, <2>1 DEF Without, Job
  <2> QED BY <1>3, <1>7, <2>1, <2>2
<1>8. ASSUME NEW w \in Workers, ExpireNext(w) \/ WarnNext(w) \/ TellTopUp(w) \/ CompleteFlights(w)
      PROVE  \A v \in Workers : JobStep(v)
  <2>1. CASE ExpireNext(w)
    BY <1>7, <2>1 DEF ExpireNext
  <2>2. CASE WarnNext(w)
    BY <1>7, <2>2 DEF WarnNext
  <2>3. CASE TellTopUp(w)
    BY <1>7, <2>3 DEF TellTopUp
  <2>4. CASE CompleteFlights(w)
    BY <1>7, <2>4 DEF CompleteFlights
  <2> QED BY <1>8, <2>1, <2>2, <2>3, <2>4
<1>9. ASSUME NEW w \in Workers, ListForSweep(w) \/ SweepNext(w) \/ SweepFails(w)
      PROVE  \A v \in Workers : JobStep(v)
  <2>1. \A v \in Workers \ {w} : job'[v] = job[v]
    BY <1>1, <1>9 DEF ListForSweep, SweepNext, SweepFails, SetJob
  <2> QED BY <1>9, <2>1 DEF JobStep
<1>10. ASSUME NEW w \in Workers,
              \/ ListOverdue(w) \/ ListExpiring(w) \/ ActivateFlights(w) \/ CommitTopUp(w)
              \/ Crash(w)
       PROVE  \A v \in Workers : JobStep(v)
  <2>1. CASE ListOverdue(w)
    <3> PICK todo : SetJob(w, [NoJob EXCEPT !.kind = "expire", !.todo = todo])
      BY <2>1, Zenon DEF ListOverdue
    <3>1. [NoJob EXCEPT !.kind = "expire", !.todo = todo].kind = "expire"
      BY DEF NoJob
    <3> QED BY <1>3, <3>1
  <2>2. CASE ListExpiring(w)
    <3> PICK todo : SetJob(w, [NoJob EXCEPT !.kind = "warn", !.todo = todo])
      BY <2>2, Zenon DEF ListExpiring
    <3>1. [NoJob EXCEPT !.kind = "warn", !.todo = todo].kind = "warn"
      BY DEF NoJob
    <3> QED BY <1>3, <3>1
  <2>3. CASE ActivateFlights(w)
    <3>1. [NoJob EXCEPT !.kind = "sync", !.at = now].kind = "sync"
      BY DEF NoJob
    <3> QED BY <1>3, <2>3, <3>1 DEF ActivateFlights
  <2>4. CASE CommitTopUp(w)
    <3> PICK u, at : SetJob(w, [NoJob EXCEPT !.kind = "tell", !.user = u, !.at = at])
      BY <2>4 DEF CommitTopUp
    <3>1. [NoJob EXCEPT !.kind = "tell", !.user = u, !.at = at].kind = "tell"
      BY DEF NoJob
    <3> QED BY <1>3, <3>1
  <2>5. CASE Crash(w)
    BY <1>3, <2>5 DEF Crash, NoJob
  <2> QED BY <1>10, <2>1, <2>2, <2>3, <2>4, <2>5
<1>11. CASE Tick \/ Quiet \/ UNCHANGED vars
  BY <1>2, <1>11 DEF Tick, Quiet, vars
<1> QED BY <1>5, <1>6, <1>8, <1>9, <1>10, <1>11, Zenon DEF Next, Continue

\* The release of a sweep ends by its commit, a failure or a crash.
LEMMA SweepTxnEnds ==
    ASSUME TypeOK, [Next]_vars, NEW v \in Workers, txn[v].op = "sweep", txn'[v] = NoTxn
    PROVE  CommitRelease(v) \/ SweepFails(v) \/ Crash(v)
<1>1. txn \in [Workers -> Txn] /\ txn'[v] # txn[v]
  BY DEF TypeOK, NoTxn
<1>2. ASSUME UNCHANGED txn PROVE FALSE
  BY <1>1, <1>2
<1>3. ASSUME NEW w \in Workers, NEW row, NEW t, Advance(w, row, t), txn[w] = NoTxn PROVE FALSE
  BY <1>1, <1>3 DEF Advance, NoTxn
<1>4. ASSUME NEW w \in Workers, EndTxn(w), txn[w].op # "sweep" PROVE FALSE
  BY <1>1, <1>4 DEF EndTxn
<1>5. ASSUME NEW w \in Workers, NEW row, NEW t, Advance(w, row, t), t # NoTxn PROVE FALSE
  BY <1>1, <1>5 DEF Advance
<1>6. ASSUME NEW w \in Workers, Request(w) PROVE FALSE
  <2>1. txn[w] = NoTxn \/ UNCHANGED txn
    BY <1>6 DEF Request, LockClassForBooking, LockReservationForPayment, LockReservationForCancel,
       LockReservationForPassengers, LockUserForTopUp, CancelFlight, Ready
  <2>2. \E row, t : Advance(w, row, t) \/ UNCHANGED txn
    BY <1>6 DEF Request, LockClassForBooking, LockReservationForPayment, LockReservationForCancel,
       LockReservationForPassengers, LockUserForTopUp, CancelFlight, BeginRelease
  <2> QED BY <1>2, <1>3, <2>1, <2>2, SMTT(20)
<1>7. ASSUME NEW w \in Workers,
             \/ LockUserForBooking(w) \/ LockUserForPayment(w) \/ LockFlightForPassengers(w)
             \/ CommitBooking(w) \/ CommitPayment(w) \/ CommitPassengers(w) \/ CommitTopUp(w)
      PROVE  FALSE
  <2>1. txn[w].op # "sweep"
    BY <1>7 DEF LockUserForBooking, LockUserForPayment, LockFlightForPassengers, CommitBooking,
       CommitPayment, CommitPassengers, CommitTopUp, Doing
  <2>2. \A x \in Workers \ {w} : txn'[x] = txn[x]
    BY <1>1, <1>7 DEF LockUserForBooking, LockUserForPayment, LockFlightForPassengers,
       CommitBooking, HoldSeats, Rollback, CommitPayment, CommitPassengers, CommitTopUp, EndTxn,
       Advance
  <2> QED BY <1>1, <2>1, <2>2
<1>8. ASSUME NEW w \in Workers, LockClassForRelease(w) \/ LockUserForRefund(w) PROVE FALSE
  <2> PICK t \in Txn : t = txn[w]
    BY <1>1
  <2>1. \E pc, balance, row : /\ t.op \in Releasing
                              /\ \/ Advance(w, row, [t EXCEPT !.pc = pc])
                                 \/ Advance(w, row, [t EXCEPT !.pc = pc, !.balance = balance])
    BY <1>8 DEF LockClassForRelease, LockUserForRefund
  <2>2. \A pc, balance : t.op \in Releasing => /\ [t EXCEPT !.pc = pc] # NoTxn
                                               /\ [t EXCEPT !.pc = pc, !.balance = balance] # NoTxn
    BY DEF Txn, NoTxn, Releasing
  <2> QED BY <1>5, <2>1, <2>2
<1>9. ASSUME NEW w \in Workers, CommitRelease(w) \/ SweepFails(w) \/ Crash(w)
      PROVE  w = v
  BY <1>1, <1>9 DEF CommitRelease, SweepFails, Crash, EndTxn
<1>10. ASSUME NEW w \in Workers, ExpireNext(w) \/ SweepNext(w) PROVE FALSE
  <2>1. txn[w] = NoTxn /\ \A x \in Workers \ {w} : txn'[x] = txn[x]
    BY <1>1, <1>10 DEF ExpireNext, SweepNext, ExpireIfOverdue, SweepIfActive, BeginRelease, Advance
  <2> QED BY <1>1, <2>1 DEF NoTxn
<1>11. ASSUME NEW w \in Workers,
              \/ ListOverdue(w) \/ ListExpiring(w) \/ ActivateFlights(w) \/ TellTopUp(w)
              \/ ListForSweep(w) \/ WarnNext(w) \/ CompleteFlights(w)
       PROVE  FALSE
  BY <1>2, <1>11 DEF ListOverdue, ListExpiring, ActivateFlights, TellTopUp, ListForSweep,
     WarnNext, CompleteFlights
<1>12. CASE Tick \/ Quiet \/ UNCHANGED vars
  BY <1>2, <1>12 DEF Tick, Quiet, vars
<1> QED BY <1>6, <1>7, <1>8, <1>9, <1>10, <1>11, <1>12, Zenon DEF Next, Continue

\* A sweep keeps covering what is due, while it lists, releases and fails.
LEMMA CoveredKept ==
    ASSUME Inv, SweepInv, [Next]_vars, NEW w \in Workers
    PROVE  Covered(w)'
<1> PICK j : j = job[w]
  OBVIOUS
<1> PICK k : k = job'[w]
  OBVIOUS
<1>1. TypeOK BY DEF Inv
<1>2. JobStep(w)
  BY <1>1, JobSteps
<1> SUFFICES ASSUME k.kind = "sweep"
             PROVE  /\ flightStatus'[k.flight] = "cancelled"
                    /\ k.pass > 1 => \A r \in Refs : Due(r, k.flight)' =>
                                         r \in k.todo \cup k.failed \/ Sweeping(txn'[w], r)
  BY DEF Covered, Due, Payable, FlightFor, Sweeping
<1>3. j \in Job
  BY <1>1 DEF TypeOK
<1>4. CASE \E f \in Flights : CancelFlight(w, f)
  <2> PICK f \in Flights : CancelFlight(w, f)
    BY <1>4
  <2>1. flightStatus'[f] = "cancelled" /\ k = [NoJob EXCEPT !.kind = "sweep", !.flight = f, !.pass = 1]
    BY <1>1 DEF CancelFlight, SetJob, TypeOK
  <2>2. k.flight = f /\ k.pass = 1
    BY <2>1 DEF NoJob
  <2> QED BY <2>1, <2>2
<1>5. ASSUME j.kind = "sweep", k.flight = j.flight
      PROVE  /\ flightStatus'[k.flight] = "cancelled"
             /\ \A r \in Refs : Due(r, k.flight)' => Due(r, j.flight)
             /\ \A r \in Refs : Due(r, k.flight)' /\ Sweeping(txn[w], r) =>
                    Sweeping(txn'[w], r) \/ SweepFails(w) \/ Crash(w)
  <2>1. flightStatus[j.flight] = "cancelled" /\ j.flight \in Flights
    BY <1>3, <1>5 DEF SweepInv, Covered, Job
  <2>2. flightStatus'[k.flight] = "cancelled"
    BY <1>1, <1>5, <2>1, FlightStaysCancelled
  <2>3. ASSUME NEW r \in Refs, Due(r, k.flight)'
        PROVE  Due(r, j.flight)
    <3> PICK f : f = j.flight
      OBVIOUS
    <3>1. Due(r, f)'
      BY <1>5, <2>3 DEF Due
    <3> QED BY <2>1, <3>1, NothingNewIsDue
  <2>4. ASSUME NEW r \in Refs, Due(r, k.flight)', Sweeping(txn[w], r)
        PROVE  Sweeping(txn'[w], r) \/ SweepFails(w) \/ Crash(w)
    <3>1. TxnStep(w)
      BY <1>1, TxnSteps
    <3>2. CASE txn'[w] = txn[w] \/ Follows(txn'[w], txn[w])
      BY <2>4, <3>2 DEF Sweeping, Follows
    <3>3. CASE txn'[w] = NoTxn
      <4>1. CommitRelease(w) \/ SweepFails(w) \/ Crash(w)
        BY <1>1, <2>4, <3>3, SweepTxnEnds DEF Sweeping
      <4>2. CASE CommitRelease(w)
        <5>1. res'[r].status = "cancelled"
          BY <1>1, <2>4, <4>2 DEF CommitRelease, Sweeping, TypeOK, Reservation, Absent
        <5> QED BY <2>4, <5>1 DEF Due, Payable
      <4> QED BY <4>1, <4>2
    <3>4. ~ (txn[w] = NoTxn) /\ ~ LockFlightForPassengers(w)
      BY <2>4 DEF Sweeping, NoTxn, LockFlightForPassengers, Doing
    <3> QED BY <3>1, <3>2, <3>3, <3>4 DEF TxnStep
  <2> QED BY <2>2, <2>3, <2>4
<1>6. j.kind = "sweep" /\ j.pass > 1 =>
        \A r \in Refs : Due(r, j.flight) => r \in j.todo \cup j.failed \/ Sweeping(txn[w], r)
  BY DEF SweepInv, Covered
<1>7. CASE SweepFails(w)
  <2>1. /\ j.kind = "sweep" /\ k.flight = j.flight /\ k.pass = j.pass /\ k.todo = j.todo
        /\ k.failed = j.failed \cup {txn[w].ref}
    BY <1>1, <1>3, <1>7 DEF SweepFails, SetJob, TypeOK, Job
  <2> QED BY <1>5, <1>6, <2>1 DEF Sweeping
<1>8. CASE SweepNext(w)
  <2> PICK q \in j.todo : SweepIfActive(w, q) /\ k = [j EXCEPT !.todo = @ \ {q}]
    BY <1>1, <1>8 DEF SweepNext, SetJob, TypeOK
  <2>1. /\ j.kind = "sweep" /\ k.flight = j.flight /\ k.pass = j.pass /\ k.todo = j.todo \ {q}
        /\ k.failed = j.failed /\ txn[w] = NoTxn
    BY <1>3, <1>8 DEF SweepNext, Job
  <2>2. ASSUME NEW r \in Refs, Due(r, k.flight)', k.pass > 1
        PROVE  r \in k.todo \cup k.failed \/ Sweeping(txn'[w], r)
    <3>1. Due(r, j.flight) /\ r \in j.todo \cup j.failed
      BY <1>5, <1>6, <2>1, <2>2 DEF Sweeping, NoTxn
    <3>2. CASE r = q
      <4>1. IsActive(q)
        BY <3>1, <3>2 DEF Due, Payable, IsActive
      <4>2. txn'[w].op = "sweep" /\ txn'[w].ref = q
        <5> PICK amount : BeginRelease(w, "sweep", q, "flight_cancelled", amount)
          BY <4>1 DEF SweepIfActive
        <5> DEFINE t == [NoTxn EXCEPT !.op = "sweep", !.pc = "class", !.ref = q,
                                      !.reason = "flight_cancelled", !.amount = amount]
        <5>1. t.op = "sweep" /\ t.ref = q
          BY DEF NoTxn
        <5> HIDE DEF t
        <5>2. txn' = [txn EXCEPT ![w] = t]
          BY DEF BeginRelease, Advance, t
        <5> QED BY <1>1, <5>1, <5>2 DEF TypeOK
      <4> QED BY <3>2, <4>2 DEF Sweeping
    <3> QED BY <2>1, <3>1, <3>2
  <2> QED BY <1>5, <2>1, <2>2
<1>9. CASE ListForSweep(w)
  <2>1. k = [j EXCEPT !.todo = LeftToSweep(j), !.pass = @ + 1] /\ j.kind = "sweep"
    BY <1>1, <1>9 DEF ListForSweep, SetJob, TypeOK, NoJob
  <2>2. k.flight = j.flight /\ k.failed = j.failed /\ k.todo = LeftToSweep(j)
    BY <1>3, <2>1 DEF Job
  <2>3. ASSUME NEW r \in Refs, Due(r, k.flight)'
        PROVE  r \in k.todo \cup k.failed
    <3>1. Due(r, j.flight)
      BY <1>5, <2>1, <2>2, <2>3
    <3> QED BY <2>2, <3>1 DEF Due, Payable, IsActive, LeftToSweep
  <2> QED BY <1>5, <2>1, <2>2, <2>3
<1>10. CASE k = j
  <2>1. CASE Crash(w)
    BY <1>1, <2>1 DEF Crash, SetJob, TypeOK, NoJob
  <2>2. CASE ~Crash(w) /\ ~SweepFails(w)
    BY <1>5, <1>6, <1>10, <2>2
  <2> QED BY <1>7, <2>1, <2>2
<1> QED BY <1>2, <1>4, <1>7, <1>8, <1>9, <1>10 DEF JobStep

\* Only the end of a sweep reports a flight.
LEMMA SweptGrows ==
    ASSUME [Next]_vars, swept' # swept
    PROVE  \E w \in Workers : ListForSweep(w)
<1>1. ASSUME NEW w \in Workers, Request(w) PROVE FALSE
  <2>1. ASSUME NEW u \in Users, NEW c \in Classes, NEW S \in SUBSET Seats,
               LockClassForBooking(w, u, c, S)
        PROVE  FALSE
    BY <2>1 DEF LockClassForBooking
  <2>2. ASSUME NEW r \in Refs, LockReservationForPayment(w, r) \/ LockReservationForCancel(w, r)
        PROVE  FALSE
    BY <2>2 DEF LockReservationForPayment, LockReservationForCancel
  <2>3. ASSUME NEW r \in Refs, NEW ids \in SUBSET NationalIds,
               LockReservationForPassengers(w, r, ids)
        PROVE  FALSE
    BY <2>3 DEF LockReservationForPassengers
  <2>4. ASSUME NEW f \in Flights, CancelFlight(w, f)
        PROVE  FALSE
    BY <2>4 DEF CancelFlight
  <2>5. ASSUME NEW u \in Users, NEW amount \in TopUps, LockUserForTopUp(w, u, amount)
        PROVE  FALSE
    BY <2>5 DEF LockUserForTopUp
  <2> QED BY <1>1, <2>1, <2>2, <2>3, <2>4, <2>5, Zenon DEF Request
<1>2. ASSUME NEW w \in Workers,
             \/ ListOverdue(w) \/ ListExpiring(w) \/ ActivateFlights(w) \/ SweepFails(w)
             \/ Crash(w)
             \/ LockUserForBooking(w) \/ LockUserForPayment(w)
             \/ LockClassForRelease(w) \/ LockUserForRefund(w) \/ LockFlightForPassengers(w)
      PROVE  FALSE
  BY <1>2 DEF ListOverdue, ListExpiring, ActivateFlights, SweepFails, Crash, LockUserForBooking,
     LockUserForPayment, LockClassForRelease, LockUserForRefund, LockFlightForPassengers, Rollback
<1>3. ASSUME NEW w \in Workers,
             \/ CommitBooking(w) \/ CommitPayment(w) \/ CommitRelease(w) \/ CommitPassengers(w)
             \/ CommitTopUp(w) \/ TellTopUp(w) \/ ExpireNext(w) \/ SweepNext(w) \/ WarnNext(w)
             \/ CompleteFlights(w)
      PROVE  FALSE
  BY <1>3 DEF CommitBooking, HoldSeats, CommitPayment, CommitRelease, CommitPassengers,
     CommitTopUp, TellTopUp, ExpireNext, SweepNext, WarnNext, CompleteFlights, Rollback
<1>4. ~(Tick \/ Quiet \/ UNCHANGED vars)
  BY DEF Tick, Quiet, vars
<1> QED BY <1>1, <1>2, <1>3, <1>4, Zenon DEF Next, Continue

\* A flight is reported swept only when nothing of it is due.
LEMMA SweptKept ==
    ASSUME Inv, SweepInv, [Next]_vars, NEW f \in swept'
    PROVE  flightStatus'[f] = "cancelled" /\ \A r \in Refs : ~Due(r, f)'
<1>1. TypeOK BY DEF Inv
<1>2. ASSUME f \in Flights, flightStatus[f] = "cancelled", \A r \in Refs : ~Due(r, f)
      PROVE  flightStatus'[f] = "cancelled" /\ \A r \in Refs : ~Due(r, f)'
  BY <1>1, <1>2, FlightStaysCancelled, NothingNewIsDue
<1>3. CASE f \in swept
  BY <1>1, <1>2, <1>3 DEF SweepInv, TypeOK
<1>4. CASE f \notin swept
  <2> PICK w \in Workers : ListForSweep(w)
    BY <1>4, SweptGrows
  <2> PICK j \in Job : j = job[w]
    BY <1>1 DEF TypeOK
  <2>1. /\ j.kind = "sweep" /\ j.todo = {} /\ j.failed = {} /\ f = j.flight /\ txn[w] = NoTxn
        /\ j.pass > 3 \/ LeftToSweep(j) = {}
    BY <1>4 DEF ListForSweep
  <2>2. f \in Flights /\ flightStatus[f] = "cancelled"
    BY <2>1 DEF Job, SweepInv, Covered
  <2>3. ASSUME NEW r \in Refs, Due(r, f)
        PROVE  FALSE
    <3>1. CASE j.pass > 3
      <4>1. j.pass > 1
        BY <3>1 DEF Job
      <4> QED BY <2>1, <2>3, <4>1 DEF SweepInv, Covered, Sweeping, NoTxn
    <3>2. CASE LeftToSweep(j) = {}
      BY <2>1, <2>3, <3>2 DEF LeftToSweep, Due, Payable, IsActive
    <3> QED BY <2>1, <3>1, <3>2
  <2> QED BY <1>2, <2>2, <2>3
<1> QED BY <1>3, <1>4

\* Every action keeps the promise of a sweep.
LEMMA NextSweep == Inv /\ MoneyInv /\ NotesInv /\ SweepInv /\ [Next]_vars => SweepInv'
<1> SUFFICES ASSUME Inv, MoneyInv, NotesInv, SweepInv, [Next]_vars PROVE SweepInv'
  OBVIOUS
<1>1. ASSUME NEW r \in Refs, res'[r].status = "cancelled"
      PROVE  res'[r].reason # "none"
  <2>1. RowStep(r)
    BY RowSteps
  <2>2. CASE res'[r].status = res[r].status /\ res'[r].reason = res[r].reason
    BY <1>1, <2>2 DEF SweepInv
  <2>3. ASSUME NEW w \in Workers, CommitPayment(w), txn[w].ref = r
        PROVE  FALSE
    BY <1>1, <2>3 DEF CommitPayment, Inv, TypeOK, Reservation, Absent
  <2>4. ASSUME NEW w \in Workers, CommitRelease(w), txn[w].ref = r
        PROVE  res'[r].reason # "none"
    <3>1. ReasonFits(txn[w]) /\ txn[w].op \in Releasing /\ ~Paying(txn[w])
      BY <2>4 DEF NotesInv, CommitRelease, Paying
    <3> QED BY <2>4, <3>1, ReleaseFacts DEF ReasonFits
  <2> QED BY <1>1, <2>1, <2>2, <2>3, <2>4 DEF RowStep
<1>2. \A f \in swept' : flightStatus'[f] = "cancelled" /\ \A r \in Refs : ~Due(r, f)'
  BY SweptKept
<1>3. \A w \in Workers : Covered(w)'
  BY CoveredKept
<1> QED BY <1>1, <1>2, <1>3 DEF SweepInv

\* When a cancellation reports that no booking failed, everyone who had paid for the
\* flight has the price back, also those whose payment was under way at the time.
THEOREM SweepRefundsAll == Spec => []SweptFlightIsRefunded
<1>1. Init => SweepInv
  BY DEF Init, SweepInv, Covered, NoJob, Absent
<1>2. Inv => TypeOK BY DEF Inv
<1> QED BY <1>1, <1>2, SweepInvSuffices, NextSweep, Invariance, MoneyInvariance, NotesInvariance,
           PTL DEF Spec

-----------------------------------------------------------------------------
(* Sums over finite sets (SumFunctionOnSet of the module Functions).        *)

\* A member of a family that contains no other.
IsSmallest(X, F) == X \in F /\ \A Y \in F : Y \subseteq X => Y = X

\* A family of finite sets that is not empty has such a member.
LEMMA SmallestSet ==
    ASSUME NEW S, NEW F \in SUBSET SUBSET S, NEW Z \in F, \A X \in F : IsFiniteSet(X)
    PROVE  \E X : IsSmallest(X, F)
<1> DEFINE R == StrictSubsetOrdering(S)
<1>1. IsWellFoundedOn(R, FiniteSubsetsOf(S))
  BY FS_StrictSubsetOrderingWellFounded
<1>2. \A X, Y \in SUBSET S : Y \subseteq X /\ Y # X => <<Y, X>> \in R
  BY DEF StrictSubsetOrdering, OpToRel
<1>3. F \subseteq FiniteSubsetsOf(S)
  BY DEF FiniteSubsetsOf
<1> HIDE DEF R
<1>4. PICK X \in F : \A Y \in F : ~ (<<Y, X>> \in R)
  BY <1>1, <1>3, WFMin
<1>5. IsSmallest(X, F)
  BY <1>2, <1>4 DEF IsSmallest
<1> QED BY <1>5

\* SumFunctionOnSet adds f up in an order of its choice, one element at a time.
Pick(s) == CHOOSE x \in s : TRUE

IsSum(g, f, S) ==
    g = [s \in SUBSET S |-> IF s = {} THEN 0 ELSE f[Pick(s)] + g[s \ {Pick(s)}]]

\* The recursion of the library, and the function it is the value of.
LEMMA SumIs == ASSUME NEW f, NEW S
               PROVE  SumFunctionOnSet(f, S) = (CHOOSE g : IsSum(g, f, S))[S]
BY DEF SumFunctionOnSet, FoldFunctionOnSet, MapThenFoldSet, IsSum, Pick

\* An element of a set that is not empty.
LEMMA PickIn == \A s : s # {} => Pick(s) \in s
  BY DEF Pick

Adds(g, f, A) == g[A] = IF A = {} THEN 0 ELSE f[Pick(A)] + g[A \ {Pick(A)}]

\* One step of the recursion.
LEMMA SumStep ==
    ASSUME NEW g, NEW f, NEW S, IsSum(g, f, S), NEW A \in SUBSET S
    PROVE  Adds(g, f, A)
  BY DEF IsSum, Adds

\* A sum of a part does not depend on the whole it was computed for.
LEMMA SumUnique ==
    ASSUME NEW f, NEW S, NEW T, NEW g, IsSum(g, f, S), NEW h, IsSum(h, f, T),
           NEW A \in SUBSET S, A \subseteq T, IsFiniteSet(A)
    PROVE  g[A] = h[A]
<1> SUFFICES ASSUME g[A] # h[A] PROVE FALSE
  OBVIOUS
<1> DEFINE F == {X \in SUBSET A : g[X] # h[X]}
<1>1. \A X \in F : IsFiniteSet(X)
  BY FS_Subset
<1>2. PICK X : IsSmallest(X, F)
  <2>1. F \in SUBSET SUBSET A /\ A \in F
    OBVIOUS
  <2> HIDE DEF F
  <2> QED BY <1>1, <2>1, SmallestSet
<1> X \in F /\ \A Y \in F : Y \subseteq X => Y = X
  BY <1>2 DEF IsSmallest
<1>3. /\ g[X] = IF X = {} THEN 0 ELSE f[Pick(X)] + g[X \ {Pick(X)}]
      /\ h[X] = IF X = {} THEN 0 ELSE f[Pick(X)] + h[X \ {Pick(X)}]
  <2>1. X \in SUBSET S /\ X \in SUBSET T
    OBVIOUS
  <2>2. Adds(g, f, X)
    BY <2>1, SumStep
  <2>3. Adds(h, f, X)
    BY <2>1, SumStep
  <2> QED BY <2>2, <2>3 DEF Adds
<1>4. X # {}
  BY <1>3
<1>5. X \ {Pick(X)} \notin F
  BY <1>2, <1>4, PickIn
<1> QED BY <1>3, <1>4, <1>5

\* There is such a function for every finite set.
LEMMA SumExists ==
    ASSUME NEW f, NEW S, IsFiniteSet(S)
    PROVE  \E g : IsSum(g, f, S)
<1> SUFFICES ASSUME ~ \E g : IsSum(g, f, S) PROVE FALSE
  OBVIOUS
<1> DEFINE F == {X \in SUBSET S : ~ \E g : IsSum(g, f, X)}
           H(B) == CHOOSE h : IsSum(h, f, B)
<1>1. \A X \in SUBSET S : IsFiniteSet(X)
  BY FS_Subset
<1>2. PICK A : IsSmallest(A, F)
  <2>1. F \in SUBSET SUBSET S /\ S \in F
    OBVIOUS
  <2>2. \A X \in F : IsFiniteSet(X)
    BY <1>1
  <2> HIDE DEF F
  <2> QED BY <2>1, <2>2, SmallestSet
<1> A \in F /\ \A Y \in F : Y \subseteq A => Y = A
  BY <1>2 DEF IsSmallest
<1>3. \A B \in SUBSET A : B # A => IsSum(H(B), f, B)
  <2> SUFFICES ASSUME NEW B \in SUBSET A, B # A PROVE \E h : IsSum(h, f, B)
    OBVIOUS
  <2>1. B \notin F /\ B \in SUBSET S
    BY <1>2
  <2> QED BY <2>1
<1> DEFINE V(B) == H(B)[B]
           g == [s \in SUBSET A |-> IF s = {} THEN 0 ELSE f[Pick(s)] + V(s \ {Pick(s)})]
<1>4. ASSUME NEW B \in SUBSET A, B # A PROVE g[B] = V(B)
  <2>1. IsSum(H(B), f, B)
    BY <1>3, <1>4
  <2>2. V(B) = IF B = {} THEN 0 ELSE f[Pick(B)] + H(B)[B \ {Pick(B)}]
    <3> HIDE DEF H
    <3>1. Adds(H(B), f, B)
      BY <2>1, SumStep
    <3> QED BY <3>1 DEF Adds
  <2>3. CASE B = {}
    BY <2>2, <2>3
  <2>4. CASE B # {}
    <3> DEFINE C == B \ {Pick(B)}
    <3>1. C \in SUBSET A /\ C # A /\ C \in SUBSET B /\ C \in SUBSET C /\ IsFiniteSet(C)
      <4>1. IsFiniteSet(C)
        BY <1>1
      <4> QED BY <4>1, <1>4
    <3>2. IsSum(H(C), f, C)
      BY <1>3, <3>1, <2>4, PickIn
    <3>3. H(B)[C] = H(C)[C]
      <4> HIDE DEF H, C
      <4> QED BY <2>1, <3>1, <3>2, SumUnique
    <3>4. g[B] = f[Pick(B)] + V(C)
      <4> HIDE DEF V
      <4> QED BY <2>4
    <3> HIDE DEF H, g
    <3> QED BY <2>2, <2>4, <3>3, <3>4
  <2> QED BY <2>3, <2>4
<1>5. IsSum(g, f, A)
  <2>1. \A s \in SUBSET A : s # {} => g[s \ {Pick(s)}] = V(s \ {Pick(s)})
    <3> SUFFICES ASSUME NEW s \in SUBSET A, s # {}
                 PROVE  g[s \ {Pick(s)}] = V(s \ {Pick(s)})
      OBVIOUS
    <3>1. s \ {Pick(s)} \in SUBSET A /\ s \ {Pick(s)} # A
      BY PickIn
    <3> HIDE DEF g, V
    <3> QED BY <3>1, <1>4
  <2> DEFINE k == [s \in SUBSET A |-> IF s = {} THEN 0 ELSE f[Pick(s)] + g[s \ {Pick(s)}]]
  <2>2. g = k
    <3> HIDE DEF V
    <3> QED BY <2>1
  <2> HIDE DEF g
  <2> QED BY <2>2 DEF IsSum
<1> QED BY <1>2, <1>5

\* What the sum is, one element at a time, in any order.
LEMMA SumPick ==
    ASSUME NEW f, NEW S, IsFiniteSet(S)
    PROVE  SumFunctionOnSet(f, S) =
             IF S = {} THEN 0 ELSE f[Pick(S)] + SumFunctionOnSet(f, S \ {Pick(S)})
<1> DEFINE T == S \ {Pick(S)}
           g == CHOOSE g : IsSum(g, f, S)
           h == CHOOSE h : IsSum(h, f, T)
<1>1. IsFiniteSet(T) /\ T \in SUBSET S /\ S \in SUBSET S /\ T \in SUBSET T
  <2>1. T \in SUBSET S
    OBVIOUS
  <2> QED BY <2>1, FS_Subset
<1>2. IsSum(g, f, S) /\ IsSum(h, f, T)
  <2>1. \E k : IsSum(k, f, S)
    BY SumExists
  <2>2. \E k : IsSum(k, f, T)
    <3> HIDE DEF T
    <3> QED BY <1>1, SumExists
  <2> QED BY <2>1, <2>2
<1>3. SumFunctionOnSet(f, S) = g[S] /\ SumFunctionOnSet(f, T) = h[T]
  BY SumIs
<1> HIDE DEF g, h, T
<1>4. Adds(g, f, S)
  BY <1>1, <1>2, SumStep
<1>5. g[T] = h[T]
  BY <1>1, <1>2, SumUnique
<1> QED BY <1>3, <1>4, <1>5 DEF Adds, T

SumsRight(f, S) ==
    /\ SumFunctionOnSet(f, S) \in Int
    /\ \A x \in S : SumFunctionOnSet(f, S) = f[x] + SumFunctionOnSet(f, S \ {x})

\* A sum of numbers is a number, whichever of them is taken off first.
LEMMA SumRight ==
    ASSUME NEW f, NEW S, IsFiniteSet(S), \A x \in S : f[x] \in Int
    PROVE  SumsRight(f, S)
<1> SUFFICES ASSUME ~ SumsRight(f, S) PROVE FALSE
  OBVIOUS
<1> DEFINE F == {X \in SUBSET S : ~ SumsRight(f, X)}
<1>1. \A X \in SUBSET S : IsFiniteSet(X)
  BY FS_Subset
<1>2. PICK A : IsSmallest(A, F)
  <2>1. F \in SUBSET SUBSET S /\ S \in F
    OBVIOUS
  <2>2. \A X \in F : IsFiniteSet(X)
    BY <1>1
  <2> HIDE DEF F
  <2> QED BY <2>1, <2>2, SmallestSet
<1>3. A \in SUBSET S /\ ~ SumsRight(f, A)
  BY <1>2 DEF IsSmallest
<1>4. \A B \in SUBSET A : B # A => SumsRight(f, B)
  BY <1>2 DEF IsSmallest
<1> HIDE DEF F
<1> DEFINE V(X) == SumFunctionOnSet(f, X)
           c == Pick(A)
<1>5. \A X \in SUBSET A : IsFiniteSet(X)
  BY <1>1, <1>3
<1>6. V(A) = IF A = {} THEN 0 ELSE f[c] + V(A \ {c})
  BY <1>5, SumPick
<1>7. CASE A = {}
  BY <1>3, <1>6, <1>7 DEF SumsRight
<1>8. CASE A # {}
  <2>1. c \in A
    BY <1>8, PickIn
  <2>2. SumsRight(f, A \ {c})
    BY <1>4, <2>1
  <2>3. f[c] \in Int
    BY <1>3, <2>1
  <2> HIDE DEF c
  <2>4. V(A \ {c}) \in Int
    BY <2>2 DEF SumsRight
  <2>5. V(A) = f[c] + V(A \ {c})
    BY <1>6, <1>8
  <2>6. ASSUME NEW x \in A PROVE V(A) = f[x] + V(A \ {x})
    <3>1. CASE x = c
      BY <2>5, <3>1
    <3>2. CASE x # c
      <4>1. x \in A \ {c} /\ c \in A \ {x} /\ f[x] \in Int
        BY <3>2, <1>3, <2>1
      <4>2. SumsRight(f, A \ {x}) /\ SumsRight(f, (A \ {c}) \ {x})
        BY <1>4, <2>1
      <4>3. V(A \ {c}) = f[x] + V((A \ {c}) \ {x})
        BY <2>2, <4>1 DEF SumsRight
      <4>4. V(A \ {x}) = f[c] + V((A \ {x}) \ {c})
        BY <4>1, <4>2 DEF SumsRight
      <4>5. (A \ {c}) \ {x} = (A \ {x}) \ {c}
        OBVIOUS
      <4>6. V((A \ {c}) \ {x}) \in Int
        BY <4>2 DEF SumsRight
      <4> DEFINE a == V(A)  b == V(A \ {c})  d == V(A \ {x})  e == V((A \ {c}) \ {x})
      <4>7. a = f[c] + b /\ b = f[x] + e /\ d = f[c] + e
        BY <2>5, <4>3, <4>4, <4>5
      <4>8. e \in Int
        BY <4>6
      <4> HIDE DEF a, b, d, e
      <4>9. a = f[x] + d
        BY <4>7, <4>8, <4>1, <2>3
      <4> QED BY <4>9 DEF a, d
    <3> QED BY <3>1, <3>2
  <2>7. V(A) \in Int
    BY <2>3, <2>4, <2>5
  <2> QED BY <1>3, <2>6, <2>7 DEF SumsRight
<1> QED BY <1>7, <1>8

\* Induction on a finite set, as a statement about a family of sets.
LEMMA OneByOne ==
    ASSUME NEW S, IsFiniteSet(S), NEW G, {} \in G,
           \A X \in SUBSET S : \A x \in X : X \ {x} \in G => X \in G
    PROVE  S \in G
<1> SUFFICES ASSUME S \notin G PROVE FALSE
  OBVIOUS
<1> DEFINE F == {X \in SUBSET S : X \notin G}
<1>1. \A X \in SUBSET S : IsFiniteSet(X)
  BY FS_Subset
<1>2. PICK A : IsSmallest(A, F)
  <2>1. F \in SUBSET SUBSET S /\ S \in F
    OBVIOUS
  <2>2. \A X \in F : IsFiniteSet(X)
    BY <1>1
  <2> HIDE DEF F
  <2> QED BY <2>1, <2>2, SmallestSet
<1>3. A \in SUBSET S /\ A \notin G /\ \A B \in SUBSET A : B # A => B \in G
  BY <1>2 DEF IsSmallest
<1>4. PICK x \in A : TRUE
  BY <1>3
<1>5. A \ {x} \in G
  BY <1>3, <1>4
<1> QED BY <1>3, <1>4, <1>5

\* A sum of numbers is a number.
LEMMA SumInt ==
    ASSUME NEW f, NEW S, IsFiniteSet(S), \A x \in S : f[x] \in Int
    PROVE  SumFunctionOnSet(f, S) \in Int
  BY SumRight DEF SumsRight

\* Any one of the numbers can be taken off a sum.
LEMMA SumOne ==
    ASSUME NEW f, NEW S, IsFiniteSet(S), \A x \in S : f[x] \in Int, NEW x \in S
    PROVE  SumFunctionOnSet(f, S) = f[x] + SumFunctionOnSet(f, S \ {x})
  BY SumRight DEF SumsRight

\* Nothing adds up to nothing.
LEMMA SumNone == ASSUME NEW f PROVE SumFunctionOnSet(f, {}) = 0
  BY SumPick, FS_EmptySet

\* The sum of differences is the difference of the sums.
LEMMA SumMinus ==
    ASSUME NEW S, IsFiniteSet(S), NEW f, NEW g, NEW h,
           \A x \in S : f[x] \in Int /\ g[x] \in Int /\ h[x] = f[x] - g[x]
    PROVE  SumFunctionOnSet(h, S) = SumFunctionOnSet(f, S) - SumFunctionOnSet(g, S)
<1> DEFINE V(k, X) == SumFunctionOnSet(k, X)
           G == {X \in SUBSET S : V(h, X) = V(f, X) - V(g, X)}
<1>1. {} \in G
  BY SumNone
<1>2. ASSUME NEW X \in SUBSET S, NEW x \in X, X \ {x} \in G PROVE X \in G
  <2> DEFINE Y == X \ {x}
  <2>1. IsFiniteSet(X) /\ IsFiniteSet(Y)
    BY FS_Subset
  <2>2. /\ f[x] \in Int /\ g[x] \in Int /\ h[x] = f[x] - g[x]
        /\ \A y \in X : f[y] \in Int /\ g[y] \in Int /\ h[y] \in Int
    OBVIOUS
  <2>3. V(f, Y) \in Int /\ V(g, Y) \in Int
    BY <2>1, <2>2, SumInt
  <2>4. V(f, X) = f[x] + V(f, Y)
    BY <2>1, <2>2, SumOne
  <2>5. V(g, X) = g[x] + V(g, Y)
    BY <2>1, <2>2, SumOne
  <2>6. V(h, X) = h[x] + V(h, Y)
    BY <2>1, <2>2, SumOne
  <2>7. V(h, Y) = V(f, Y) - V(g, Y)
    BY <1>2
  <2> HIDE DEF V, Y
  <2>8. V(h, X) = V(f, X) - V(g, X)
    BY <2>2, <2>3, <2>4, <2>5, <2>6, <2>7
  <2> QED BY <2>8
<1> HIDE DEF G
<1>3. S \in G
  BY <1>1, <1>2, OneByOne
<1> QED BY <1>3 DEF G

\* A sum depends on the numbers that are added only.
LEMMA SumSame ==
    ASSUME NEW S, IsFiniteSet(S), NEW f, NEW g, \A x \in S : f[x] \in Int /\ g[x] = f[x]
    PROVE  SumFunctionOnSet(g, S) = SumFunctionOnSet(f, S)
<1> DEFINE zero == [x \in S |-> 0]
<1>1. \A x \in S : f[x] \in Int /\ zero[x] \in Int /\ f[x] = f[x] - zero[x] /\ g[x] = f[x] - zero[x]
  OBVIOUS
<1> HIDE DEF zero
<1>2. SumFunctionOnSet(g, S) = SumFunctionOnSet(f, S) - SumFunctionOnSet(zero, S)
  BY <1>1, SumMinus
<1>3. SumFunctionOnSet(f, S) = SumFunctionOnSet(f, S) - SumFunctionOnSet(zero, S)
  BY <1>1, SumMinus
<1> QED BY <1>2, <1>3

\* Two sets with nothing in common are added up together or one after the other.
LEMMA SumBoth ==
    ASSUME NEW A, NEW B, IsFiniteSet(A), IsFiniteSet(B), A \cap B = {},
           NEW f, \A x \in A \cup B : f[x] \in Int
    PROVE  SumFunctionOnSet(f, A \cup B) = SumFunctionOnSet(f, A) + SumFunctionOnSet(f, B)
<1> DEFINE V(X) == SumFunctionOnSet(f, X)
           G == {X \in SUBSET A : V(X \cup B) = V(X) + V(B)}
<1>0. V(B) \in Int
  BY SumInt
<1>1. {} \in G
  <2>1. V({} \cup B) = V(B)
    <3>1. {} \cup B = B
      OBVIOUS
    <3> QED BY <3>1
  <2>2. V({}) = 0
    BY SumNone
  <2> HIDE DEF V
  <2> QED BY <2>1, <2>2, <1>0
<1>2. ASSUME NEW X \in SUBSET A, NEW x \in X, X \ {x} \in G PROVE X \in G
  <2> DEFINE Y == X \ {x}
  <2>1. IsFiniteSet(X) /\ IsFiniteSet(Y)
    BY FS_Subset
  <2>2. IsFiniteSet(X \cup B) /\ (X \cup B) \ {x} = Y \cup B /\ x \in X \cup B
    BY <2>1, FS_Union
  <2>3. f[x] \in Int /\ V(Y) \in Int
    <3>1. \A y \in Y : f[y] \in Int
      OBVIOUS
    <3>2. V(Y) \in Int
      BY <2>1, <3>1, SumInt
    <3> QED BY <3>2
  <2>4. V(X) = f[x] + V(Y)
    <3>1. \A y \in X : f[y] \in Int
      OBVIOUS
    <3> QED BY <2>1, <3>1, SumOne
  <2>5. V(X \cup B) = f[x] + V((X \cup B) \ {x})
    <3>1. \A y \in X \cup B : f[y] \in Int
      OBVIOUS
    <3> QED BY <2>2, <3>1, SumOne
  <2>6. V((X \cup B) \ {x}) = V(Y) + V(B)
    <3>1. V(Y \cup B) = V(Y) + V(B)
      BY <1>2
    <3> QED BY <2>2, <3>1
  <2> DEFINE a == V(X \cup B)  b == V(X)  c == V(Y)  d == V(B)  e == V((X \cup B) \ {x})
  <2>7. a = f[x] + e /\ e = c + d /\ b = f[x] + c
    BY <2>4, <2>5, <2>6
  <2>8. c \in Int /\ d \in Int
    BY <1>0, <2>3
  <2> HIDE DEF a, b, c, d, e
  <2>9. a = b + d
    BY <2>3, <2>7, <2>8
  <2> QED BY <2>9 DEF a, b, d
<1> HIDE DEF G
<1>3. A \in G
  BY <1>1, <1>2, OneByOne
<1> QED BY <1>3 DEF G

\* The part where k has the value y.
PartOf(S, k, y) == {x \in S : k[x] = y}

\* A set is added up by its parts.
LEMMA SumByParts ==
    ASSUME NEW S, IsFiniteSet(S), NEW f, \A x \in S : f[x] \in Int,
           NEW T, IsFiniteSet(T), NEW k, \A x \in S : k[x] \in T,
           NEW total, \A y \in T : total[y] = SumFunctionOnSet(f, PartOf(S, k, y))
    PROVE  SumFunctionOnSet(f, S) = SumFunctionOnSet(total, T)
<1> DEFINE V(X) == SumFunctionOnSet(f, X)
           W(Y) == SumFunctionOnSet(total, Y)
           In(Y) == {x \in S : k[x] \in Y}
           G == {Y \in SUBSET T : V(In(Y)) = W(Y)}
<1>1. \A Y : IsFiniteSet(In(Y)) /\ \A x \in In(Y) : f[x] \in Int
  BY FS_Subset
<1>2. \A y \in T : total[y] = V(In({y})) /\ total[y] \in Int
  <2> SUFFICES ASSUME NEW y \in T PROVE total[y] = V(In({y})) /\ total[y] \in Int
    OBVIOUS
  <2>1. PartOf(S, k, y) = In({y})
    BY DEF PartOf
  <2>2. total[y] = V(In({y}))
    BY <2>1
  <2> HIDE DEF In
  <2>3. V(In({y})) \in Int
    BY <1>1, SumInt
  <2> QED BY <2>2, <2>3
<1>3. {} \in G
  <2>1. In({}) = {}
    OBVIOUS
  <2>2. V({}) = 0 /\ W({}) = 0
    BY SumNone
  <2> HIDE DEF V, W, In
  <2> QED BY <2>1, <2>2
<1>4. ASSUME NEW Y \in SUBSET T, NEW y \in Y, Y \ {y} \in G PROVE Y \in G
  <2> DEFINE Z == Y \ {y}
  <2>1. In(Y) = In(Z) \cup In({y}) /\ In(Z) \cap In({y}) = {}
    OBVIOUS
  <2>2. V(In(Z)) = W(Z)
    BY <1>4
  <2> HIDE DEF In
  <2>3. V(In(Y)) = V(In(Z)) + V(In({y}))
    <3>1. \A x \in In(Z) \cup In({y}) : f[x] \in Int
      BY <1>1
    <3> DEFINE P == In(Z)  Q == In({y})
    <3>2. IsFiniteSet(P) /\ IsFiniteSet(Q) /\ P \cap Q = {} /\ In(Y) = P \cup Q
      BY <1>1, <2>1
    <3>3. \A x \in P \cup Q : f[x] \in Int
      BY <3>1
    <3> HIDE DEF P, Q
    <3>4. V(P \cup Q) = V(P) + V(Q)
      BY <3>2, <3>3, SumBoth
    <3> QED BY <3>2, <3>4 DEF P, Q
  <2>4. W(Y) = total[y] + W(Z)
    <3>1. IsFiniteSet(Y) /\ \A z \in Y : total[z] \in Int
      BY <1>2, FS_Subset
    <3> QED BY <3>1, SumOne
  <2>5. W(Z) \in Int
    <3>1. IsFiniteSet(Z)
      BY FS_Subset
    <3>2. \A z \in Z : total[z] \in Int
      BY <1>2
    <3> HIDE DEF Z
    <3> QED BY <3>1, <3>2, SumInt
  <2>6. V(In({y})) = total[y] /\ total[y] \in Int
    BY <1>2
  <2> HIDE DEF V, W, Z
  <2>7. V(In(Y)) = W(Y)
    BY <2>2, <2>3, <2>4, <2>5, <2>6
  <2> QED BY <2>7
<1> HIDE DEF G
<1>5. T \in G
  BY <1>3, <1>4, OneByOne
<1>6. In(T) = S
  OBVIOUS
<1> HIDE DEF In
<1> QED BY <1>5, <1>6 DEF G

-----------------------------------------------------------------------------
(* Reports.                                                                *)

\* Whatever is paid or given back is so for a reservation.
MovesNamed ==
    \A u \in Users : \A i \in 1 .. Len(ledger[u]) :
        ledger[u][i].kind \in {"payment", "refund"} => ledger[u][i].ref \in Refs

\* An entry that is added names its reservation, unless it is a deposit.
LEMMA ApplyWalletChangeNamed ==
    ASSUME TypeOK, MovesNamed, NEW u \in Users, NEW kind, NEW before, NEW delta, NEW r,
           kind \in {"payment", "refund"} => r \in Refs,
           ApplyWalletChange(u, kind, before, delta, r)
    PROVE  MovesNamed'
<1> DEFINE e == [kind |-> kind, amount |-> delta, before |-> before,
                 after |-> before + delta, ref |-> r]
<1>1. e.kind = kind /\ e.ref = r
  OBVIOUS
<1>2. ledger' = [ledger EXCEPT ![u] = Append(ledger[u], e)]
  BY DEF ApplyWalletChange
<1> HIDE DEF e
<1>3. ledger \in [Users -> Seq(Entry)]
  BY DEF TypeOK
<1>4. \A v \in Users \ {u} : ledger'[v] = ledger[v]
  BY <1>2, <1>3
<1>5. ledger'[u] = Append(ledger[u], e)
  BY <1>2, <1>3
<1>6. ASSUME NEW i \in 1 .. Len(ledger'[u]), ledger'[u][i].kind \in {"payment", "refund"}
      PROVE  ledger'[u][i].ref \in Refs
  <2> PICK book \in Seq(Entry) : book = ledger[u]
    BY <1>3
  <2>1. Len(Append(book, e)) = Len(book) + 1 /\ Append(book, e)[Len(book) + 1] = e
    OBVIOUS
  <2>2. CASE i = Len(book) + 1
    BY <1>1, <1>5, <1>6, <2>1, <2>2
  <2>3. CASE i # Len(book) + 1
    <3>1. i \in 1 .. Len(book)
      BY <1>5, <2>1, <2>3
    <3>2. Append(book, e)[i] = book[i]
      BY <3>1
    <3> QED BY <1>5, <1>6, <3>1, <3>2 DEF MovesNamed
  <2> QED BY <2>2, <2>3
<1>7. ASSUME NEW v \in Users \ {u}, NEW i \in 1 .. Len(ledger'[v]),
             ledger'[v][i].kind \in {"payment", "refund"}
      PROVE  ledger'[v][i].ref \in Refs
  BY <1>4, <1>7 DEF MovesNamed
<1> QED BY <1>6, <1>7 DEF MovesNamed

\* A ledger nobody writes to stays so.
LEMMA MovesNamedKept == ASSUME MovesNamed, UNCHANGED moneyVars PROVE MovesNamed'
  BY DEF MovesNamed, moneyVars

\* The first entry of a ledger is a deposit.
LEMMA InitMovesNamed == Init => MovesNamed
<1> SUFFICES ASSUME Init, NEW u \in Users, NEW i \in 1 .. Len(ledger[u])
             PROVE  ledger[u][i].kind = "charge"
  BY DEF MovesNamed
<1> DEFINE first == [kind |-> "charge", amount |-> InitialBalance, before |-> 0,
                     after |-> InitialBalance, ref |-> None]
<1>1. ledger[u] = <<first>>
  BY DEF Init
<1>2. first.kind = "charge"
  OBVIOUS
<1> HIDE DEF first
<1>3. Len(<<first>>) = 1 /\ <<first>>[1] = first
  OBVIOUS
<1> QED BY <1>1, <1>2, <1>3

\* Every action names the reservation it moves money for.
LEMMA NextMovesNamed == Inv /\ MovesNamed /\ [Next]_vars => MovesNamed'
<1> SUFFICES ASSUME Inv, MovesNamed, [Next]_vars PROVE MovesNamed'
  OBVIOUS
<1>1. TypeOK BY DEF Inv
<1>2. ASSUME NEW w \in Workers, CommitPayment(w)
      PROVE  MovesNamed'
  <2>1. PaymentReads(w)
    BY <1>1, <1>2 DEF Inv, ReadsStayTrue, TxnOK, CommitPayment, Doing, NoTxn, Releasing
  <2>2. txn[w].ref \in Refs /\ txn[w].user \in Users
    BY <1>1, <2>1 DEF PaymentReads, TypeOK, Reservation, Absent
  <2>3. ApplyWalletChange(txn[w].user, "payment", txn[w].balance, - txn[w].amount, txn[w].ref)
    BY <1>2 DEF CommitPayment
  <2> QED BY <1>1, <2>2, <2>3, ApplyWalletChangeNamed
<1>3. ASSUME NEW w \in Workers, CommitRelease(w)
      PROVE  MovesNamed'
  <2>1. ReleaseReads(w)
    <3>1. TxnOK(w) /\ txn[w].op \in Releasing /\ txn[w].pc = "release"
      BY <1>3 DEF Inv, ReadsStayTrue, CommitRelease
    <3> QED BY <1>1, <3>1 DEF TxnOK, NoTxn, Releasing, TypeOK
  <2>2. CASE txn[w].amount > 0
    <3>1. txn[w].ref \in Refs /\ res[txn[w].ref].user \in Users
      BY <1>1, <2>1, <2>2 DEF ReleaseReads, IsActive, TypeOK, Reservation, Absent
    <3>2. ApplyWalletChange(res[txn[w].ref].user, "refund", txn[w].balance, txn[w].amount,
                            txn[w].ref)
      BY <1>3, <2>2 DEF CommitRelease
    <3> QED BY <1>1, <3>1, <3>2, ApplyWalletChangeNamed
  <2>3. CASE ~(txn[w].amount > 0)
    BY <1>3, <2>3, MovesNamedKept DEF CommitRelease
  <2> QED BY <2>2, <2>3
<1>4. ASSUME NEW w \in Workers, CommitTopUp(w)
      PROVE  MovesNamed'
  <2>1. DepositReads(w)
    BY <1>1, <1>4 DEF Inv, ReadsStayTrue, TxnOK, CommitTopUp, Doing, NoTxn, Releasing
  <2>2. txn[w].user \in Users
    BY <2>1 DEF DepositReads
  <2>3. ApplyWalletChange(txn[w].user, "charge", txn[w].balance, txn[w].amount, None)
    BY <1>4 DEF CommitTopUp
  <2> QED BY <1>1, <2>2, <2>3, ApplyWalletChangeNamed
<1>5. ASSUME NEW w \in Workers, Continue(w)
      PROVE  MovesNamed'
  BY <1>2, <1>3, <1>4, <1>5, MoneyKept, MovesNamedKept DEF Continue
<1>6. ASSUME NEW w \in Workers,
             \/ Request(w) \/ ListOverdue(w) \/ ListExpiring(w) \/ ActivateFlights(w)
             \/ SweepFails(w) \/ Crash(w)
      PROVE  MovesNamed'
  BY <1>6, MoneyKept, MovesNamedKept
<1>7. CASE Tick \/ Quiet \/ UNCHANGED vars
  BY <1>7, MovesNamedKept DEF Tick, Quiet, vars, db
<1> QED BY <1>5, <1>6, <1>7 DEF Next

\* The columns a report adds up.
LEMMA ColumnTypes ==
    ASSUME TypeOK, NEW R \in SUBSET Refs
    PROVE  /\ IsFiniteSet(R) /\ IsFiniteSet(Paid(R)) /\ Paid(R) \in SUBSET R
           /\ \A r \in R : Prices[r] \in Int /\ Refunds[r] \in Int
<1>1. IsFiniteSet(R) /\ IsFiniteSet(Paid(R)) /\ Paid(R) \in SUBSET R
  BY KeysAssumption, FS_Subset DEF Paid
<1>2. \A r \in R : res[r].price \in Int /\ res[r].refund \in Int
  BY DEF TypeOK, Reservation, Absent
<1>3. \A r \in R : Prices[r] = res[r].price /\ Refunds[r] = res[r].refund
  BY DEF Prices, Refunds
<1> QED BY <1>1, <1>2, <1>3

\* Gain and loss of a reservation, once it is paid.
Kept == [r \in Refs |-> res[r].price - res[r].refund]
GivenBack == [r \in Refs |-> res[r].refund - res[r].price]

\* The net of a set of reservations, as one sum instead of two.
LEMMA NetIs ==
    ASSUME TypeOK, NEW R \in SUBSET Refs
    PROVE  /\ Net(R) = SumFunctionOnSet(Kept, Paid(R))
           /\ Net(R) = - SumFunctionOnSet(GivenBack, Paid(R))
           /\ Net(R) \in Int
<1>1. IsFiniteSet(Paid(R)) /\ \A r \in Paid(R) : Prices[r] \in Int /\ Refunds[r] \in Int
  BY ColumnTypes
<1>2. \A r \in Paid(R) : /\ Kept[r] = Prices[r] - Refunds[r]
                         /\ GivenBack[r] = Refunds[r] - Prices[r]
  BY DEF Kept, GivenBack, Prices, Refunds, Paid
<1>3. Gross(R) \in Int /\ Refunded(R) \in Int
  BY <1>1, SumInt DEF Gross, Refunded
<1>4. SumFunctionOnSet(Kept, Paid(R)) = Gross(R) - Refunded(R)
  BY <1>1, <1>2, SumMinus DEF Gross, Refunded
<1>5. SumFunctionOnSet(GivenBack, Paid(R)) = Refunded(R) - Gross(R)
  BY <1>1, <1>2, SumMinus DEF Gross, Refunded
<1> QED BY <1>3, <1>4, <1>5 DEF Net

\* The entries of a reservation.
MovesOf(r) == {e \in Moves : e.entry.ref = r}

\* They are the payments and the refunds of it, which differ.
LEMMA MovesAre ==
    ASSUME TypeOK, NEW r \in Refs
    PROVE  /\ MovesOf(r) = EntriesFor(r, "payment") \cup EntriesFor(r, "refund")
           /\ EntriesFor(r, "payment") \cap EntriesFor(r, "refund") = {}
<1>1. \A kind : \A e : e \in EntriesFor(r, kind) <=>
        \E u \in Users : \E i \in 1 .. Len(ledger[u]) :
            /\ ledger[u][i].kind = kind /\ ledger[u][i].ref = r
            /\ e = [user |-> u, entry |-> ledger[u][i], at |-> i]
  BY DEF EntriesFor
<1>2. \A e : e \in Moves <=>
        \E u \in Users : \E i \in 1 .. Len(ledger[u]) :
            /\ ledger[u][i].kind \in {"payment", "refund"}
            /\ e = [user |-> u, entry |-> ledger[u][i], at |-> i]
  BY DEF Moves
<1>3. ASSUME NEW e \in MovesOf(r)
      PROVE  e \in EntriesFor(r, "payment") \cup EntriesFor(r, "refund")
  <2> PICK u \in Users : \E i \in 1 .. Len(ledger[u]) :
        /\ ledger[u][i].kind \in {"payment", "refund"}
        /\ e = [user |-> u, entry |-> ledger[u][i], at |-> i]
    BY <1>2, <1>3 DEF MovesOf
  <2> PICK i \in 1 .. Len(ledger[u]) :
        /\ ledger[u][i].kind \in {"payment", "refund"}
        /\ e = [user |-> u, entry |-> ledger[u][i], at |-> i]
    OBVIOUS
  <2>1. ledger[u][i].ref = r
    BY <1>3 DEF MovesOf
  <2> QED BY <1>1, <2>1
<1>4. ASSUME NEW kind \in {"payment", "refund"}, NEW e \in EntriesFor(r, kind)
      PROVE  e \in MovesOf(r) /\ e.entry.kind = kind
  <2> PICK u \in Users : \E i \in 1 .. Len(ledger[u]) :
        /\ ledger[u][i].kind = kind /\ ledger[u][i].ref = r
        /\ e = [user |-> u, entry |-> ledger[u][i], at |-> i]
    BY <1>1, <1>4
  <2> PICK i \in 1 .. Len(ledger[u]) :
        /\ ledger[u][i].kind = kind /\ ledger[u][i].ref = r
        /\ e = [user |-> u, entry |-> ledger[u][i], at |-> i]
    OBVIOUS
  <2>1. e.entry.ref = r /\ e.entry.kind = kind
    OBVIOUS
  <2>2. e \in Moves
    BY <1>2
  <2> QED BY <2>1, <2>2 DEF MovesOf
<1>5. \A e \in EntriesFor(r, "payment") : e.entry.kind = "payment"
  BY <1>4
<1>6. \A e \in EntriesFor(r, "refund") : e.entry.kind = "refund"
  BY <1>4
<1>7. EntriesFor(r, "payment") \cap EntriesFor(r, "refund") = {}
  BY <1>5, <1>6
<1> QED BY <1>3, <1>4, <1>7

Amounts == [e \in Moves |-> e.entry.amount]

\* The ledger says of a reservation what its columns say.
LEMMA MovesSum ==
    ASSUME TypeOK, MoneyInv, NEW r \in Refs
    PROVE  /\ IsFiniteSet(MovesOf(r))
           /\ \A e \in MovesOf(r) : Amounts[e] \in Int
           /\ IF r \in Paid(Booked) THEN SumFunctionOnSet(Amounts, MovesOf(r)) = GivenBack[r]
              ELSE MovesOf(r) = {}
<1> DEFINE P == EntriesFor(r, "payment")
           Q == EntriesFor(r, "refund")
           V(X) == SumFunctionOnSet(Amounts, X)
           Worth(X, n) == /\ IsFiniteSet(X) /\ (\A e \in X : Amounts[e] \in Int) /\ V(X) = n
<1>1. MovesOf(r) = P \cup Q /\ P \cap Q = {}
  BY MovesAre
<1>2. ColumnsAgree(r) /\ Charged(r) /\ Repaid(r)
  BY DEF MoneyInv
<1>3. res[r].price \in Int /\ res[r].refund \in Int
  BY DEF TypeOK, Reservation, Absent
<1>4. \A e \in MovesOf(r) : Amounts[e] = e.entry.amount
  BY DEF MovesOf, Amounts
<1>5. Worth({}, 0)
  BY SumNone, FS_EmptySet
<1>6. ASSUME NEW x \in MovesOf(r), NEW n \in Int, x.entry.amount = n
      PROVE  Worth({x}, n)
  <2>1. Amounts[x] = n
    BY <1>4, <1>6
  <2>2. IsFiniteSet({x}) /\ x \in {x} /\ {x} \ {x} = {} /\ \A e \in {x} : Amounts[e] \in Int
    BY <2>1, FS_Singleton
  <2>3. V({x}) = Amounts[x] + V({x} \ {x})
    BY <2>2, SumOne
  <2>4. V({x} \ {x}) = 0
    BY <2>2, SumNone
  <2>5. V({x}) = n
    BY <2>1, <2>3, <2>4
  <2> QED BY <2>2, <2>5
<1>7. ASSUME NEW X, NEW Y, NEW m \in Int, NEW n \in Int, Worth(X, m), Worth(Y, n), X \cap Y = {}
      PROVE  Worth(X \cup Y, m + n)
  <2>1. IsFiniteSet(X \cup Y) /\ \A e \in X \cup Y : Amounts[e] \in Int
    BY <1>7, FS_Union
  <2>2. V(X \cup Y) = V(X) + V(Y)
    BY <1>7, <2>1, SumBoth
  <2> QED BY <1>7, <2>1, <2>2
<1>8. r \in Paid(Booked) <=> res[r].settledAt # NotPaid
  BY <1>2 DEF Paid, Booked, ColumnsAgree
<1> HIDE DEF P, Q, Worth
<1>9. CASE res[r].settledAt = NotPaid
  <2>1. P = {} /\ res[r].refund = 0
    BY <1>2, <1>9 DEF Charged, Accounts, P, ColumnsAgree, TypeOK, Reservation, Absent
  <2>2. Q = {}
    BY <1>2, <2>1 DEF Repaid, Accounts, Q
  <2>3. MovesOf(r) = {}
    BY <1>1, <2>1, <2>2
  <2> QED BY <1>5, <1>8, <1>9, <2>3 DEF Worth
<1>10. CASE res[r].settledAt # NotPaid
  <2>1. Worth(P, - res[r].price)
    <3> PICK x : P = {x} /\ x.entry.amount = - res[r].price
      BY <1>2, <1>10 DEF Charged, Accounts, P
    <3>1. x \in MovesOf(r) /\ - res[r].price \in Int
      BY <1>1, <1>3
    <3> QED BY <1>6, <3>1
  <2>2. Worth(Q, res[r].refund)
    <3>1. CASE res[r].refund = 0
      <4>1. Q = {}
        BY <1>2, <3>1 DEF Repaid, Accounts, Q
      <4> QED BY <1>5, <3>1, <4>1
    <3>2. CASE res[r].refund # 0
      <4> PICK x : Q = {x} /\ x.entry.amount = res[r].refund
        BY <1>2, <3>2 DEF Repaid, Accounts, Q
      <4>1. x \in MovesOf(r)
        BY <1>1
      <4> QED BY <1>3, <1>6, <4>1
    <3> QED BY <3>1, <3>2
  <2>3. Worth(MovesOf(r), - res[r].price + res[r].refund)
    <3>1. - res[r].price \in Int
      BY <1>3
    <3>2. Worth(P \cup Q, - res[r].price + res[r].refund)
      BY <1>1, <1>3, <1>7, <2>1, <2>2, <3>1
    <3> QED BY <1>1, <3>2
  <2>4. GivenBack[r] = - res[r].price + res[r].refund
    BY <1>3 DEF GivenBack
  <2> QED BY <1>8, <1>10, <2>3, <2>4 DEF Worth
<1> QED BY <1>9, <1>10

\* What the reports call revenue is what left the wallets.
LEMMA NetIsLedger ==
    ASSUME TypeOK, MoneyInv, MovesNamed
    PROVE  Net(Booked) = - LedgerSum
<1> DEFINE T == Paid(Booked)
           k == [e \in Moves |-> e.entry.ref]
<1>1. Booked \in SUBSET Refs
  BY DEF Booked
<1>2. IsFiniteSet(T) /\ T \in SUBSET Refs
  BY <1>1, ColumnTypes
<1>3. \A e \in Moves : e.entry.ref \in Refs /\ e \in MovesOf(e.entry.ref)
  BY DEF Moves, MovesNamed, MovesOf
<1>4. \A e \in Moves : k[e] \in T /\ k[e] = e.entry.ref /\ Amounts[e] \in Int
  BY <1>3, MovesSum
<1>5. IsFiniteSet(Moves)
  <2> DEFINE each == [r \in T |-> MovesOf(r)]
             parts == {MovesOf(r) : r \in T}
  <2>1. each \in Surjection(T, parts)
    BY DEF Surjection
  <2>2. IsFiniteSet(parts)
    <3> HIDE DEF each, parts
    <3> QED BY <1>2, <2>1, FS_Surjection
  <2>3. \A X \in parts : IsFiniteSet(X)
    BY <1>2, MovesSum
  <2>4. IsFiniteSet(UNION parts)
    <3> HIDE DEF parts
    <3> QED BY <2>2, <2>3, FS_UNION
  <2>5. Moves = UNION parts
    BY <1>3, <1>4 DEF MovesOf
  <2> QED BY <2>4, <2>5
<1>6. \A r \in T : GivenBack[r] = SumFunctionOnSet(Amounts, PartOf(Moves, k, r))
  <2> SUFFICES ASSUME NEW r \in T
               PROVE  GivenBack[r] = SumFunctionOnSet(Amounts, PartOf(Moves, k, r))
    OBVIOUS
  <2>1. PartOf(Moves, k, r) = MovesOf(r)
    BY DEF MovesOf, PartOf
  <2>2. GivenBack[r] = SumFunctionOnSet(Amounts, MovesOf(r))
    BY <1>2, MovesSum
  <2> QED BY <2>1, <2>2
<1> HIDE DEF T, k
<1>7. SumFunctionOnSet(Amounts, Moves) = SumFunctionOnSet(GivenBack, T)
  <2>1. \A e \in Moves : Amounts[e] \in Int
    BY <1>4
  <2>2. \A e \in Moves : k[e] \in T
    BY <1>4
  <2>3. IsFiniteSet(T)
    BY <1>2
  <2> QED BY <1>5, <1>6, <2>1, <2>2, <2>3, SumByParts
<1>8. Net(Booked) = - SumFunctionOnSet(GivenBack, T)
  BY <1>1, NetIs DEF T
<1> QED BY <1>7, <1>8 DEF LedgerSum, Amounts

\* The flights' reports add up to that of the airline.
LEMMA NetByFlight ==
    ASSUME TypeOK
    PROVE  Net(Booked) = SumFunctionOnSet([f \in Flights |-> Net(OfFlight(f))], Flights)
<1> DEFINE S == Paid(Booked)
           k == [r \in Refs |-> FlightFor(r)]
           total == [f \in Flights |-> Net(OfFlight(f))]
<1>1. Booked \in SUBSET Refs
  BY DEF Booked
<1>2. IsFiniteSet(S) /\ S \in SUBSET Booked
  BY <1>1, ColumnTypes
<1>3. \A r \in S : Kept[r] \in Int
  <2>1. \A r \in Refs : res[r].price \in Int /\ res[r].refund \in Int
    BY DEF TypeOK, Reservation, Absent
  <2> QED BY <1>1, <1>2, <2>1 DEF Kept
<1>4. \A r \in S : k[r] \in Flights
  <2>1. \A r \in Booked : res[r].class \in Classes
    BY DEF Booked, TypeOK, Reservation, Absent
  <2>2. \A r \in Booked : FlightFor(r) \in Flights
    BY <2>1, ShapeAssumption DEF FlightFor
  <2> QED BY <1>1, <1>2, <2>2
<1>5. \A f \in Flights : total[f] = SumFunctionOnSet(Kept, PartOf(S, k, f))
  <2> SUFFICES ASSUME NEW f \in Flights
               PROVE  total[f] = SumFunctionOnSet(Kept, PartOf(S, k, f))
    OBVIOUS
  <2>1. PartOf(S, k, f) = Paid(OfFlight(f))
    BY <1>1 DEF PartOf, Paid, OfFlight
  <2>2. OfFlight(f) \in SUBSET Refs
    BY <1>1 DEF OfFlight
  <2>3. Net(OfFlight(f)) = SumFunctionOnSet(Kept, Paid(OfFlight(f)))
    BY <2>2, NetIs
  <2> QED BY <2>1, <2>3
<1>6. Net(Booked) = SumFunctionOnSet(Kept, S)
  BY <1>1, NetIs
<1> HIDE DEF S, k, total
<1>7. SumFunctionOnSet(Kept, S) = SumFunctionOnSet(total, Flights)
  BY <1>2, <1>3, <1>4, <1>5, FlightsAssumption, SumByParts
<1> QED BY <1>6, <1>7 DEF total

\* The cancel box promises what the airline still has of those who fly.
LEMMA NetIsRefundable ==
    ASSUME TypeOK, MoneyInv, NEW f \in Flights
    PROVE  Net(OfFlight(f)) =
             Refundable(f) + Net({r \in OfFlight(f) : res[r].status = "cancelled"})
<1> DEFINE A == {r \in OfFlight(f) : res[r].status = "reserved"}
           C == {r \in OfFlight(f) : res[r].status = "cancelled"}
<1>1. /\ OfFlight(f) \in SUBSET Refs /\ C \in SUBSET Refs /\ A \in SUBSET Refs
  BY DEF OfFlight, Booked
<1>2. \A r \in OfFlight(f) : ColumnsAgree(r)
  BY <1>1 DEF MoneyInv
<1>3. \A r \in OfFlight(f) : res[r].status \in {"pending", "reserved", "cancelled"}
  BY DEF OfFlight, Booked, TypeOK, Reservation, Absent
<1>4. Paid(OfFlight(f)) = A \cup Paid(C) /\ A \cap Paid(C) = {}
  BY <1>2, <1>3 DEF Paid, ColumnsAgree
<1>5. /\ IsFiniteSet(A) /\ IsFiniteSet(Paid(C)) /\ Paid(C) \in SUBSET Refs
      /\ \A r \in A : Prices[r] \in Int
  BY <1>1, ColumnTypes
<1>6. \A r \in Refs : Kept[r] \in Int
  <2>1. \A r \in Refs : res[r].price \in Int /\ res[r].refund \in Int
    BY DEF TypeOK, Reservation, Absent
  <2> QED BY <2>1 DEF Kept
<1>7. \A r \in A : Kept[r] = Prices[r]
  <2> SUFFICES ASSUME NEW r \in A PROVE Kept[r] = Prices[r]
    OBVIOUS
  <2>1. r \in Refs /\ res[r].refund = 0
    BY <1>1, <1>2 DEF ColumnsAgree
  <2>2. Kept[r] = res[r].price - res[r].refund /\ Prices[r] = res[r].price
    BY <2>1 DEF Kept, Prices
  <2> QED BY <1>5, <2>1, <2>2
<1>8. SumFunctionOnSet(Kept, A) = Refundable(f)
  <2>1. SumFunctionOnSet(Kept, A) = SumFunctionOnSet(Prices, A)
    <3> HIDE DEF A
    <3> QED BY <1>5, <1>7, SumSame
  <2> QED BY <2>1 DEF Refundable
<1>9. /\ Net(OfFlight(f)) = SumFunctionOnSet(Kept, Paid(OfFlight(f)))
      /\ Net(C) = SumFunctionOnSet(Kept, Paid(C))
  <2> HIDE DEF C
  <2> QED BY <1>1, NetIs
<1> DEFINE B == Paid(C)
<1>10. SumFunctionOnSet(Kept, A \cup B) = SumFunctionOnSet(Kept, A) + SumFunctionOnSet(Kept, B)
  <2>1. \A r \in A \cup B : Kept[r] \in Int
    BY <1>1, <1>5, <1>6
  <2>2. IsFiniteSet(A) /\ IsFiniteSet(B) /\ A \cap B = {}
    BY <1>4, <1>5
  <2> HIDE DEF A, B
  <2> QED BY <2>1, <2>2, SumBoth
<1> QED BY <1>4, <1>8, <1>9, <1>10

\* A reservation is under one tab, but under none while it is overdue.
LEMMA OneTab ==
    ASSUME TypeOK, MoneyInv, NEW r \in Booked
    PROVE  Cardinality({i \in DOMAIN ReservationTabs : r \in ReservationTabs[i]})
             = IF Overdue(r) THEN 0 ELSE 1
<1> DEFINE tabs == {i \in DOMAIN ReservationTabs : r \in ReservationTabs[i]}
<1>1. r \in Refs /\ ColumnsAgree(r) /\ res[r].status \in {"pending", "reserved", "cancelled"}
  BY DEF Booked, MoneyInv, TypeOK, Reservation, Absent
<1>2. /\ DOMAIN ReservationTabs = 1 .. 4
      /\ r \in ReservationTabs[1] <=> res[r].status = "reserved"
      /\ r \in ReservationTabs[2] <=> res[r].status = "pending" /\ res[r].deadline > now
      /\ r \in ReservationTabs[3] <=> res[r].status = "cancelled" /\ res[r].settledAt = NotPaid
      /\ r \in ReservationTabs[4] <=> res[r].status = "cancelled" /\ res[r].settledAt # NotPaid
  BY DEF ReservationTabs, LivePending
<1>3. tabs = {i \in {1, 2, 3, 4} : r \in ReservationTabs[i]}
  <2>1. 1 .. 4 = {1, 2, 3, 4}
    OBVIOUS
  <2> QED BY <1>2, <2>1
<1>4. now \in Nat /\ res[r].deadline \in Nat
  BY <1>1 DEF TypeOK, Reservation, Absent
<1> HIDE DEF tabs
<1>5. CASE Overdue(r)
  <2>1. tabs = {}
    BY <1>2, <1>3, <1>4, <1>5 DEF Overdue
  <2> QED BY <1>5, <2>1, FS_EmptySet DEF tabs
<1>6. CASE ~ Overdue(r)
  <2>1. \E i : tabs = {i}
    <3>1. CASE res[r].status = "reserved"
      <4>1. tabs = {1}
        BY <1>2, <1>3, <3>1
      <4> QED BY <4>1
    <3>2. CASE res[r].status = "pending"
      <4>1. tabs = {2}
        BY <1>2, <1>3, <1>4, <1>6, <3>2 DEF Overdue
      <4> QED BY <4>1
    <3>3. CASE res[r].status = "cancelled" /\ res[r].settledAt = NotPaid
      <4>1. tabs = {3}
        BY <1>2, <1>3, <3>3
      <4> QED BY <4>1
    <3>4. CASE res[r].status = "cancelled" /\ res[r].settledAt # NotPaid
      <4>1. tabs = {4}
        BY <1>2, <1>3, <3>4
      <4> QED BY <4>1
    <3> QED BY <1>1, <3>1, <3>2, <3>3, <3>4
  <2> QED BY <1>6, <2>1, FS_Singleton DEF tabs
<1> QED BY <1>5, <1>6

\* The manager's pages show the money that left the users' wallets, by flight and
\* in total, whenever they are built, and each reservation under one tab.
THEOREM ReportsAddUp == Spec => []ReportsAreTrue
<1>1. TypeOK /\ MoneyInv /\ MovesNamed => ReportsAreTrue
  BY NetIsLedger, NetByFlight, NetIsRefundable, OneTab DEF ReportsAreTrue
<1>2. Inv => TypeOK
  BY DEF Inv
<1>3. Spec => []MovesNamed
  BY InitMovesNamed, NextMovesNamed, Invariance, PTL DEF Spec
<1> QED BY <1>1, <1>2, <1>3, Invariance, MoneyInvariance, PTL

=============================================================================
