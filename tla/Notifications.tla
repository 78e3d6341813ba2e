---------------------------- MODULE Notifications ----------------------------
(***************************************************************************)
(* Notifications from the event they report to their deletion: notify and  *)
(* its callers in tickets/services.py and accounts/views.py, reading, and  *)
(* the housekeeping of notifications/services.py.                          *)
(*                                                                         *)
(* An event is what a dedupe key names ("paid:REF").  Most events report   *)
(* themselves inside their own transaction, under the row lock of their    *)
(* reservation; a top-up reports itself after its commit; a reservation    *)
(* that is about to expire is reported by a command that comes round again *)
(* and again, maybe in two processes at once, and relies on the key alone. *)
(***************************************************************************)
EXTENDS Integers, FiniteSets

CONSTANTS
    Users, Workers,
    InTxn,         \* events reported in their own transaction
    AfterCommit,   \* events reported once their transaction has committed
    Warnings,      \* "this reservation expires soon"
    Owner,         \* of an event: the user it is told to
    Deadline,      \* payment_expires_at of a reservation that is warned about
    WarnWindow,    \* EXPIRY_WARNING_MINUTES
    KeepRead,      \* delete_read_older_than(days)
    Patience,      \* bound: a run of the warning command is over after that time
    MaxTime,       \* bound: the clock
    None

Events == InTxn \cup AfterCommit \cup Warnings

ASSUME EventsAssumption ==
    /\ InTxn \cap AfterCommit = {} /\ InTxn \cap Warnings = {} /\ AfterCommit \cap Warnings = {}
    /\ None \notin Events
    /\ Owner \in [Events -> Users] /\ Deadline \in [Warnings -> Nat]

\* A read notification outlives the time in which its event can be reported again.
ASSUME TimesAssumption ==
    /\ WarnWindow \in Nat /\ Patience \in Nat /\ MaxTime \in Nat
    /\ KeepRead \in Nat /\ KeepRead >= WarnWindow + Patience

VARIABLES
    now,      \* timezone.now()
    happened, \* events that have committed
    failed,   \* events whose INSERT failed; notify has only logged it
    inbox,    \* the Notification row of an event: read_at
    told,     \* history: how many notifications of an event were ever committed
    work      \* what a worker is doing

vars == <<now, happened, failed, inbox, told, work>>

-----------------------------------------------------------------------------

Missing == [row |-> "none", at |-> 0]
Unread == [row |-> "unread", at |-> 0]
ReadAt(time) == [row |-> "read", at |-> time]

Idle == [doing |-> "idle", event |-> None, outcome |-> "none", todo |-> {}, since |-> 0]

Work == [doing : {"idle", "report", "commit", "tell", "warn"}, event : Events \cup {None},
         outcome : {"none", "written", "known", "failed"}, todo : SUBSET Warnings, since : Nat]

Do(w, job) == work' = [work EXCEPT ![w] = job]

\* The INSERT of a key the user has not got yet can fail for another reason; the
\* savepoint confines both kinds of error, so the caller always goes on.
Outcomes(e) == IF inbox[e] = Missing THEN {"written", "failed"} ELSE {"known"}

\* The INSERT becomes visible, with the commit of the transaction it is part of.
Committed(e, outcome) ==
    /\ inbox' = IF outcome = "written" THEN [inbox EXCEPT ![e] = Unread] ELSE inbox
    /\ told' = IF outcome = "written" THEN [told EXCEPT ![e] = @ + 1] ELSE told
    /\ failed' = IF outcome = "failed" THEN failed \cup {e} ELSE failed

-----------------------------------------------------------------------------
(* Events that report themselves (pay_reservation, cancel_reservation,     *)
(* expire_reservation, _cancel_reservation_for_cancelled_flight).          *)

\* The row lock of the reservation: one worker at a time, and once.
Begin(w, e) ==
    /\ work[w] = Idle
    /\ e \in InTxn \ happened
    /\ \A v \in Workers : work[v].event # e
    /\ Do(w, [Idle EXCEPT !.doing = "report", !.event = e])
    /\ UNCHANGED <<now, happened, failed, inbox, told>>

Notify(w) ==
    /\ work[w].doing = "report"
    /\ \E outcome \in Outcomes(work[w].event) :
         Do(w, [work[w] EXCEPT !.doing = "commit", !.outcome = outcome])
    /\ UNCHANGED <<now, happened, failed, inbox, told>>

Commit(w) ==
    LET j == work[w] IN
    /\ j.doing = "commit"
    /\ happened' = happened \cup {j.event}
    /\ Committed(j.event, j.outcome)
    /\ Do(w, Idle)
    /\ UNCHANGED now

-----------------------------------------------------------------------------
(* DepositView.form_valid: the key names the ledger entry, which is new.   *)

TopUp(w, e) ==
    /\ work[w] = Idle
    /\ e \in AfterCommit \ happened
    /\ happened' = happened \cup {e}
    /\ Do(w, [Idle EXCEPT !.doing = "tell", !.event = e])
    /\ UNCHANGED <<now, failed, inbox, told>>

TellTopUp(w) ==
    LET e == work[w].event IN
    /\ work[w].doing = "tell"
    /\ \E outcome \in Outcomes(e) : Committed(e, outcome)
    /\ Do(w, Idle)
    /\ UNCHANGED <<now, happened>>

-----------------------------------------------------------------------------
(* warn_expiring_reservations: every notification commits by itself.       *)

ExpiringSoon == {e \in Warnings : Deadline[e] > now /\ Deadline[e] <= now + WarnWindow}

\* Which of them are still unpaid is up to the booking core.
ListExpiring(w) ==
    /\ work[w] = Idle
    /\ \E pending \in (SUBSET ExpiringSoon) \ {{}} :
         Do(w, [Idle EXCEPT !.doing = "warn", !.todo = pending, !.since = now])
    /\ UNCHANGED <<now, happened, failed, inbox, told>>

\* Fault: the loop does not notice that it has come to its end.
LeftUnended(j, e) == [j EXCEPT !.todo = @ \ {e}]

Left(j, e) == IF j.todo = {e} THEN Idle ELSE [j EXCEPT !.todo = @ \ {e}]

Warn(w) ==
    /\ work[w].doing = "warn"
    /\ \E e \in work[w].todo :
         /\ \E outcome \in Outcomes(e) : Committed(e, outcome)
         /\ Do(w, Left(work[w], e))
    /\ UNCHANGED <<now, happened>>

-----------------------------------------------------------------------------

\* Fault: the notification is written outside the transaction and survives it.
GiveUpKeepsRow(w) ==
    /\ work[w] # Idle
    /\ IF work[w].outcome = "written" THEN Committed(work[w].event, "written")
       ELSE UNCHANGED <<inbox, told, failed>>
    /\ Do(w, Idle)
    /\ UNCHANGED <<now, happened>>

\* An exception or the end of the process: an open transaction is rolled back,
\* and its notification with it; what was to be told after a commit is not told.
GiveUp(w) ==
    /\ work[w] # Idle
    /\ Do(w, Idle)
    /\ UNCHANGED <<now, happened, failed, inbox, told>>

-----------------------------------------------------------------------------
(* The user reads; the housekeeping deletes.                               *)

\* Fault: a notification that was read before is read again.
MarkAll(E) ==
    inbox' = [e \in Events |-> IF e \in E /\ inbox[e] # Missing THEN ReadAt(now) ELSE inbox[e]]

\* One UPDATE of the rows that are unread.
Mark(E) ==
    inbox' = [e \in Events |-> IF e \in E /\ inbox[e] = Unread THEN ReadAt(now) ELSE inbox[e]]

\* mark_read, by the button or by opening the notification.
MarkRead(u, e) ==
    /\ Owner[e] = u /\ inbox[e] # Missing
    /\ Mark({e})
    /\ UNCHANGED <<now, happened, failed, told, work>>

MarkAllRead(u) ==
    /\ Mark({e \in Events : Owner[e] = u})
    /\ UNCHANGED <<now, happened, failed, told, work>>

\* Fault: the age is not looked at.
ReadAtAll == {e \in Events : inbox[e].row = "read"}

ReadLongAgo == {e \in Events : inbox[e].row = "read" /\ inbox[e].at < now - KeepRead}

DeleteReadOlderThan ==
    /\ ReadLongAgo # {}
    /\ inbox' = [e \in Events |-> IF e \in ReadLongAgo THEN Missing ELSE inbox[e]]
    /\ UNCHANGED <<now, happened, failed, told, work>>

Tick ==
    /\ now < MaxTime
    /\ \A w \in Workers : work[w].doing = "warn" => now < work[w].since + Patience
    /\ now' = now + 1
    /\ UNCHANGED <<happened, failed, inbox, told, work>>

Init ==
    /\ now = 0 /\ happened = {} /\ failed = {}
    /\ inbox = [e \in Events |-> Missing]
    /\ told = [e \in Events |-> 0]
    /\ work = [w \in Workers |-> Idle]

Next ==
    \/ \E w \in Workers :
         \/ \E e \in Events : Begin(w, e) \/ TopUp(w, e)
         \/ Notify(w) \/ Commit(w) \/ TellTopUp(w)
         \/ ListExpiring(w) \/ Warn(w) \/ GiveUp(w)
    \/ \E u \in Users : MarkAllRead(u) \/ \E e \in Events : MarkRead(u, e)
    \/ DeleteReadOlderThan
    \/ Tick

Spec == Init /\ [][Next]_vars

-----------------------------------------------------------------------------

\* Type invariant: what the columns hold, no read time in the future, and
\* workers that know what they are doing.
NotificationsTypeOK ==
    /\ now \in Nat /\ happened \subseteq Events /\ failed \subseteq Events
    /\ inbox \in [Events -> {Missing, Unread} \cup {ReadAt(time) : time \in 0 .. now}]
    /\ told \in [Events -> Nat]
    /\ work \in [Workers -> Work]
    /\ \A w \in Workers :
         /\ work[w].doing = "idle" => work[w] = Idle
         /\ work[w].doing \in {"report", "commit"} => work[w].event \in InTxn
         /\ work[w].doing = "tell" => work[w].event \in AfterCommit
         /\ work[w].doing = "warn" => work[w].event = None /\ work[w].todo # {}

\* models.py: "the same event can never notify the same user twice, even if the
\* code that reports it runs again", although the housekeeping deletes the row
\* whose key prevents it: by then nobody reports the event any more.
ToldAtMostOnce == \A e \in Events : told[e] <= 1

\* README: "a rolled-back payment never leaves a notification behind and a
\* committed one never loses it", unless the INSERT itself failed; a top-up is
\* never told before it has happened.
ToldIffCommitted ==
    /\ \A e \in InTxn : told[e] = IF e \in happened \ failed THEN 1 ELSE 0
    /\ \A e \in AfterCommit : told[e] > 0 => e \in happened

\* An unread notification is never deleted, and the time at which one was first
\* read never changes until the housekeeping takes it, however often and from
\* however many pages it is opened (mark_read, mark_all_read, delete_read_older_than).
ReadingIsFinal ==
    [][\A e \in Events :
         /\ inbox[e] = Unread => inbox'[e] \in {Unread, ReadAt(now)}
         /\ inbox[e].row = "read" =>
              inbox'[e] \in {inbox[e]} \cup
                  (IF inbox[e].at < now - KeepRead THEN {Missing} ELSE {})]_vars
=============================================================================
