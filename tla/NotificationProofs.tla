-------------------------- MODULE NotificationProofs --------------------------
(***************************************************************************)
(* Each event is told at most once, exactly the committed ones are told,   *)
(* and what a user has read stays read: for any number of users, events    *)
(* and processes, and any warning window and housekeeping age that satisfy *)
(* TimesAssumption.                                                        *)
(***************************************************************************)
EXTENDS Notifications, TLAPS

\* An event other than a warning is in the hands of one worker.
Alone ==
    \A v, w \in Workers : work[v].event # None /\ work[v].event = work[w].event => v = w

\* The row of an event that was never told does not exist.
RowsWereTold == \A e \in Events : told[e] = 0 => inbox[e] = Missing

TxnEvents ==
    \A e \in InTxn : /\ told[e] = IF e \in happened \ failed THEN 1 ELSE 0
                     /\ e \in failed => e \in happened

TopUpEvents == \A e \in AfterCommit : told[e] \in {0, 1} /\ (told[e] = 1 => e \in happened)

\* A warning that was told and whose row is gone has run out with all who list it.
WarnedEvents ==
    \A e \in Warnings :
        /\ told[e] \in {0, 1}
        /\ told[e] = 1 =>
             /\ now >= Deadline[e] - WarnWindow
             /\ inbox[e].row = "read" => inbox[e].at >= Deadline[e] - WarnWindow
             /\ inbox[e] = Missing => now > Deadline[e] + Patience

JobOK(j) ==
    /\ j.doing \in {"report", "commit"} => j.event \notin happened
    /\ j.doing = "commit" => j.outcome \in {"written", "failed"}
    /\ j.doing = "tell" => j.event \in happened /\ told[j.event] = 0
    /\ j.doing = "warn" => /\ j.since <= now /\ now <= j.since + Patience
                           /\ \A e \in j.todo : /\ j.since < Deadline[e]
                                                /\ Deadline[e] <= j.since + WarnWindow

WorkersOK == \A w \in Workers : JobOK(work[w])

Inv ==
    /\ NotificationsTypeOK /\ Alone /\ RowsWereTold
    /\ TxnEvents /\ TopUpEvents /\ WarnedEvents /\ WorkersOK

-----------------------------------------------------------------------------

\* The three forms of a row are different.
LEMMA RowForms ==
    /\ Missing # Unread /\ Missing.row # "read" /\ Unread.row # "read"
    /\ \A time \in Nat : /\ ReadAt(time) # Missing /\ ReadAt(time) # Unread
                         /\ ReadAt(time).row = "read" /\ ReadAt(time).at = time
BY DEF Missing, Unread, ReadAt

\* A worker who does nothing is in order.
LEMMA IdleIsOK == JobOK(Idle) /\ Idle \in Work /\ Idle.event = None /\ Idle.doing = "idle"
BY DEF JobOK, Idle, Work

\* At the start nothing has happened and nothing is told.
LEMMA InitInv == Init => Inv
<1> SUFFICES ASSUME Init PROVE Inv OBVIOUS
<1> USE EventsAssumption, TimesAssumption DEF Init
<1>1. NotificationsTypeOK BY IdleIsOK DEF NotificationsTypeOK, Idle
<1>2. Alone BY DEF Alone, Idle
<1>3. RowsWereTold
   BY DEF RowsWereTold
<1>4. TxnEvents /\ TopUpEvents /\ WarnedEvents BY DEF TxnEvents, TopUpEvents, WarnedEvents, Events
<1>5. WorkersOK BY IdleIsOK DEF WorkersOK
<1>6. QED BY <1>1, <1>2, <1>3, <1>4, <1>5 DEF Inv

-----------------------------------------------------------------------------
(* What the two building blocks of the actions do.                         *)

\* A job has the event and the list that go with what the worker is doing.
WellFormed(j) ==
    /\ j.doing = "idle" => j = Idle
    /\ j.doing \in {"report", "commit"} => j.event \in InTxn
    /\ j.doing = "tell" => j.event \in AfterCommit
    /\ j.doing = "warn" => j.event = None /\ j.todo # {}

\* A worker that takes up a job whose event nobody else has.
LEMMA DoFacts ==
    ASSUME NotificationsTypeOK, Alone,
           NEW w \in Workers, NEW job \in Work, Do(w, job), WellFormed(job),
           \A v \in Workers : v # w /\ job.event # None => work[v].event # job.event
    PROVE  /\ work' \in [Workers -> Work]
           /\ \A v \in Workers : WellFormed(work'[v])
           /\ work'[w] = job
           /\ \A v \in Workers : v # w => work'[v] = work[v]
           /\ Alone'
<1> USE DEF NotificationsTypeOK, Do
<1>1. work' \in [Workers -> Work] OBVIOUS
<1>2. work'[w] = job /\ \A v \in Workers : v # w => work'[v] = work[v] OBVIOUS
<1>3. \A v \in Workers : WellFormed(work'[v])
   BY <1>2 DEF WellFormed
<1>4. Alone'
   BY <1>2 DEF Alone
<1>5. QED BY <1>1, <1>2, <1>3, <1>4

\* The row of an event and the count go together.
LEMMA CommittedFacts ==
    ASSUME NotificationsTypeOK,
           NEW e \in Events, NEW outcome \in {"written", "known", "failed"},
           Committed(e, outcome)
    PROVE  /\ inbox' \in [Events -> {Missing, Unread} \cup {ReadAt(time) : time \in 0 .. now}]
           /\ told' \in [Events -> Nat] /\ failed' \subseteq Events
           /\ \A d \in Events : d # e => /\ inbox'[d] = inbox[d] /\ told'[d] = told[d]
                                         /\ d \in failed' <=> d \in failed
           /\ \/ /\ outcome = "written" /\ inbox'[e] = Unread
                 /\ told'[e] = told[e] + 1 /\ failed' = failed
              \/ /\ outcome = "failed" /\ failed' = failed \cup {e}
                 /\ inbox' = inbox /\ told' = told
              \/ outcome = "known" /\ UNCHANGED <<inbox, told, failed>>
BY DEF NotificationsTypeOK, Committed

\* Reading changes rows that are unread, and only to rows read now.
LEMMA MarkFacts ==
    ASSUME NotificationsTypeOK, NEW E, Mark(E)
    PROVE  /\ inbox' \in [Events -> {Missing, Unread} \cup {ReadAt(time) : time \in 0 .. now}]
           /\ \A e \in Events : \/ inbox'[e] = inbox[e]
                                \/ inbox[e] = Unread /\ inbox'[e] = ReadAt(now)
<1> USE DEF NotificationsTypeOK, Mark
<1>1. now \in 0 .. now OBVIOUS
<1>2. QED BY <1>1

\* What reading does to a row keeps what is known of rows and their counts.
LEMMA ReadingKeepsRows ==
    ASSUME Inv, UNCHANGED <<now, told, happened, failed>>,
           \A e \in Events : \/ inbox'[e] = inbox[e]
                             \/ inbox[e] = Unread /\ inbox'[e] = ReadAt(now)
    PROVE  RowsWereTold' /\ TxnEvents' /\ TopUpEvents' /\ WarnedEvents'
<1> USE EventsAssumption, TimesAssumption, RowForms DEF Inv
<1>1. RowsWereTold' BY DEF RowsWereTold
<1>2. TxnEvents' /\ TopUpEvents' BY DEF TxnEvents, TopUpEvents, Events
<1>3. WarnedEvents'
   <2> SUFFICES ASSUME NEW e \in Warnings, told[e] = 1
                PROVE  /\ now >= Deadline[e] - WarnWindow
                       /\ inbox'[e].row = "read" => inbox'[e].at >= Deadline[e] - WarnWindow
                       /\ inbox'[e] = Missing => now > Deadline[e] + Patience
      BY DEF WarnedEvents
   <2>1. e \in Events /\ now \in Nat BY DEF Events, NotificationsTypeOK
   <2>2. CASE inbox'[e] = inbox[e] BY <2>1, <2>2 DEF WarnedEvents
   <2>3. CASE inbox[e] = Unread /\ inbox'[e] = ReadAt(now) BY <2>1, <2>3 DEF WarnedEvents
   <2>4. QED BY <2>1, <2>2, <2>3
<1>4. QED BY <1>1, <1>2, <1>3

-----------------------------------------------------------------------------
(* Every action keeps the invariant.                                       *)

\* A worker goes on with its job and commits nothing.
LEMMA JobStep ==
    ASSUME Inv, NEW w \in Workers, NEW job \in Work, Do(w, job), WellFormed(job), JobOK(job),
           \A v \in Workers : v # w /\ job.event # None => work[v].event # job.event,
           UNCHANGED <<now, happened, failed, inbox, told>>
    PROVE  Inv'
<1> USE DEF Inv
<1>1. /\ work' \in [Workers -> Work]
      /\ \A v \in Workers : WellFormed(work'[v])
      /\ work'[w] = job
      /\ \A v \in Workers : v # w => work'[v] = work[v]
      /\ Alone'
   BY DoFacts
<1>2. NotificationsTypeOK' BY <1>1 DEF NotificationsTypeOK, WellFormed
<1>3. RowsWereTold' /\ TxnEvents' /\ TopUpEvents' /\ WarnedEvents'
   BY DEF RowsWereTold, TxnEvents, TopUpEvents, WarnedEvents
<1>4. WorkersOK' BY <1>1 DEF WorkersOK, JobOK
<1>5. QED BY <1>1, <1>2, <1>3, <1>4

\* A transaction that will report an event keeps the invariant.
LEMMA BeginInv == ASSUME Inv, NEW w \in Workers, NEW e \in Events, Begin(w, e) PROVE Inv'
<1> USE EventsAssumption DEF Begin
<1> DEFINE job == [Idle EXCEPT !.doing = "report", !.event = e]
<1>1. job \in Work BY DEF Work, Idle
<1>2. WellFormed(job) BY DEF WellFormed, Idle
<1>3. JobOK(job) BY DEF JobOK, Idle
<1>4. Do(w, job) /\ UNCHANGED <<now, happened, failed, inbox, told>> OBVIOUS
<1>5. job.event = e /\ \A v \in Workers : work[v].event # e BY DEF Idle
<1> HIDE DEF job, Begin
<1>6. QED BY <1>1, <1>2, <1>3, <1>4, <1>5, JobStep

\* So does a report, told or found told before.
LEMMA NotifyInv == ASSUME Inv, NEW w \in Workers, Notify(w) PROVE Inv'
<1> USE EventsAssumption DEF Inv, NotificationsTypeOK
<1>1. PICK outcome \in Outcomes(work[w].event) :
          Do(w, [work[w] EXCEPT !.doing = "commit", !.outcome = outcome])
   BY DEF Notify
<1> DEFINE job == [work[w] EXCEPT !.doing = "commit", !.outcome = outcome]
           e == work[w].event
<1>2. /\ work[w].doing = "report" /\ e \in InTxn /\ e \in Events /\ e \notin happened
      /\ JobOK(work[w]) /\ work[w] \in Work
   BY DEF Notify, WorkersOK, JobOK, Events
<1>3. inbox[e] = Missing /\ outcome \in {"written", "failed"}
   BY <1>1, <1>2 DEF TxnEvents, RowsWereTold, Outcomes
<1>4. job \in Work BY <1>2, <1>3 DEF Work
<1>5. job.doing = "commit" /\ job.event = e /\ job.outcome = outcome BY <1>2 DEF Work
<1>6. WellFormed(job) BY <1>2, <1>5 DEF WellFormed
<1>7. JobOK(job) BY <1>2, <1>3, <1>5 DEF JobOK
<1>8. \A v \in Workers : v # w /\ e # None => work[v].event # e BY DEF Alone
<1>9. Do(w, job) /\ UNCHANGED <<now, happened, failed, inbox, told>> BY <1>1 DEF Notify
<1> HIDE DEF job, e, Inv
<1>10. QED BY <1>4, <1>5, <1>6, <1>7, <1>8, <1>9, JobStep

\* A worker that is done with its job, or gives it up, is well formed.
LEMMA IdleJob ==
    Idle \in Work /\ WellFormed(Idle) /\ JobOK(Idle) /\ Idle.event = None /\ JobOK(Idle)'
BY IdleIsOK DEF WellFormed, JobOK, Idle

\* So does one that fails or is rolled back.
LEMMA GiveUpInv == ASSUME Inv, NEW w \in Workers, GiveUp(w) PROVE Inv'
BY IdleJob, JobStep DEF GiveUp

\* So does the list of the warning command.
LEMMA ListExpiringInv == ASSUME Inv, NEW w \in Workers, ListExpiring(w) PROVE Inv'
<1>1. PICK pending \in (SUBSET ExpiringSoon) \ {{}} :
          Do(w, [Idle EXCEPT !.doing = "warn", !.todo = pending, !.since = now])
   BY DEF ListExpiring
<1> DEFINE job == [Idle EXCEPT !.doing = "warn", !.todo = pending, !.since = now]
<1>2. job.doing = "warn" /\ job.todo = pending /\ job.since = now /\ job.event = None
   BY DEF Idle
<1>3. now \in Nat /\ pending \in SUBSET Warnings /\ pending # {}
   <2>1. now \in Nat BY DEF Inv, NotificationsTypeOK
   <2>2. ExpiringSoon \subseteq Warnings BY DEF ExpiringSoon
   <2>3. QED BY <2>1, <2>2
<1>4. job \in Work BY <1>3, IdleIsOK DEF Work, Idle
<1>5. Do(w, job) /\ UNCHANGED <<now, happened, failed, inbox, told>> BY <1>1 DEF ListExpiring
<1> HIDE DEF job
<1>6. WellFormed(job) BY <1>2, <1>3 DEF WellFormed
<1>7. JobOK(job)
   BY <1>2, <1>3, TimesAssumption, EventsAssumption DEF JobOK, ExpiringSoon
<1>8. QED BY <1>2, <1>4, <1>5, <1>6, <1>7, JobStep

\* So does a commit.
LEMMA CommitInv == ASSUME Inv, NEW w \in Workers, Commit(w) PROVE Inv'
<1> USE EventsAssumption DEF Inv
<1> DEFINE e == work[w].event  outcome == work[w].outcome
<1>1. /\ e \in InTxn /\ e \in Events /\ e # None /\ e \notin happened /\ e \notin failed
      /\ outcome \in {"written", "failed"} /\ told[e] = 0
   BY DEF Commit, NotificationsTypeOK, WorkersOK, JobOK, Events, TxnEvents
<1>2. /\ happened' = happened \cup {e} /\ now' = now
      /\ Committed(e, outcome) /\ Do(w, Idle)
   BY DEF Commit
<1>3. /\ inbox' \in [Events -> {Missing, Unread} \cup {ReadAt(time) : time \in 0 .. now}]
      /\ told' \in [Events -> Nat] /\ failed' \subseteq Events
      /\ \A d \in Events : d # e => /\ inbox'[d] = inbox[d] /\ told'[d] = told[d]
                                    /\ d \in failed' <=> d \in failed
      /\ \/ told'[e] = 1 /\ failed' = failed
         \/ told'[e] = 0 /\ inbox'[e] = inbox[e] /\ failed' = failed \cup {e}
   BY <1>1, <1>2, CommittedFacts
<1>4. /\ work' \in [Workers -> Work]
      /\ \A v \in Workers : WellFormed(work'[v])
      /\ work'[w] = Idle
      /\ \A v \in Workers : v # w => work'[v] = work[v]
      /\ Alone'
   BY <1>2, IdleJob, DoFacts
<1>5. NotificationsTypeOK'
   BY <1>1, <1>2, <1>3, <1>4 DEF NotificationsTypeOK, WellFormed
<1>6. RowsWereTold' BY <1>1, <1>3 DEF RowsWereTold
<1>7. TxnEvents' BY <1>1, <1>2, <1>3 DEF TxnEvents, Events
<1>8. TopUpEvents' BY <1>1, <1>2, <1>3 DEF TopUpEvents, Events
<1>9. WarnedEvents'
   <2>1. \A d \in Warnings : d \in Events /\ d # e BY <1>1 DEF Events
   <2>2. \A d \in Warnings : inbox'[d] = inbox[d] /\ told'[d] = told[d] BY <2>1, <1>3
   <2>3. QED BY <2>2, <1>2 DEF WarnedEvents
<1>10. WorkersOK'
   <2> SUFFICES ASSUME NEW v \in Workers PROVE JobOK(work[v])' BY DEF WorkersOK
   <2>1. CASE v = w BY <2>1, <1>4 DEF JobOK, Idle
   <2>2. CASE v # w
      <3>1. work'[v] = work[v] /\ JobOK(work[v]) /\ work[v].event # e
         BY <2>2, <1>1, <1>4 DEF WorkersOK, Alone
      <3>2. work[v].doing = "tell" => told'[work[v].event] = told[work[v].event]
         BY <3>1, <1>3 DEF NotificationsTypeOK, Events
      <3>3. QED BY <3>1, <3>2, <1>2 DEF JobOK
   <2>3. QED BY <2>1, <2>2
<1>11. QED BY <1>4, <1>5, <1>6, <1>7, <1>8, <1>9, <1>10

\* So does a deposit.
LEMMA TopUpInv == ASSUME Inv, NEW w \in Workers, NEW e \in Events, TopUp(w, e) PROVE Inv'
<1> USE EventsAssumption DEF Inv
<1> DEFINE job == [Idle EXCEPT !.doing = "tell", !.event = e]
<1>1. /\ e \in AfterCommit /\ e \notin happened /\ e \notin InTxn /\ e # None
      /\ happened' = happened \cup {e} /\ Do(w, job)
      /\ UNCHANGED <<now, failed, inbox, told>>
   BY DEF TopUp
<1>2. job.doing = "tell" /\ job.event = e BY DEF Idle
<1>3. job \in Work BY IdleIsOK DEF Work, Idle
<1> HIDE DEF job
<1>4. WellFormed(job) BY <1>1, <1>2 DEF WellFormed
<1>5. \A v \in Workers : work[v].event # e
   <2> SUFFICES ASSUME NEW v \in Workers, work[v].event = e PROVE FALSE OBVIOUS
   <2>1. work[v].doing \in {"idle", "report", "commit", "tell", "warn"}
      BY DEF NotificationsTypeOK, Work
   <2>2. work[v].doing # "idle" BY <1>1, IdleIsOK DEF NotificationsTypeOK
   <2>3. work[v].doing \notin {"report", "commit", "warn"} BY <1>1 DEF NotificationsTypeOK
   <2>4. work[v].doing # "tell" BY <1>1 DEF WorkersOK, JobOK
   <2>5. QED BY <2>1, <2>2, <2>3, <2>4
<1>6. /\ work' \in [Workers -> Work]
      /\ \A v \in Workers : WellFormed(work'[v])
      /\ work'[w] = job
      /\ \A v \in Workers : v # w => work'[v] = work[v]
      /\ Alone'
   BY <1>1, <1>2, <1>3, <1>4, <1>5, DoFacts
<1>7. NotificationsTypeOK' BY <1>1, <1>6 DEF NotificationsTypeOK, WellFormed
<1>8. RowsWereTold' BY <1>1 DEF RowsWereTold
<1>9. TxnEvents' BY <1>1 DEF TxnEvents, Events
<1>10. TopUpEvents' BY <1>1 DEF TopUpEvents, Events
<1>11. WarnedEvents' BY <1>1 DEF WarnedEvents
<1>12. told[e] = 0 BY <1>1 DEF TopUpEvents
<1>13. WorkersOK'
   <2> SUFFICES ASSUME NEW v \in Workers PROVE JobOK(work[v])' BY DEF WorkersOK
   <2>1. CASE v = w BY <2>1, <1>1, <1>2, <1>6, <1>12 DEF JobOK
   <2>2. CASE v # w
      <3>1. work'[v] = work[v] /\ JobOK(work[v]) /\ work[v].event # e
         BY <2>2, <1>5, <1>6 DEF WorkersOK
      <3>2. QED BY <3>1, <1>1 DEF JobOK
   <2>3. QED BY <2>1, <2>2
<1>14. QED BY <1>6, <1>7, <1>8, <1>9, <1>10, <1>11, <1>13

\* Telling an event for the first time.
LEMMA ToldFacts ==
    ASSUME NotificationsTypeOK,
           NEW e \in Events, told[e] = 0, NEW outcome \in {"written", "known", "failed"},
           Committed(e, outcome)
    PROVE  /\ inbox' \in [Events -> {Missing, Unread} \cup {ReadAt(time) : time \in 0 .. now}]
           /\ told' \in [Events -> Nat] /\ failed' \subseteq Events
           /\ \A d \in Events : d # e => /\ inbox'[d] = inbox[d] /\ told'[d] = told[d]
                                         /\ d \in failed' <=> d \in failed
           /\ told'[e] = 1 \/ (told'[e] = 0 /\ inbox'[e] = inbox[e])
BY DEF NotificationsTypeOK, Committed

\* So does its report, after the commit.
LEMMA TellTopUpInv == ASSUME Inv, NEW w \in Workers, TellTopUp(w) PROVE Inv'
<1> USE EventsAssumption DEF Inv
<1>1. PICK e \in AfterCommit : /\ e = work[w].event /\ e \in Events /\ e # None
                                /\ e \notin InTxn /\ e \in happened /\ told[e] = 0
   BY DEF TellTopUp, NotificationsTypeOK, WorkersOK, JobOK, Events
<1>2. PICK outcome \in Outcomes(e) : Committed(e, outcome)
   BY <1>1 DEF TellTopUp
<1>3. Do(w, Idle) /\ happened' = happened /\ now' = now BY DEF TellTopUp
<1>13. \A v \in Workers : v # w => work[v].event # e BY <1>1 DEF Alone
<1>4. /\ inbox' \in [Events -> {Missing, Unread} \cup {ReadAt(time) : time \in 0 .. now}]
      /\ told' \in [Events -> Nat] /\ failed' \subseteq Events
      /\ \A d \in Events : d # e => /\ inbox'[d] = inbox[d] /\ told'[d] = told[d]
                                    /\ d \in failed' <=> d \in failed
      /\ told'[e] = 1 \/ (told'[e] = 0 /\ inbox'[e] = inbox[e])
   <2>1. outcome \in {"written", "known", "failed"} BY <1>2 DEF Outcomes
   <2> HIDE DEF Inv
   <2>2. QED BY <1>1, <1>2, <2>1, ToldFacts DEF Inv
<1>5. /\ work' \in [Workers -> Work]
      /\ \A v \in Workers : WellFormed(work'[v])
      /\ work'[w] = Idle
      /\ \A v \in Workers : v # w => work'[v] = work[v]
      /\ Alone'
   BY <1>3, IdleJob, DoFacts
<1>6. NotificationsTypeOK' BY <1>3, <1>4, <1>5 DEF NotificationsTypeOK, WellFormed
<1>7. RowsWereTold' BY <1>1, <1>4 DEF RowsWereTold
<1>8. TxnEvents'
   <2>1. \A d \in InTxn : d \in Events /\ d # e BY <1>1 DEF Events
   <2>2. \A d \in InTxn : told'[d] = told[d] /\ (d \in failed' <=> d \in failed) BY <2>1, <1>4
   <2>3. QED BY <2>2, <1>3 DEF TxnEvents
<1>9. TopUpEvents' BY <1>1, <1>3, <1>4 DEF TopUpEvents, Events
<1>10. WarnedEvents'
   <2>1. \A d \in Warnings : d \in Events /\ d # e BY <1>1 DEF Events
   <2>2. \A d \in Warnings : inbox'[d] = inbox[d] /\ told'[d] = told[d] BY <2>1, <1>4
   <2>3. QED BY <2>2, <1>3 DEF WarnedEvents
<1>11. WorkersOK'
   <2> SUFFICES ASSUME NEW v \in Workers PROVE JobOK(work[v])' BY DEF WorkersOK
   <2>1. CASE v = w BY <2>1, <1>5 DEF JobOK, Idle
   <2>2. CASE v # w
      <3>1. work'[v] = work[v] /\ JobOK(work[v]) /\ work[v].event # e
         BY <2>2, <1>5, <1>13 DEF WorkersOK
      <3>2. work[v].doing = "tell" => told'[work[v].event] = told[work[v].event]
         BY <3>1, <1>4 DEF NotificationsTypeOK, Events
      <3>3. QED BY <3>1, <3>2, <1>3 DEF JobOK
   <2>3. QED BY <2>1, <2>2
<1>12. QED BY <1>5, <1>6, <1>7, <1>8, <1>9, <1>10, <1>11

\* A warning that is still in somebody's list has not been told and deleted.
LEMMA WarnInv == ASSUME Inv, NEW w \in Workers, Warn(w) PROVE Inv'
<1> USE EventsAssumption, TimesAssumption DEF Inv
<1>1. PICK e \in work[w].todo : /\ \E outcome \in Outcomes(e) : Committed(e, outcome)
                                /\ Do(w, Left(work[w], e))
   BY DEF Warn
<1>2. PICK outcome \in Outcomes(e) : Committed(e, outcome) BY <1>1
<1>3. work[w].doing = "warn" /\ happened' = happened /\ now' = now BY DEF Warn
<1> DEFINE j == work[w]
<1>4. /\ j \in Work /\ j.event = None /\ e \in Warnings /\ e \in Events /\ e \notin InTxn \cup AfterCommit
      /\ now \in Nat /\ Deadline[e] \in Nat /\ JobOK(j)
   BY <1>3 DEF NotificationsTypeOK, Work, Events, WorkersOK
<1>5. now <= Deadline[e] + Patience /\ now >= Deadline[e] - WarnWindow
   BY <1>1, <1>3, <1>4 DEF JobOK, Work
<1>6. told[e] = 0 \/ inbox[e] # Missing BY <1>4, <1>5 DEF WarnedEvents
<1>7. /\ inbox' \in [Events -> {Missing, Unread} \cup {ReadAt(time) : time \in 0 .. now}]
      /\ told' \in [Events -> Nat] /\ failed' \subseteq Events
      /\ \A d \in Events : d # e => /\ inbox'[d] = inbox[d] /\ told'[d] = told[d]
                                    /\ d \in failed' <=> d \in failed
      /\ \/ told'[e] = 1 /\ inbox'[e] = Unread
         \/ told'[e] = told[e] /\ inbox'[e] = inbox[e]
   <2>1. outcome \in {"written", "known", "failed"} /\ (outcome = "written" => inbox[e] = Missing)
      BY <1>2 DEF Outcomes
   <2>2. /\ inbox' \in [Events -> {Missing, Unread} \cup {ReadAt(time) : time \in 0 .. now}]
         /\ told' \in [Events -> Nat] /\ failed' \subseteq Events
         /\ \A d \in Events : d # e => /\ inbox'[d] = inbox[d] /\ told'[d] = told[d]
                                       /\ d \in failed' <=> d \in failed
         /\ \/ outcome = "written" /\ told'[e] = told[e] + 1 /\ inbox'[e] = Unread
            \/ told' = told /\ inbox' = inbox
      BY <1>2, <1>4, <2>1, CommittedFacts
   <2>3. QED BY <1>6, <2>1, <2>2
<1> DEFINE job == Left(j, e)
<1>8. /\ job = Idle \/ /\ job.doing = "warn" /\ job.event = None /\ job.since = j.since
                       /\ job.todo = j.todo \ {e} /\ job.todo # {}
      /\ job \in Work
   BY <1>1, <1>3, <1>4, IdleIsOK DEF Left, Work
<1>9. Do(w, job) BY <1>1
<1> HIDE DEF job
<1>10. WellFormed(job) /\ job.event = None
   <2>1. CASE job = Idle BY <2>1, IdleJob
   <2>2. CASE job # Idle BY <2>2, <1>8 DEF WellFormed
   <2>3. QED BY <2>1, <2>2
<1>11. /\ work' \in [Workers -> Work]
       /\ \A v \in Workers : WellFormed(work'[v])
       /\ work'[w] = job
       /\ \A v \in Workers : v # w => work'[v] = work[v]
       /\ Alone'
   BY <1>8, <1>9, <1>10, DoFacts
<1>12. NotificationsTypeOK' BY <1>3, <1>7, <1>11 DEF NotificationsTypeOK, WellFormed
<1>13. RowsWereTold' BY <1>4, <1>7 DEF RowsWereTold
<1>14. TxnEvents' /\ TopUpEvents'
   <2>1. \A d \in InTxn \cup AfterCommit : d \in Events /\ d # e BY <1>4 DEF Events
   <2>2. \A d \in InTxn \cup AfterCommit : told'[d] = told[d] /\ (d \in failed' <=> d \in failed)
      BY <2>1, <1>7
   <2>3. QED BY <2>2, <1>3 DEF TxnEvents, TopUpEvents
<1>15. WarnedEvents'
   <2> SUFFICES ASSUME NEW d \in Warnings
                PROVE  /\ told'[d] \in {0, 1}
                       /\ told'[d] = 1 =>
                            /\ now >= Deadline[d] - WarnWindow
                            /\ inbox'[d].row = "read" => inbox'[d].at >= Deadline[d] - WarnWindow
                            /\ inbox'[d] = Missing => now > Deadline[d] + Patience
      BY <1>3 DEF WarnedEvents
   <2>1. CASE d # e BY <2>1, <1>7 DEF WarnedEvents, Events
   <2>2. CASE d = e /\ told'[e] = 1 /\ inbox'[e] = Unread BY <2>2, <1>5, RowForms
   <2>3. CASE d = e /\ told'[e] = told[e] /\ inbox'[e] = inbox[e] BY <2>3 DEF WarnedEvents
   <2>4. QED BY <1>7, <2>1, <2>2, <2>3
<1>16. WorkersOK'
   <2> SUFFICES ASSUME NEW v \in Workers PROVE JobOK(work[v])' BY DEF WorkersOK
   <2>1. CASE v = w /\ job = Idle BY <2>1, <1>11 DEF JobOK, Idle
   <2>4. CASE v = w /\ job # Idle BY <2>4, <1>3, <1>4, <1>8, <1>11 DEF JobOK
   <2>2. CASE v # w
      <3>1. work'[v] = work[v] /\ JobOK(work[v]) BY <2>2, <1>11 DEF WorkersOK
      <3>2. work[v].doing = "tell" => told'[work[v].event] = told[work[v].event]
         BY <1>4, <1>7 DEF NotificationsTypeOK, Events
      <3>3. QED BY <3>1, <3>2, <1>3 DEF JobOK
   <2>3. QED BY <2>1, <2>2, <2>4
<1>17. QED BY <1>11, <1>12, <1>13, <1>14, <1>15, <1>16

\* So does reading.
LEMMA MarkInv ==
    ASSUME Inv, NEW E, Mark(E), UNCHANGED <<now, happened, failed, told, work>>
    PROVE  Inv'
<1> USE DEF Inv
<1>1. /\ inbox' \in [Events -> {Missing, Unread} \cup {ReadAt(time) : time \in 0 .. now}]
      /\ \A e \in Events : \/ inbox'[e] = inbox[e]
                           \/ inbox[e] = Unread /\ inbox'[e] = ReadAt(now)
   BY MarkFacts
<1>2. RowsWereTold' /\ TxnEvents' /\ TopUpEvents' /\ WarnedEvents' BY <1>1, ReadingKeepsRows
<1>3. NotificationsTypeOK' BY <1>1 DEF NotificationsTypeOK
<1>4. Alone' BY DEF Alone
<1>5. WorkersOK' BY DEF WorkersOK, JobOK
<1>6. QED BY <1>2, <1>3, <1>4, <1>5

\* What is deleted was read longer ago than its event can be listed.
LEMMA DeleteInv == ASSUME Inv, DeleteReadOlderThan PROVE Inv'
<1> USE EventsAssumption, TimesAssumption, RowForms DEF Inv
<1>1. inbox' = [e \in Events |-> IF e \in ReadLongAgo THEN Missing ELSE inbox[e]]
      /\ UNCHANGED <<now, happened, failed, told, work>>
   BY DEF DeleteReadOlderThan
<1>2. NotificationsTypeOK' BY <1>1 DEF NotificationsTypeOK
<1>3. Alone' BY <1>1 DEF Alone
<1>4. WorkersOK' BY <1>1 DEF WorkersOK, JobOK
<1>5. RowsWereTold' BY <1>1 DEF RowsWereTold
<1>6. TxnEvents' /\ TopUpEvents' BY <1>1 DEF TxnEvents, TopUpEvents
<1>7. WarnedEvents'
   <2> SUFFICES ASSUME NEW e \in Warnings, told[e] = 1
                PROVE  /\ now >= Deadline[e] - WarnWindow
                       /\ inbox'[e].row = "read" => inbox'[e].at >= Deadline[e] - WarnWindow
                       /\ inbox'[e] = Missing => now > Deadline[e] + Patience
      BY <1>1 DEF WarnedEvents
   <2>1. e \in Events /\ now \in Nat /\ Deadline[e] \in Nat BY DEF Events, NotificationsTypeOK
   <2>2. CASE e \in ReadLongAgo
      <3>1. inbox[e].row = "read" /\ inbox[e].at < now - KeepRead BY <2>2 DEF ReadLongAgo
      <3>2. inbox[e].at >= Deadline[e] - WarnWindow BY <3>1 DEF WarnedEvents
      <3>3. inbox[e].at \in Nat
         BY <2>1, <3>1 DEF NotificationsTypeOK
      <3>4. now > Deadline[e] + Patience /\ now >= Deadline[e] - WarnWindow
         BY <2>1, <3>1, <3>2, <3>3
      <3>5. inbox'[e] = Missing BY <1>1, <2>1, <2>2
      <3>6. QED BY <3>4, <3>5
   <2>3. CASE e \notin ReadLongAgo
      <3>1. inbox'[e] = inbox[e] BY <1>1, <2>1, <2>3
      <3>2. QED BY <3>1 DEF WarnedEvents
   <2>4. QED BY <2>2, <2>3
<1>8. QED BY <1>2, <1>3, <1>4, <1>5, <1>6, <1>7

\* So does the clock.
LEMMA TickInv == ASSUME Inv, Tick PROVE Inv'
<1> USE EventsAssumption, TimesAssumption DEF Inv
<1>1. now' = now + 1 /\ UNCHANGED <<happened, failed, inbox, told, work>> BY DEF Tick
<1>2. now \in Nat BY DEF NotificationsTypeOK
<1>3. NotificationsTypeOK'
   <2>1. inbox \in [Events -> {Missing, Unread} \cup {ReadAt(time) : time \in 0 .. now'}]
      <3>1. 0 .. now \subseteq 0 .. now' BY <1>1, <1>2
      <3>2. QED BY <3>1 DEF NotificationsTypeOK
   <2>2. QED BY <1>1, <1>2, <2>1 DEF NotificationsTypeOK
<1>4. Alone' BY <1>1 DEF Alone
<1>5. WorkersOK'
   <2> SUFFICES ASSUME NEW v \in Workers PROVE JobOK(work[v])' BY DEF WorkersOK
   <2>1. JobOK(work[v]) /\ work[v] \in Work BY DEF WorkersOK, NotificationsTypeOK
   <2>2. work[v].doing = "warn" => now < work[v].since + Patience BY DEF Tick
   <2>3. work[v].since \in Nat BY <2>1 DEF Work
   <2>4. QED BY <1>1, <1>2, <2>1, <2>2, <2>3 DEF JobOK
<1>6. RowsWereTold' /\ TxnEvents' /\ TopUpEvents' BY <1>1 DEF RowsWereTold, TxnEvents, TopUpEvents
<1>7. WarnedEvents' BY <1>1, <1>2 DEF WarnedEvents
<1>8. QED BY <1>3, <1>4, <1>5, <1>6, <1>7

\* So does a step that changes nothing.
LEMMA StutterInv == Inv /\ UNCHANGED vars => Inv'
BY DEF vars, Inv, NotificationsTypeOK, Alone, RowsWereTold, TxnEvents, TopUpEvents, WarnedEvents,
       WorkersOK, JobOK

\* Every step keeps it.
LEMMA NextInv == Inv /\ [Next]_vars => Inv'
<1> SUFFICES ASSUME Inv, [Next]_vars PROVE Inv' OBVIOUS
<1>1. CASE \E w \in Workers, e \in Events : Begin(w, e) \/ TopUp(w, e)
   BY <1>1, BeginInv, TopUpInv
<1>2. CASE \E w \in Workers : Notify(w) \/ Commit(w) \/ TellTopUp(w)
   BY <1>2, NotifyInv, CommitInv, TellTopUpInv
<1>3. CASE \E w \in Workers : ListExpiring(w) \/ Warn(w) \/ GiveUp(w)
   BY <1>3, ListExpiringInv, WarnInv, GiveUpInv
<1>4. CASE \E u \in Users : MarkAllRead(u) \/ \E e \in Events : MarkRead(u, e)
   BY <1>4, MarkInv DEF MarkAllRead, MarkRead
<1>5. CASE DeleteReadOlderThan BY <1>5, DeleteInv
<1>6. CASE Tick BY <1>6, TickInv
<1>7. CASE UNCHANGED vars BY <1>7, StutterInv
<1>8. QED BY <1>1, <1>2, <1>3, <1>4, <1>5, <1>6, <1>7 DEF Next

-----------------------------------------------------------------------------

\* Whoever was told and whose row is gone is past being told again, for every instance of
\* Notifications: the invariant the properties rest on.
THEOREM InvHolds == Spec => []Inv
<1>1. QED BY InitInv, NextInv, PTL DEF Spec

\* The columns hold what they may hold, and every worker has what its job needs.
THEOREM Typed == Spec => []NotificationsTypeOK
<1>1. Inv => NotificationsTypeOK BY DEF Inv
<1>2. QED BY <1>1, InvHolds, PTL

\* No event is told twice, although the row whose key prevents it is deleted.
THEOREM OnceOnly == Spec => []ToldAtMostOnce
<1>1. Inv => ToldAtMostOnce
   <2> SUFFICES ASSUME Inv, NEW e \in Events PROVE told[e] <= 1 BY DEF ToldAtMostOnce
   <2>1. CASE e \in InTxn BY <2>1 DEF Inv, TxnEvents
   <2>2. CASE e \in AfterCommit BY <2>2 DEF Inv, TopUpEvents
   <2>3. CASE e \in Warnings BY <2>3 DEF Inv, WarnedEvents
   <2>4. QED BY <2>1, <2>2, <2>3 DEF Events
<1>2. QED BY <1>1, InvHolds, PTL

\* A payment, cancellation or expiry is told if and only if it has committed
\* (and its INSERT did not fail), a top-up only after it has.
THEOREM ToldWhatCommitted == Spec => []ToldIffCommitted
<1>1. Inv => ToldIffCommitted
   BY EventsAssumption DEF Inv, ToldIffCommitted, TxnEvents, TopUpEvents
<1>2. QED BY <1>1, InvHolds, PTL

\* Writing a notification only fills the row of an event that has none.
LEMMA CommittedReads ==
    ASSUME NotificationsTypeOK, NEW e \in Events, NEW outcome, Committed(e, outcome),
           outcome = "written" => inbox[e] = Missing
    PROVE  \A d \in Events : inbox'[d] = inbox[d] \/ inbox[d] = Missing
BY DEF NotificationsTypeOK, Committed

\* What is unread stays until it is read, and what is read until the housekeeping.
THEOREM ReadingStays == Spec => ReadingIsFinal
<1> DEFINE Kept(e) ==
        /\ inbox[e] = Unread => inbox'[e] \in {Unread, ReadAt(now)}
        /\ inbox[e].row = "read" =>
             inbox'[e] \in {inbox[e]} \cup
                 (IF inbox[e].at < now - KeepRead THEN {Missing} ELSE {})
<1>1. Inv /\ [Next]_vars => \A e \in Events : Kept(e)
   <2> SUFFICES ASSUME Inv, [Next]_vars, NEW e \in Events PROVE Kept(e) OBVIOUS
   <2>1. SUFFICES inbox'[e] # inbox[e] => Kept(e) BY DEF Kept
   <2>2. inbox[e] = Missing => Kept(e) BY RowForms DEF Kept
   <2>3. CASE \E w \in Workers : Commit(w)
      <3>1. PICK w \in Workers : Commit(w) BY <2>3
      <3>2. /\ Committed(work[w].event, work[w].outcome) /\ work[w].event \in Events
            /\ inbox[work[w].event] = Missing
         BY <3>1 DEF Commit, Inv, NotificationsTypeOK, Events, TxnEvents, RowsWereTold,
                     WorkersOK, JobOK
      <3>3. inbox'[e] = inbox[e] \/ inbox[e] = Missing BY <3>2, CommittedReads DEF Inv
      <3>4. QED BY <2>2, <3>3
   <2>4. CASE \E w \in Workers : TellTopUp(w) \/ Warn(w)
      <3>1. PICK d \in Events : \E outcome \in Outcomes(d) : Committed(d, outcome)
         <4>1. PICK w \in Workers : TellTopUp(w) \/ Warn(w) BY <2>4
         <4>2. CASE TellTopUp(w)
            BY <4>2 DEF TellTopUp, Inv, NotificationsTypeOK, Events
         <4>3. CASE Warn(w)
            <5>1. work[w].todo \subseteq Events BY DEF Inv, NotificationsTypeOK, Work, Events
            <5>2. QED BY <4>3, <5>1 DEF Warn
         <4>4. QED BY <4>1, <4>2, <4>3
      <3>2. inbox'[e] = inbox[e] \/ inbox[e] = Missing
         BY <3>1, CommittedReads DEF Inv, Outcomes
      <3>3. QED BY <2>2, <3>2
   <2>5. CASE \E E : Mark(E)
      <3>1. inbox'[e] = inbox[e] \/ (inbox[e] = Unread /\ inbox'[e] = ReadAt(now))
         <4>1. PICK E : Mark(E) BY <2>5
         <4>2. QED BY <4>1 DEF Mark
      <3>2. QED BY <3>1, RowForms DEF Kept
   <2>6. CASE DeleteReadOlderThan
      <3>1. inbox'[e] = IF e \in ReadLongAgo THEN Missing ELSE inbox[e]
         BY <2>6 DEF DeleteReadOlderThan
      <3>2. QED BY <3>1, RowForms DEF ReadLongAgo, Kept
   <2>7. CASE UNCHANGED inbox BY <2>7
   <2>8. QED
      BY <2>1, <2>3, <2>4, <2>5, <2>6, <2>7
      DEF Next, vars, Begin, Notify, TopUp, ListExpiring, GiveUp, MarkAllRead, MarkRead, Tick
<1>2. QED BY <1>1, InvHolds, PTL DEF Spec, ReadingIsFinal, Kept
=============================================================================
