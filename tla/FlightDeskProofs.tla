--------------------------- MODULE FlightDeskProofs ---------------------------
(***************************************************************************)
(* No class with a reservation is removed, no paid reservation is deleted, *)
(* no cancelled flight with a reservation is opened again: for any number  *)
(* of managers, customers and classes, any clock, any number of mishaps.   *)
(***************************************************************************)
EXTENDS FlightDesk, TLAPS

\* A booking writes a new row, a payment one that is pending.
OpenFitsRows ==
    \A r \in Refs : /\ open[r] \in Classes => rows[r] = NoRow
                    /\ open[r] = Paying => rows[r].state = "pending"

\* A class that is being deleted is in one transaction's hands and in no booking's,
\* and whatever still refers to it was never paid and never will be.
DeletesAreClear ==
    \A m \in Managers : desk[m].at = "delete" =>
        /\ desk[m].class \in Classes
        /\ \A r \in Refs : open[r] # desk[m].class
        /\ \A r \in Refs : rows[r].class = desk[m].class =>
                              (rows[r].state = "cancelled" /\ ~rows[r].paid)
        /\ \A n \in Managers : (n # m /\ desk[n].at = "delete") => desk[n].class # desk[m].class

\* Classes, and a cancellation, belong to a flight that exists.
FlightIsThere ==
    flight = NoFlight => classes = {} /\ \A m \in Managers : desk[m].at # "begin"

Inv == FlightDeskTypeOK /\ OpenFitsRows /\ DeletesAreClear /\ FlightIsThere

-----------------------------------------------------------------------------

\* A row that was written is not the empty one.
LEMMA RowIsWritten ==
    /\ \A row \in Row : row # NoRow /\ row.state # "none"
    /\ NoRow.state = "none" /\ NoRow.paid = FALSE /\ NoRow.class = None
BY DEF Row, NoRow

\* A manager who does nothing has the right type.
LEMMA IdleIsADesk == Idle \in Desk /\ Idle.at = "idle" /\ Idle.class = None /\ Idle.todo = {}
BY DEF Idle, Desk

\* A flight that exists is not NoFlight.
LEMMA FlightForms == NoFlight \notin Posted /\ NoFlight.status = "none"
BY DEF NoFlight, Posted, Statuses

\* What is known of a class that is being deleted.
LEMMA DeleteFacts ==
    ASSUME DeletesAreClear, NEW m \in Managers, desk[m].at = "delete"
    PROVE  /\ desk[m].class \in Classes
           /\ \A r \in Refs : open[r] # desk[m].class
           /\ \A r \in Refs : rows[r].class = desk[m].class =>
                                rows[r].state = "cancelled" /\ ~rows[r].paid
           /\ \A n \in Managers : n # m /\ desk[n].at = "delete" => desk[n].class # desk[m].class
BY DEF DeletesAreClear

\* The invariant holds in the beginning.
LEMMA InitInv == Init => Inv
<1> SUFFICES ASSUME Init PROVE Inv OBVIOUS
<1> USE DeskAssumption DEF Init
<1>1. FlightDeskTypeOK BY IdleIsADesk DEF FlightDeskTypeOK, Written
<1>2. OpenFitsRows BY DEF OpenFitsRows
<1>3. DeletesAreClear BY IdleIsADesk DEF DeletesAreClear
<1>4. FlightIsThere BY IdleIsADesk DEF FlightIsThere
<1>5. QED BY <1>1, <1>2, <1>3, <1>4 DEF Inv

\* A request that neither deletes a class nor touches the other tables.
LEMMA DeskStep ==
    ASSUME Inv, NEW m \in Managers, NEW job \in Desk, Do(m, job), job.at # "delete",
           job.at = "begin" => flight # NoFlight,
           mishaps' \in Nat, UNCHANGED <<now, flight, classes, rows, open>>
    PROVE  Inv'
<1> USE DEF Inv, Do
<1>1. FlightDeskTypeOK' BY DEF FlightDeskTypeOK, Written
<1>2. OpenFitsRows' BY DEF OpenFitsRows
<1>3. DeletesAreClear'
   <2>1. \A n \in Managers : desk'[n] = IF n = m THEN job ELSE desk[n]
      BY DEF FlightDeskTypeOK
   <2>2. QED BY <2>1 DEF DeletesAreClear
<1>4. FlightIsThere'
   BY DEF FlightIsThere, FlightDeskTypeOK
<1>5. QED BY <1>1, <1>2, <1>3, <1>4

\* Giving a reservation back under the lock of its row.
LEMMA ReleaseStep ==
    ASSUME Inv, NEW r \in Refs, rows[r].state \in {"pending", "reserved"}, open[r] = None,
           rows' = Cancelled(r), desk' \in [Managers -> Desk],
           \A m \in Managers : desk'[m].at \in {"delete", "begin"} => desk'[m] = desk[m],
           UNCHANGED <<now, flight, classes, open, mishaps>>
    PROVE  Inv'
<1> USE RowIsWritten, DeskAssumption DEF Inv, Cancelled
<1>1. rows[r] \in Row BY DEF FlightDeskTypeOK
<1>2. /\ rows'[r] \in Row /\ rows'[r].class = rows[r].class /\ rows'[r].paid = rows[r].paid
      /\ rows'[r].state = "cancelled"
   BY <1>1 DEF FlightDeskTypeOK, Row
<1>3. \A q \in Refs : q # r => rows'[q] = rows[q] BY DEF FlightDeskTypeOK
<1>4. Written' = Written
   BY <1>1, <1>2, <1>3 DEF Written
<1>5. FlightDeskTypeOK'
   <2>1. rows' \in [Refs -> Row \cup {NoRow}] BY <1>2, <1>3 DEF FlightDeskTypeOK
   <2>2. \A q \in Written' : rows'[q].class \in classes BY <1>2, <1>3, <1>4 DEF FlightDeskTypeOK
   <2>3. QED BY <2>1, <2>2 DEF FlightDeskTypeOK
<1>6. OpenFitsRows' BY <1>3 DEF OpenFitsRows
<1>7. DeletesAreClear'
   <2> SUFFICES ASSUME NEW m \in Managers, desk'[m].at = "delete"
                PROVE  /\ desk'[m].class \in Classes
                       /\ \A q \in Refs : /\ open'[q] # desk'[m].class
                                         /\ rows'[q].class = desk'[m].class =>
                                              rows'[q].state = "cancelled" /\ ~rows'[q].paid
                       /\ \A n \in Managers : desk'[n].at = "delete" /\ desk'[n].class = desk'[m].class => n = m
      BY DEF DeletesAreClear
   <2>1. desk'[m] = desk[m] OBVIOUS
   <2>2. \A n \in Managers : desk'[n].at = "delete" => desk'[n] = desk[n]
      OBVIOUS
   <2>3. \A q \in Refs : /\ open'[q] # desk'[m].class
                        /\ rows'[q].class = desk'[m].class =>
                             rows'[q].state = "cancelled" /\ ~rows'[q].paid
      BY <1>2, <1>3, <2>1 DEF DeletesAreClear
   <2>4. QED BY <2>1, <2>2, <2>3 DEF DeletesAreClear
<1>8. FlightIsThere' BY DEF FlightIsThere
<1>9. QED BY <1>5, <1>6, <1>7, <1>8

-----------------------------------------------------------------------------
(* Managers.                                                               *)

\* A new flight keeps it.
LEMMA CreateInv == ASSUME Inv, NEW m \in Managers, CreateFlight(m) PROVE Inv'
<1> USE FlightForms DEF CreateFlight, Inv
<1>1. classes = {} BY DEF FlightIsThere
<1>2. Written = {} BY <1>1 DEF FlightDeskTypeOK
<1>3. Written' = {} BY <1>2 DEF Written
<1>4. FlightDeskTypeOK' BY <1>1, <1>3 DEF FlightDeskTypeOK
<1>5. OpenFitsRows' BY DEF OpenFitsRows
<1>6. DeletesAreClear' BY DEF DeletesAreClear
<1>7. FlightIsThere' BY DEF FlightIsThere
<1>8. QED BY <1>4, <1>5, <1>6, <1>7

\* The form keeps every class that a reservation or a booking refers to.
LEMMA EditInv == ASSUME Inv, NEW m \in Managers, EditFlight(m) PROVE Inv'
<1> USE FlightForms, IdleIsADesk, DeskAssumption DEF Inv
<1>1. PICK posted \in Posted, dropped \in SUBSET classes, added \in SUBSET (Classes \ classes) :
          /\ \A c \in dropped : RowsOf(c) = {}
          /\ flight' = posted
          /\ classes' = (classes \ dropped) \cup added
          /\ Do(m, IF posted.status = "cancelled" /\ flight.status # "cancelled"
                   THEN [Idle EXCEPT !.at = "begin"] ELSE Idle)
   BY DEF EditFlight
<1>2. /\ \A c \in classes : ClassIsFree(c)
      /\ UNCHANGED <<now, rows, open, mishaps>>
   BY DEF EditFlight
<1>3. PICK job \in Desk : Do(m, job) /\ job.at \in {"idle", "begin"}
   BY <1>1 DEF Idle, Desk
<1>4. /\ desk' \in [Managers -> Desk]
      /\ \A n \in Managers : desk'[n] = IF n = m THEN job ELSE desk[n]
   BY <1>3 DEF Do, FlightDeskTypeOK
<1>5. \A r \in Refs : open[r] \in {Paying, None}
   BY <1>2 DEF ClassIsFree, FlightDeskTypeOK
<1>6. \A r \in Written : rows[r].class \in classes'
   BY <1>1 DEF RowsOf, FlightDeskTypeOK
<1>7. FlightDeskTypeOK'
   BY <1>1, <1>2, <1>4, <1>5, <1>6 DEF FlightDeskTypeOK, Written
<1>8. OpenFitsRows' BY <1>2 DEF OpenFitsRows
<1>9. DeletesAreClear' BY <1>2, <1>3, <1>4 DEF DeletesAreClear
<1>10. FlightIsThere' BY <1>1 DEF FlightIsThere
<1>11. QED BY <1>7, <1>8, <1>9, <1>10

\* So does the cancel button.
LEMMA PressCancelInv == ASSUME Inv, NEW m \in Managers, PressCancel(m) PROVE Inv'
<1> DEFINE job == [Idle EXCEPT !.at = "begin"]
<1>1. job \in Desk /\ job.at = "begin" BY DEF Idle, Desk
<1>2. Do(m, job) /\ flight # NoFlight /\ UNCHANGED <<now, flight, classes, rows, open, mishaps>>
   BY DEF PressCancel
<1>3. mishaps' \in Nat BY <1>2 DEF Inv, FlightDeskTypeOK
<1> HIDE DEF job
<1>4. QED BY <1>1, <1>2, <1>3, DeskStep

\* The status is set under the flight's lock; nothing else changes.
LEMMA StatusStep ==
    ASSUME Inv, NEW status \in Statuses, flight # NoFlight,
           flight' = [flight EXCEPT !.status = status],
           desk' \in [Managers -> Desk],
           \A m \in Managers : desk'[m].at = "delete" => desk'[m] = desk[m],
           UNCHANGED <<now, classes, rows, open, mishaps>>
    PROVE  Inv'
<1> USE FlightForms DEF Inv
<1>1. flight' \in Posted BY DEF FlightDeskTypeOK, Posted
<1>2. FlightDeskTypeOK' BY <1>1 DEF FlightDeskTypeOK, Written
<1>3. OpenFitsRows' BY DEF OpenFitsRows
<1>4. DeletesAreClear' BY DEF DeletesAreClear
<1>5. FlightIsThere' BY <1>1 DEF FlightIsThere
<1>6. QED BY <1>2, <1>3, <1>4, <1>5

\* So does the lock of the flight that is cancelled.
LEMMA BeginCancelInv == ASSUME Inv, NEW m \in Managers, BeginCancel(m) PROVE Inv'
<1> USE IdleIsADesk DEF BeginCancel
<1>1. CASE flight.status = "completed"
   BY <1>1, DeskStep DEF Inv, FlightDeskTypeOK
<1>2. CASE flight.status # "completed"
   <2> DEFINE job == [Idle EXCEPT !.at = "sweep", !.pass = 1]
   <2>1. job \in Desk /\ job.at = "sweep"
      <3>1. 1 \in 0 .. 4 OBVIOUS
      <3>2. QED BY <3>1 DEF Idle, Desk
   <2>2. Do(m, job) /\ flight' = [flight EXCEPT !.status = "cancelled"] BY <1>2
   <2>3. flight # NoFlight BY DEF Inv, FlightIsThere
   <2> HIDE DEF job
   <2>4. /\ desk' \in [Managers -> Desk]
         /\ \A n \in Managers : desk'[n].at = "delete" => desk'[n] = desk[n]
      BY <2>1, <2>2 DEF Do, Inv, FlightDeskTypeOK
   <2>5. "cancelled" \in Statuses BY DEF Statuses
   <2>6. QED BY <2>2, <2>3, <2>4, <2>5, StatusStep
<1>3. QED BY <1>1, <1>2

\* So does the list of who is to be refunded.
LEMMA ListActiveInv == ASSUME Inv, NEW m \in Managers, ListActive(m) PROVE Inv'
<1> DEFINE j == desk[m]
           left == Active \ j.failed
           job == IF j.pass > 3 \/ left = {} THEN Idle ELSE [j EXCEPT !.todo = left, !.pass = @ + 1]
<1>1. j \in Desk /\ j.at = "sweep" BY DEF ListActive, Inv, FlightDeskTypeOK
<1>2. left \subseteq Refs BY DEF Active
<1>3. job \in Desk /\ job.at \in {"idle", "sweep"}
   <2>1. CASE j.pass > 3 \/ left = {} BY <2>1, IdleIsADesk
   <2>2. CASE ~(j.pass > 3 \/ left = {})
      <3>1. j.pass \in 0 .. 4 BY <1>1 DEF Desk
      <3>2. j.pass + 1 \in 0 .. 4 BY <2>2, <3>1
      <3>3. job = [j EXCEPT !.todo = left, !.pass = j.pass + 1] BY <2>2
      <3>4. QED BY <1>1, <1>2, <3>2, <3>3 DEF Desk
   <2>3. QED BY <2>1, <2>2
<1>4. Do(m, job) /\ UNCHANGED <<now, flight, classes, rows, open, mishaps>> BY DEF ListActive
<1>5. mishaps' \in Nat BY <1>4 DEF Inv, FlightDeskTypeOK
<1> HIDE DEF job
<1>6. QED BY <1>3, <1>4, <1>5, DeskStep

\* A list of reservations gets shorter.
LEMMA LessTodo ==
    ASSUME Inv, NEW m \in Managers, desk[m].at \in {"sweep", "expire"}, NEW r,
           Do(m, [desk[m] EXCEPT !.todo = @ \ {r}])
    PROVE  /\ desk' \in [Managers -> Desk]
           /\ \A n \in Managers : desk'[n].at \in {"delete", "begin"} => desk'[n] = desk[n]
           /\ [desk[m] EXCEPT !.todo = @ \ {r}] \in Desk
           /\ [desk[m] EXCEPT !.todo = @ \ {r}].at = desk[m].at
<1>1. desk \in [Managers -> Desk] BY DEF Inv, FlightDeskTypeOK
<1> DEFINE job == [desk[m] EXCEPT !.todo = @ \ {r}]
<1>2. job \in Desk /\ job.at = desk[m].at BY <1>1 DEF Desk
<1>3. Do(m, job) OBVIOUS
<1> HIDE DEF job
<1>4. \A n \in Managers : desk'[n] = IF n = m THEN job ELSE desk[n] BY <1>1, <1>3 DEF Do
<1>5. desk' \in [Managers -> Desk] BY <1>1, <1>2, <1>3 DEF Do
<1>6. \A n \in Managers : desk'[n].at \in {"delete", "begin"} => desk'[n] = desk[n]
   BY <1>2, <1>4
<1>7. QED BY <1>2, <1>5, <1>6 DEF job

\* So does the next refund.
LEMMA SweepNextInv == ASSUME Inv, NEW m \in Managers, SweepNext(m) PROVE Inv'
<1>1. PICK r \in desk[m].todo :
         /\ \/ r \in Active /\ CanRelease(r) /\ rows' = Cancelled(r)
            \/ r \notin Active /\ CanSkip(r) /\ rows' = rows
         /\ Do(m, [desk[m] EXCEPT !.todo = @ \ {r}])
   BY DEF SweepNext
<1>2. desk[m].at = "sweep" /\ UNCHANGED <<now, flight, classes, open, mishaps>> BY DEF SweepNext
<1>3. /\ desk' \in [Managers -> Desk]
      /\ \A n \in Managers : desk'[n].at \in {"delete", "begin"} => desk'[n] = desk[n]
      /\ [desk[m] EXCEPT !.todo = @ \ {r}] \in Desk
      /\ [desk[m] EXCEPT !.todo = @ \ {r}].at = "sweep"
   BY <1>1, <1>2, LessTodo
<1>4. mishaps' \in Nat BY <1>2 DEF Inv, FlightDeskTypeOK
<1>5. CASE r \in Active
   BY <1>1, <1>2, <1>3, <1>5, ReleaseStep DEF Active, CanRelease
<1>6. CASE r \notin Active
   BY <1>1, <1>2, <1>3, <1>4, <1>6, DeskStep
<1>7. QED BY <1>5, <1>6

\* So does one that fails.
LEMMA SweepFailsInv == ASSUME Inv, NEW m \in Managers, SweepFails(m) PROVE Inv'
<1>1. PICK r \in desk[m].todo :
         Do(m, [desk[m] EXCEPT !.todo = @ \ {r}, !.failed = @ \cup {r}])
   BY DEF SweepFails
<1> DEFINE job == [desk[m] EXCEPT !.todo = @ \ {r}, !.failed = @ \cup {r}]
<1>2. desk[m] \in Desk /\ desk[m].at = "sweep" BY DEF SweepFails, Inv, FlightDeskTypeOK
<1>3. r \in Refs BY <1>2 DEF Desk
<1>4. job \in Desk /\ job.at = "sweep" BY <1>2, <1>3 DEF Desk
<1>5. Do(m, job) /\ UNCHANGED <<now, flight, classes, rows, open>> /\ mishaps' \in Nat
   BY <1>1 DEF SweepFails, Inv, FlightDeskTypeOK
<1> HIDE DEF job
<1>6. QED BY <1>4, <1>5, DeskStep

\* So does the button that deletes a class.
LEMMA PressDeleteInv ==
    ASSUME Inv, NEW m \in Managers, NEW c \in Classes, PressDelete(m, c) PROVE Inv'
<1>1. PICK overdue \in SUBSET {r \in Refs : rows[r].state = "pending"} :
         Do(m, [Idle EXCEPT !.at = "expire", !.class = c, !.todo = overdue])
   BY DEF PressDelete
<1> DEFINE job == [Idle EXCEPT !.at = "expire", !.class = c, !.todo = overdue]
<1>2. job \in Desk /\ job.at = "expire"
   <2>1. overdue \in SUBSET Refs OBVIOUS
   <2>2. job.at = "expire" BY DEF Idle
   <2>3. job \in Desk BY <2>1, IdleIsADesk DEF Idle, Desk
   <2>4. QED BY <2>2, <2>3
<1>3. Do(m, job) /\ UNCHANGED <<now, flight, classes, rows, open, mishaps>> BY <1>1 DEF PressDelete
<1>4. mishaps' \in Nat BY <1>3 DEF Inv, FlightDeskTypeOK
<1> HIDE DEF job
<1>5. QED BY <1>2, <1>3, <1>4, DeskStep

\* So does the release of a hold that stands in the way.
LEMMA ReleaseNextInv == ASSUME Inv, NEW m \in Managers, ReleaseNext(m) PROVE Inv'
<1>1. PICK r \in desk[m].todo :
         /\ \/ rows[r].state = "pending" /\ CanRelease(r) /\ rows' = Cancelled(r)
            \/ rows[r].state # "pending" /\ CanSkip(r) /\ rows' = rows
         /\ Do(m, [desk[m] EXCEPT !.todo = @ \ {r}])
   BY DEF ReleaseNext
<1>2. desk[m].at = "expire" /\ UNCHANGED <<now, flight, classes, open, mishaps>> BY DEF ReleaseNext
<1>3. /\ desk' \in [Managers -> Desk]
      /\ \A n \in Managers : desk'[n].at \in {"delete", "begin"} => desk'[n] = desk[n]
      /\ [desk[m] EXCEPT !.todo = @ \ {r}] \in Desk
      /\ [desk[m] EXCEPT !.todo = @ \ {r}].at = "expire"
   BY <1>1, <1>2, LessTodo
<1>4. mishaps' \in Nat /\ r \in Refs
   <2>1. desk[m] \in Desk BY DEF Inv, FlightDeskTypeOK
   <2>2. r \in Refs BY <1>1, <2>1 DEF Desk
   <2>3. QED BY <1>2, <2>2 DEF Inv, FlightDeskTypeOK
<1>5. CASE rows[r].state = "pending"
   BY <1>1, <1>2, <1>3, <1>4, <1>5, ReleaseStep DEF CanRelease
<1>6. CASE rows[r].state # "pending"
   BY <1>1, <1>2, <1>3, <1>4, <1>6, DeskStep
<1>7. QED BY <1>5, <1>6

\* The count under the lock of the class finds nothing in the way.
LEMMA CountForDeleteInv == ASSUME Inv, NEW m \in Managers, CountForDelete(m) PROVE Inv'
<1> USE IdleIsADesk, RowIsWritten, DeskAssumption
<1> DEFINE c == desk[m].class
           job == [Idle EXCEPT !.at = "delete", !.class = c]
<1>1. UNCHANGED <<now, flight, classes, rows, open, mishaps>> /\ ClassIsFree(c)
   BY DEF CountForDelete
<1>2. mishaps' \in Nat BY <1>1 DEF Inv, FlightDeskTypeOK
<1>3. CASE ~(c \in classes /\ InTheWay(c) = {})
   <2>1. Do(m, Idle) BY <1>3 DEF CountForDelete
   <2>2. QED BY <1>1, <1>2, <2>1, DeskStep
<1>4. CASE c \in classes /\ InTheWay(c) = {}
   <2>1. Do(m, job) BY <1>4 DEF CountForDelete
   <2>2. c \in Classes /\ desk \in [Managers -> Desk] BY <1>4 DEF Inv, FlightDeskTypeOK
   <2>3. job \in Desk /\ job.at = "delete" /\ job.class = c BY <2>2 DEF Idle, Desk
   <2>4. \A r \in Refs : rows[r].class = c => rows[r].state = "cancelled" /\ ~rows[r].paid
      BY <1>4, <2>2 DEF InTheWay, RowsOf, Active, Written, Inv, FlightDeskTypeOK, Row
   <2>5. /\ \A r \in Refs : open[r] # c
         /\ \A n \in Managers : desk[n].at = "delete" => desk[n].class # c
      BY <1>1 DEF ClassIsFree
   <2>6. PICK k \in Classes : k = c BY <2>2
   <2> HIDE DEF job, c
   <2>7. /\ desk' \in [Managers -> Desk]
         /\ \A n \in Managers : desk'[n] = IF n = m THEN job ELSE desk[n]
      BY <2>1, <2>2, <2>3 DEF Do
   <2>8. DeletesAreClear'
      BY <1>1, <2>3, <2>4, <2>5, <2>6, <2>7 DEF Inv, DeletesAreClear
   <2>9. FlightDeskTypeOK' /\ OpenFitsRows' /\ FlightIsThere'
      BY <1>1, <2>3, <2>7 DEF Inv, FlightDeskTypeOK, Written, OpenFitsRows, FlightIsThere
   <2>10. QED BY <2>8, <2>9 DEF Inv
<1>5. QED BY <1>3, <1>4

\* The deletion takes only what the count has let it.
LEMMA DeleteClassInv == ASSUME Inv, NEW m \in Managers, DeleteClass(m) PROVE Inv'
<1> USE IdleIsADesk, RowIsWritten, DeskAssumption DEF Inv
<1>1. PICK c \in Classes : c = desk[m].class BY DEF DeleteClass, DeletesAreClear
<1>2. /\ desk[m].at = "delete"
      /\ \A r \in RowsOf(c) : open[r] = None
      /\ rows' = [r \in Refs |-> IF r \in RowsOf(c) THEN NoRow ELSE rows[r]]
      /\ classes' = classes \ {c}
      /\ Do(m, Idle)
      /\ UNCHANGED <<now, flight, open, mishaps>>
   BY <1>1 DEF DeleteClass
<1>3. /\ desk' \in [Managers -> Desk]
      /\ \A n \in Managers : desk'[n] = IF n = m THEN Idle ELSE desk[n]
   BY <1>2 DEF Do, FlightDeskTypeOK
<1>4. \A r \in Refs : open[r] # c BY <1>1, <1>2, DeleteFacts
<1>5. \A r \in Refs : rows'[r] # NoRow => rows'[r] = rows[r] /\ rows[r].class # c
   BY <1>2 DEF RowsOf, Written
<1>6. FlightDeskTypeOK'
   <2>1. rows' \in [Refs -> Row \cup {NoRow}] BY <1>2 DEF FlightDeskTypeOK
   <2>2. \A r \in Refs : rows'[r] # NoRow => rows'[r].class \in classes'
      BY <1>2, <1>5 DEF FlightDeskTypeOK, Written
   <2>3. open \in [Refs -> classes' \cup {Paying, None}] BY <1>2, <1>4 DEF FlightDeskTypeOK
   <2>4. QED BY <1>2, <1>3, <2>1, <2>2, <2>3 DEF FlightDeskTypeOK, Written
<1>7. OpenFitsRows'
   <2> SUFFICES ASSUME NEW r \in Refs
                PROVE  /\ open[r] \in Classes => rows'[r] = NoRow
                       /\ open[r] = Paying => rows'[r].state = "pending"
      BY <1>2 DEF OpenFitsRows
   <2>1. CASE r \in RowsOf(c) BY <1>2, <2>1
   <2>2. CASE r \notin RowsOf(c) BY <1>2, <2>2 DEF OpenFitsRows
   <2>3. QED BY <2>1, <2>2
<1>8. DeletesAreClear'
   <2> SUFFICES ASSUME NEW n \in Managers, desk'[n].at = "delete"
                PROVE  /\ desk'[n].class \in Classes
                       /\ \A r \in Refs : /\ open'[r] # desk'[n].class
                                          /\ rows'[r].class = desk'[n].class =>
                                               rows'[r].state = "cancelled" /\ ~rows'[r].paid
                       /\ \A k \in Managers : desk'[k].at = "delete" /\ desk'[k].class = desk'[n].class => k = n
      BY DEF DeletesAreClear
   <2>1. desk'[n] = desk[n] /\ n # m BY <1>3
   <2>2. desk[n].class \in Classes BY <2>1 DEF DeletesAreClear
   <2>3. \A r \in Refs : rows'[r].class = desk[n].class => rows'[r] = rows[r]
      BY <1>5, <2>2
   <2>4. \A k \in Managers : desk'[k].at = "delete" => desk'[k] = desk[k] BY <1>3
   <2>5. /\ \A r \in Refs : open[r] # desk[n].class
         /\ \A r \in Refs : rows[r].class = desk[n].class =>
                              rows[r].state = "cancelled" /\ ~rows[r].paid
         /\ \A k \in Managers : k # n /\ desk[k].at = "delete" => desk[k].class # desk[n].class
      BY <2>1, DeleteFacts
   <2>6. QED BY <1>2, <2>1, <2>2, <2>3, <2>4, <2>5
<1>9. FlightIsThere' BY <1>2, <1>3 DEF FlightIsThere
<1>10. QED BY <1>6, <1>7, <1>8, <1>9

\* A manager's request may die at any time.
LEMMA CrashInv == ASSUME Inv, NEW m \in Managers, Crash(m) PROVE Inv'
BY IdleIsADesk, DeskStep DEF Crash, Inv, FlightDeskTypeOK

-----------------------------------------------------------------------------
(* Customers and the clock.                                                *)

\* Only the customer's own transaction changes.
LEMMA OpenStep ==
    ASSUME Inv, NEW r \in Refs, NEW t \in classes \cup {Paying, None},
           open' = [open EXCEPT ![r] = t],
           t \in Classes => rows[r] = NoRow /\ ClassIsFree(t),
           t = Paying => rows[r].state = "pending",
           UNCHANGED <<now, flight, classes, rows, desk, mishaps>>
    PROVE  Inv'
<1> USE DeskAssumption DEF Inv
<1>1. \A q \in Refs : open'[q] = IF q = r THEN t ELSE open[q] BY DEF FlightDeskTypeOK
<1>2. FlightDeskTypeOK' BY DEF FlightDeskTypeOK, Written
<1>3. OpenFitsRows' BY <1>1 DEF OpenFitsRows
<1>4. DeletesAreClear'
   <2>1. \A m \in Managers : desk[m].at = "delete" => t # desk[m].class
      BY DeleteFacts DEF ClassIsFree
   <2>2. QED BY <1>1, <2>1 DEF DeletesAreClear
<1>5. FlightIsThere' BY DEF FlightIsThere
<1>6. QED BY <1>2, <1>3, <1>4, <1>5

\* A booking begins for a class that is there.
LEMMA BeginHoldInv ==
    ASSUME Inv, NEW r \in Refs, NEW c \in Classes, BeginHold(r, c) PROVE Inv'
BY OpenStep, DeskAssumption DEF BeginHold

\* A payment begins for a row that is pending.
LEMMA BeginPayInv == ASSUME Inv, NEW r \in Refs, BeginPay(r) PROVE Inv'
BY OpenStep, DeskAssumption DEF BeginPay

\* What is rolled back leaves no trace.
LEMMA RollbackInv == ASSUME Inv, NEW r \in Refs, Rollback(r) PROVE Inv'
BY OpenStep, DeskAssumption DEF Rollback

\* The customer's transaction commits a row for a class of the flight.
LEMMA RowStep ==
    ASSUME Inv, NEW r \in Refs, NEW row \in Row, open[r] # None,
           row.class \in classes, row.state # "cancelled",
           \A m \in Managers : desk[m].at = "delete" => desk[m].class # row.class,
           rows' = [rows EXCEPT ![r] = row], open' = [open EXCEPT ![r] = None],
           UNCHANGED <<now, flight, classes, desk, mishaps>>
    PROVE  Inv'
<1> USE DeskAssumption, RowIsWritten DEF Inv
<1>1. \A q \in Refs : /\ open'[q] = IF q = r THEN None ELSE open[q]
                      /\ rows'[q] = IF q = r THEN row ELSE rows[q]
   BY DEF FlightDeskTypeOK
<1>2. FlightDeskTypeOK'
   <2>1. rows' \in [Refs -> Row \cup {NoRow}] /\ open' \in [Refs -> classes \cup {Paying, None}]
      BY DEF FlightDeskTypeOK
   <2>2. \A q \in Refs : rows'[q] # NoRow => rows'[q].class \in classes
      BY <1>1 DEF FlightDeskTypeOK, Written
   <2>3. QED BY <2>1, <2>2 DEF FlightDeskTypeOK, Written
<1>3. OpenFitsRows' BY <1>1 DEF OpenFitsRows
<1>4. DeletesAreClear' BY <1>1 DEF DeletesAreClear
<1>5. FlightIsThere' BY DEF FlightIsThere
<1>6. QED BY <1>2, <1>3, <1>4, <1>5

\* The hold refers to a class that is there.
LEMMA CommitHoldInv == ASSUME Inv, NEW r \in Refs, CommitHold(r) PROVE Inv'
<1> USE DeskAssumption DEF Inv
<1> DEFINE row == [state |-> "pending", class |-> open[r], paid |-> FALSE]
<1>1. /\ open[r] \in Classes /\ rows' = [rows EXCEPT ![r] = row]
      /\ open' = [open EXCEPT ![r] = None] /\ UNCHANGED <<now, flight, classes, desk, mishaps>>
   BY DEF CommitHold
<1>2. row \in Row /\ row.class \in classes /\ row.class = open[r] /\ row.state # "cancelled"
   BY <1>1 DEF FlightDeskTypeOK, Row
<1>3. \A m \in Managers : desk[m].at = "delete" => desk[m].class # open[r] BY DeleteFacts
<1> HIDE DEF row
<1>4. QED BY <1>1, <1>2, <1>3, RowStep

\* The payment finds its row.
LEMMA CommitPayInv == ASSUME Inv, NEW r \in Refs, CommitPay(r) PROVE Inv'
<1> USE DeskAssumption, RowIsWritten DEF Inv
<1> DEFINE row == [rows[r] EXCEPT !.state = "reserved", !.paid = TRUE]
<1>1. rows[r].state = "pending" BY DEF CommitPay, OpenFitsRows
<1>2. rows[r] \in Row /\ rows[r].class \in classes BY <1>1 DEF FlightDeskTypeOK, Written
<1>3. row \in Row /\ row.class = rows[r].class /\ row.state = "reserved" BY <1>2 DEF Row
<1>4. /\ rows' = [rows EXCEPT ![r] = row] /\ open[r] # None
      /\ open' = [open EXCEPT ![r] = None] /\ UNCHANGED <<now, flight, classes, desk, mishaps>>
   BY <1>2 DEF CommitPay, FlightDeskTypeOK, Row
<1>5. \A m \in Managers : desk[m].at = "delete" => desk[m].class # rows[r].class
   BY <1>1, DeleteFacts
<1> HIDE DEF row
<1>6. QED BY <1>2, <1>3, <1>4, <1>5, RowStep

\* A release keeps what was paid.
LEMMA ReleaseInv == ASSUME Inv, NEW r \in Refs, Release(r) PROVE Inv'
BY ReleaseStep DEF Release, CanRelease, Inv, FlightDeskTypeOK

\* The status sync leaves cancelled flights alone.
LEMMA SyncInv == ASSUME Inv, SyncActive \/ SyncCompleted PROVE Inv'
<1>1. flight # NoFlight BY FlightForms DEF SyncActive, SyncCompleted, HasArrived
<1>2. PICK status \in Statuses : SetStatus(status)
   BY DEF SyncActive, SyncCompleted, Statuses
<1>3. QED BY <1>1, <1>2, StatusStep DEF SetStatus, Inv, FlightDeskTypeOK

\* What changes nothing keeps the invariant.
LEMMA QuietInv ==
    ASSUME Inv, now' \in Nat, UNCHANGED <<flight, classes, rows, open, desk, mishaps>> PROVE Inv'
BY DEF Inv, FlightDeskTypeOK, Written, OpenFitsRows, DeletesAreClear, FlightIsThere

\* Every step keeps it.
LEMMA NextInv == Inv /\ [Next]_vars => Inv'
<1> SUFFICES ASSUME Inv, [Next]_vars PROVE Inv' OBVIOUS
<1>1. CASE \E m \in Managers : CreateFlight(m) \/ EditFlight(m) \/ PressCancel(m)
   BY <1>1, CreateInv, EditInv, PressCancelInv
<1>2. CASE \E m \in Managers, c \in Classes : PressDelete(m, c)
   BY <1>2, PressDeleteInv
<1>3. CASE \E m \in Managers : BeginCancel(m) \/ ListActive(m) \/ SweepNext(m)
   BY <1>3, BeginCancelInv, ListActiveInv, SweepNextInv
<1>4. CASE \E m \in Managers : ReleaseNext(m) \/ CountForDelete(m) \/ DeleteClass(m)
   BY <1>4, ReleaseNextInv, CountForDeleteInv, DeleteClassInv
<1>5. CASE \E m \in Managers : SweepFails(m) \/ Crash(m)
   BY <1>5, SweepFailsInv, CrashInv
<1>6. CASE \E r \in Refs, c \in Classes : BeginHold(r, c) BY <1>6, BeginHoldInv
<1>7. CASE \E r \in Refs : CommitHold(r) \/ BeginPay(r) \/ CommitPay(r)
   BY <1>7, CommitHoldInv, BeginPayInv, CommitPayInv
<1>8. CASE \E r \in Refs : Rollback(r) \/ Release(r) BY <1>8, RollbackInv, ReleaseInv
<1>9. CASE SyncActive \/ SyncCompleted BY <1>9, SyncInv
<1>10. CASE Tick
   BY <1>10, QuietInv DEF Tick, Inv, FlightDeskTypeOK
<1>11. CASE UNCHANGED vars BY <1>11, QuietInv DEF vars, Inv, FlightDeskTypeOK
<1>12. QED
   BY <1>1, <1>2, <1>3, <1>4, <1>5, <1>6, <1>7, <1>8, <1>9, <1>10, <1>11 DEF Next, Continue

-----------------------------------------------------------------------------

\* Classes are deleted only when nothing refers to them, for every instance of FlightDesk:
\* the invariant the properties rest on.
THEOREM InvHolds == Spec => []Inv
<1>1. QED BY InitInv, NextInv, PTL DEF Spec

\* Every reservation, and every booking under way, refers to a class of the flight.
THEOREM Typed == Spec => []FlightDeskTypeOK
<1>1. Inv => FlightDeskTypeOK BY DEF Inv
<1>2. QED BY <1>1, InvHolds, PTL

\* Whatever managers do, a reservation that was ever paid stays in the books.
THEOREM PaidStay == Spec => PaidRowsStay
<1> DEFINE Stays(r) == rows[r].paid => rows'[r].paid /\ rows'[r].class = rows[r].class
<1>1. Inv /\ [Next]_vars => \A r \in Refs : Stays(r)
   <2> SUFFICES ASSUME Inv, [Next]_vars, NEW r \in Refs, rows[r].paid
                PROVE  rows'[r].paid /\ rows'[r].class = rows[r].class
      OBVIOUS
   <2> USE RowIsWritten
   <2>1. rows[r] \in Row /\ rows \in [Refs -> Row \cup {NoRow}] BY DEF Inv, FlightDeskTypeOK
   <2>2. CASE UNCHANGED rows BY <2>2
   <2>3. CASE \E q \in Refs : rows' = Cancelled(q)
      BY <2>1, <2>3 DEF Cancelled, Row
   <2>4. CASE \E q \in Refs : CommitHold(q)
      <3>1. PICK q \in Refs : CommitHold(q) BY <2>4
      <3>2. q # r BY <2>1, <3>1 DEF CommitHold, Inv, OpenFitsRows
      <3>3. QED BY <2>1, <3>1, <3>2 DEF CommitHold
   <2>5. CASE \E q \in Refs : CommitPay(q)
      BY <2>1, <2>5 DEF CommitPay, Row
   <2>6. CASE \E m \in Managers : DeleteClass(m)
      <3>1. PICK m \in Managers : DeleteClass(m) BY <2>6
      <3>2. rows[r].class # desk[m].class BY <3>1, DeleteFacts DEF DeleteClass, Inv
      <3>3. QED BY <3>1, <3>2 DEF DeleteClass, RowsOf
   <2>7. CASE \E m \in Managers : SweepNext(m) \/ ReleaseNext(m)
      <3>1. PICK m \in Managers : SweepNext(m) \/ ReleaseNext(m) BY <2>7
      <3>2. desk[m].todo \subseteq Refs BY DEF Inv, FlightDeskTypeOK, Desk
      <3>3. rows' = rows \/ \E q \in Refs : rows' = Cancelled(q)
         BY <3>1, <3>2 DEF SweepNext, ReleaseNext
      <3>4. QED BY <2>2, <2>3, <3>3
   <2>8. CASE \E q \in Refs : Release(q) BY <2>3, <2>8 DEF Release
   <2>9. QED
      BY <2>2, <2>4, <2>5, <2>6, <2>7, <2>8
      DEF Next, Continue, vars, CreateFlight, EditFlight, PressCancel, PressDelete, BeginCancel,
          ListActive, CountForDelete, SweepFails, Crash, BeginHold, BeginPay, Rollback,
          SyncActive, SyncCompleted, SetStatus, Tick
<1>2. QED BY <1>1, InvHolds, PTL DEF Spec, PaidRowsStay, Stays

\* A cancelled flight that has, or is about to get, a reservation stays cancelled.
THEOREM StaysCancelled == Spec => NotReopened
<1> DEFINE Stays ==
        flight.status = "cancelled" /\ (Written # {} \/ \E r \in Refs : open[r] \in Classes)
            => flight'.status = "cancelled"
<1>1. Inv /\ [Next]_vars => Stays
   <2> SUFFICES ASSUME Inv, [Next]_vars, flight.status = "cancelled",
                       Written # {} \/ \E r \in Refs : open[r] \in Classes
                PROVE  flight'.status = "cancelled"
      OBVIOUS
   <2> USE FlightForms
   <2>1. CASE UNCHANGED flight BY <2>1
   <2>2. CASE \E m \in Managers : EditFlight(m)
      <3>1. PICK m \in Managers : EditFlight(m) BY <2>2
      <3>2. PICK posted \in Posted : ~Reopens(posted) /\ flight' = posted BY <3>1 DEF EditFlight
      <3>3. \A r \in Refs : open[r] \notin classes BY <3>1 DEF EditFlight, ClassIsFree
      <3>4. \A r \in Refs : open[r] \notin Classes
         BY <3>3, DeskAssumption DEF Inv, FlightDeskTypeOK
      <3>5. QED BY <3>2, <3>4 DEF Reopens
   <2>3. CASE \E m \in Managers : BeginCancel(m)
      BY <2>3 DEF BeginCancel, Inv, FlightDeskTypeOK, Posted
   <2>4. CASE \E m \in Managers : CreateFlight(m) BY <2>4 DEF CreateFlight
   <2>5. CASE SyncActive \/ SyncCompleted BY <2>5 DEF SyncActive, SyncCompleted, HasArrived
   <2>6. QED
      BY <2>1, <2>2, <2>3, <2>4, <2>5
      DEF Next, Continue, vars, PressCancel, PressDelete, ListActive, SweepNext, SweepFails,
          ReleaseNext, CountForDelete, DeleteClass, Crash, BeginHold, CommitHold, BeginPay,
          CommitPay, Rollback, Release, Tick
<1>2. QED BY <1>1, InvHolds, PTL DEF Spec, NotReopened, Stays
=============================================================================
