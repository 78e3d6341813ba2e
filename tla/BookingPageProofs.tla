-------------------------- MODULE BookingPageProofs --------------------------
(***************************************************************************)
(* What holds of the pages for any number of tabs, reservations, seats and *)
(* passengers.  All steps but those of the passenger form leave the forms  *)
(* that are being saved alone, and change only reservations that no form   *)
(* has locked (Calm); the form's own two steps are looked at one by one.   *)
(* Then: what a page shows is true, and has_adjacent_block is right.       *)
(***************************************************************************)
EXTENDS BookingPages, SequenceTheorems, FiniteSetTheorems, WellFoundedInduction, TLAPS

Record == [status : {"none", "pending", "reserved", "cancelled"}, count : 0 .. MaxSeats,
           deadline : 0 .. MaxTime + PayWindow, rows : Seq(Ids)]

Form == [ref : Refs \cup {None}, rows : Seq(Ids)]

Typing ==
    /\ now \in 0 .. MaxTime /\ cancelled \in BOOLEAN
    /\ holder \in [Seats -> Refs \cup {Others, None}]
    /\ res \in [Refs -> Record] /\ saving \in [Tabs -> Form] /\ tab \in [Tabs -> Page]

\* A page about a reservation names one that exists; a seat map asks for seats.
Fits(t) ==
    /\ tab[t].at \in {"passengers", "payment", "detail"} =>
         tab[t].ref \in Refs /\ res[tab[t].ref].status # "none"
    /\ tab[t].at = "seats" => tab[t].count > 0

\* The passengers of one reservation.
RowsOK(r) ==
    /\ res[r].status # "none" => res[r].count > 0
    /\ res[r].rows # <<>> => Len(res[r].rows) = res[r].count /\ IsInjective(res[r].rows)
    /\ res[r].status = "reserved" => res[r].rows # <<>>

\* A form that is being saved: its reservation is active, and what it adds or
\* writes over is what it found when it took the lock.
FormOK(t) ==
    saving[t] # NotSaving =>
        /\ ~tab[t].asked /\ tab[t].at = "passengers" /\ saving[t].ref = tab[t].ref
        /\ saving[t].ref \in Refs
        /\ res[saving[t].ref].status \in {"pending", "reserved"}
        /\ Len(saving[t].rows) = res[saving[t].ref].count
        /\ IsInjective(saving[t].rows)
        /\ tab[t].entered = 0 => res[saving[t].ref].rows = <<>>

OneSaver ==
    \A t, u \in Tabs : saving[t].ref # None /\ saving[t].ref = saving[u].ref => t = u

Inv ==
    /\ Typing
    /\ \A t \in Tabs : Fits(t) /\ FormOK(t)
    /\ \A r \in Refs : RowsOK(r)
    /\ OneSaver

\* What a step that is not about the passenger form does.
Calm ==
    /\ Typing'
    /\ saving' = saving
    /\ \A r \in Refs : res'[r] # res[r] =>
         /\ RowsOK(r)' /\ CanLock(r)
         /\ res[r].status # "cancelled" /\ res'[r].status # "none"
    /\ \A t \in Tabs : tab'[t] # tab[t] => saving[t] = NotSaving /\ Fits(t)'

USE KeysAssumption, SettingsAssumption

-----------------------------------------------------------------------------
\* A calm step keeps the invariant.
LEMMA CalmKeepsInv == Inv /\ Calm => Inv'
<1> SUFFICES ASSUME Inv, Calm PROVE Inv'
  OBVIOUS
<1>1. Typing'
  BY DEF Calm
<1>2. ASSUME NEW r \in Refs PROVE RowsOK(r)'
  <2>1. CASE res'[r] = res[r]
    BY <2>1 DEF Inv, RowsOK
  <2>2. CASE res'[r] # res[r]
    BY <2>2 DEF Calm
  <2> QED BY <2>1, <2>2
<1>3. ASSUME NEW t \in Tabs PROVE Fits(t)'
  <2>1. CASE tab'[t] = tab[t]
    BY <2>1 DEF Inv, Calm, Fits
  <2>2. CASE tab'[t] # tab[t]
    BY <2>2 DEF Calm
  <2> QED BY <2>1, <2>2
<1>4. ASSUME NEW t \in Tabs PROVE FormOK(t)'
  <2> SUFFICES ASSUME saving[t] # NotSaving PROVE FormOK(t)'
    BY DEF FormOK, Calm
  <2>1. tab'[t] = tab[t] /\ saving'[t] = saving[t] /\ FormOK(t)
    BY DEF Calm, Inv
  <2>2. saving[t].ref \in Refs
    BY <2>1 DEF FormOK
  <2>3. ~CanLock(saving[t].ref)
    BY DEF CanLock
  <2>4. res'[saving[t].ref] = res[saving[t].ref]
    BY <2>2, <2>3 DEF Calm
  <2> QED BY <2>1, <2>2, <2>4 DEF FormOK
<1>5. OneSaver'
  BY DEF Inv, Calm, OneSaver
<1> QED BY <1>1, <1>2, <1>3, <1>4, <1>5 DEF Inv

\* A tab that waits for a page or shows one without a form under way.
LEMMA AskedIsNotSaving ==
    ASSUME Inv, NEW t \in Tabs, tab[t].asked
    PROVE saving[t] = NotSaving
BY DEF Inv, FormOK

\* The pages users are sent to.
LEMMA AskedPages ==
    /\ FlightPage \in Page /\ FlightPage.at = "flight"
    /\ \A at \in {"create", "list"} : Ask(at) \in Page /\ Ask(at).at = at
    /\ \A at \in {"passengers", "payment", "detail"}, r \in Refs :
         AskFor(at, r) \in Page /\ AskFor(at, r).at = at /\ AskFor(at, r).ref = r
    /\ \A n \in Nat : SeatMap(n) \in Page /\ SeatMap(n).at = "seats" /\ SeatMap(n).count > 0
<1>1. FlightPage \in Page /\ FlightPage.at = "flight"
  BY DEF Page, FlightPage
<1>2. ASSUME NEW at \in {"create", "list"} PROVE Ask(at) \in Page /\ Ask(at).at = at
  BY DEF Page, Ask, Request
<1>3. ASSUME NEW at \in {"passengers", "payment", "detail"}, NEW r \in Refs
      PROVE AskFor(at, r) \in Page /\ AskFor(at, r).at = at /\ AskFor(at, r).ref = r
  BY DEF Page, AskFor, Request
<1>4. ASSUME NEW n \in Nat
      PROVE SeatMap(n) \in Page /\ SeatMap(n).at = "seats" /\ SeatMap(n).count > 0
  <2>1. Clamped(n) \in 1 .. MaxSeats
    BY DEF Clamped
  <2> QED BY <2>1 DEF Page, SeatMap, Request
<1> QED BY <1>1, <1>2, <1>3, <1>4

\* Showing a page that fits, and nothing else, is calm.
LEMMA ShowIsCalm ==
    ASSUME Inv, NEW t \in Tabs, NEW page \in Page, saving[t] = NotSaving,
           Show(t, page), UNCHANGED <<world, res, saving>>,
           page.at \in {"passengers", "payment", "detail"} =>
             page.ref \in Refs /\ res[page.ref].status # "none",
           page.at = "seats" => page.count > 0
    PROVE Calm
<1>1. Typing'
  BY DEF Inv, Typing, Show, world
<1>2. ASSUME NEW u \in Tabs, tab'[u] # tab[u] PROVE saving[u] = NotSaving /\ Fits(u)'
  <2>1. u = t /\ tab'[t] = page
    BY <1>2 DEF Show, Inv, Typing
  <2> QED BY <2>1 DEF Fits
<1> QED BY <1>1, <1>2 DEF Calm

\* What an update of a reservation's status or passengers leaves.
LEMMA FieldsKept ==
    ASSUME NEW T, NEW N, NEW D, NEW Q,
           NEW x \in [status : T, count : N, deadline : D, rows : Q], NEW s \in T, NEW q \in Q
    PROVE /\ [x EXCEPT !.status = s] \in [status : T, count : N, deadline : D, rows : Q]
          /\ [x EXCEPT !.status = s].status = s
          /\ [x EXCEPT !.status = s].count = x.count
          /\ [x EXCEPT !.status = s].rows = x.rows
          /\ [x EXCEPT !.rows = q] \in [status : T, count : N, deadline : D, rows : Q]
          /\ [x EXCEPT !.rows = q].status = x.status
          /\ [x EXCEPT !.rows = q].count = x.count
          /\ [x EXCEPT !.rows = q].rows = q
OBVIOUS

\* A reservation that changes its status only.
LEMMA StatusKept ==
    ASSUME NEW x \in Record, NEW s \in {"none", "pending", "reserved", "cancelled"}
    PROVE /\ [x EXCEPT !.status = s] \in Record /\ [x EXCEPT !.status = s].status = s
          /\ [x EXCEPT !.status = s].count = x.count /\ [x EXCEPT !.status = s].rows = x.rows
<1>1. x.rows \in Seq(Ids)
  BY DEF Record
<1> QED BY <1>1, FieldsKept, Zenon DEF Record

\* A reservation that changes its passengers only.
LEMMA RowsKept ==
    ASSUME NEW x \in Record, NEW q \in Seq(Ids)
    PROVE /\ [x EXCEPT !.rows = q] \in Record /\ [x EXCEPT !.rows = q].rows = q
          /\ [x EXCEPT !.rows = q].status = x.status /\ [x EXCEPT !.rows = q].count = x.count
<1>1. x.status \in {"none", "pending", "reserved", "cancelled"}
  BY DEF Record
<1> QED BY <1>1, FieldsKept, Zenon DEF Record

\* Giving back reservations that are active and not locked is calm, whatever page
\* that fits is shown.
LEMMA ReleaseIsCalm ==
    ASSUME Inv, NEW R \in SUBSET Refs, Release(R),
           \A r \in R : res[r].status \in {"pending", "reserved"} /\ CanLock(r),
           UNCHANGED <<now, cancelled, saving>>,
           tab' \in [Tabs -> Page],
           \A t \in Tabs : tab'[t] # tab[t] => saving[t] = NotSaving /\ Fits(t)'
    PROVE Calm
<1>1. Typing'
  <2>1. res' \in [Refs -> Record]
    <3>1. ASSUME NEW r \in Refs PROVE [res[r] EXCEPT !.status = "cancelled"] \in Record
      <4>1. res[r] \in Record
        BY DEF Inv, Typing
      <4>2. [res[r] EXCEPT !.status = "cancelled"] =
            [status |-> "cancelled", count |-> res[r].count, deadline |-> res[r].deadline,
             rows |-> res[r].rows]
        BY <4>1 DEF Record
      <4> QED BY <4>1, <4>2 DEF Record
    <3> QED BY <3>1 DEF Inv, Typing, Release
  <2>2. holder' \in [Seats -> Refs \cup {Others, None}]
    BY DEF Inv, Typing, Release
  <2> QED BY <2>1, <2>2 DEF Inv, Typing
<1>2. ASSUME NEW r \in Refs, res'[r] # res[r]
      PROVE /\ RowsOK(r)' /\ CanLock(r)
            /\ res[r].status # "cancelled" /\ res'[r].status # "none"
  <2>1. r \in R /\ res'[r] = [res[r] EXCEPT !.status = "cancelled"]
    BY <1>2 DEF Release
  <2>2. res[r] \in Record /\ RowsOK(r) /\ res[r].status \in {"pending", "reserved"}
    BY <2>1 DEF Inv, Typing
  <2>3. /\ res'[r].status = "cancelled" /\ res'[r].count = res[r].count
        /\ res'[r].rows = res[r].rows
    BY <2>1, <2>2 DEF Record
  <2> QED BY <2>1, <2>2, <2>3 DEF RowsOK
<1> QED BY <1>1, <1>2 DEF Calm

-----------------------------------------------------------------------------
(* The steps that are not about the passenger form.                        *)

\* There are no reservations in the beginning.
LEMMA InitHolds == Init => Inv
<1> SUFFICES ASSUME Init PROVE Inv
  OBVIOUS
<1>1. Absent \in Record /\ NotSaving \in Form
  BY DEF Absent, Record, NotSaving, Form
<1>2. Typing
  <2>4. 0 \in 0 .. MaxTime
    OBVIOUS
  <2>1. now \in 0 .. MaxTime /\ cancelled \in BOOLEAN
    <3>1. now = 0 /\ cancelled = FALSE
      BY DEF Init
    <3> QED BY <2>4, <3>1
  <2>3. holder \in [Seats -> Refs \cup {Others, None}]
    BY DEF Init
  <2>2. res \in [Refs -> Record] /\ saving \in [Tabs -> Form] /\ tab \in [Tabs -> Page]
    BY <1>1, AskedPages DEF Init
  <2> QED BY <2>1, <2>2, <2>3 DEF Typing
<1>3. \A t \in Tabs : Fits(t) /\ FormOK(t)
  BY AskedPages DEF Init, Fits, FormOK
<1>4. \A r \in Refs : RowsOK(r)
  BY DEF Init, RowsOK, Absent
<1>5. OneSaver
  BY DEF Init, OneSaver, NotSaving
<1> QED BY <1>2, <1>3, <1>4, <1>5 DEF Inv

\* To ask for a page changes nothing but the tab.
LEMMA VisitIsCalm == ASSUME Inv, NEW t \in Tabs, Visit(t) PROVE Calm
<1>1. saving[t] = NotSaving /\ UNCHANGED <<world, res, saving>>
  BY DEF Visit, Idle
<1>2. CASE \E at \in {"create", "list"} : Show(t, Ask(at))
  BY <1>1, <1>2, AskedPages, ShowIsCalm
<1>3. CASE \E n \in 0 .. MaxSeats + 1 : Show(t, SeatMap(n))
  BY <1>1, <1>3, AskedPages, ShowIsCalm
<1>4. CASE \E at \in {"detail", "passengers", "payment"}, r \in Refs :
             res[r].status # "none" /\ Show(t, AskFor(at, r))
  BY <1>1, <1>4, AskedPages, ShowIsCalm
<1> QED BY <1>2, <1>3, <1>4 DEF Visit

\* The page that was asked for comes as it was, with what is filled in.
LEMMA PageFields ==
    ASSUME NEW x \in Page
    PROVE /\ [x EXCEPT !.asked = FALSE] \in Page
          /\ \A n \in 0 .. MaxSeats : [x EXCEPT !.entered = n] \in Page
          /\ \A b \in BOOLEAN : [x EXCEPT !.offered = b] \in Page
<1>1. ASSUME NEW b \in BOOLEAN PROVE [x EXCEPT !.asked = b] \in Page
  <2>1. [x EXCEPT !.asked = b] = [at |-> x.at, ref |-> x.ref, count |-> x.count,
                                  entered |-> x.entered, offered |-> x.offered, asked |-> b]
    BY DEF Page
  <2> QED BY <2>1 DEF Page
<1>2. ASSUME NEW n \in 0 .. MaxSeats PROVE [x EXCEPT !.entered = n] \in Page
  <2>1. [x EXCEPT !.entered = n] = [at |-> x.at, ref |-> x.ref, count |-> x.count,
                                    entered |-> n, offered |-> x.offered, asked |-> x.asked]
    BY DEF Page
  <2> QED BY <2>1 DEF Page
<1>3. ASSUME NEW b \in BOOLEAN PROVE [x EXCEPT !.offered = b] \in Page
  <2>1. [x EXCEPT !.offered = b] = [at |-> x.at, ref |-> x.ref, count |-> x.count,
                                    entered |-> x.entered, offered |-> b, asked |-> x.asked]
    BY DEF Page
  <2> QED BY <2>1 DEF Page
<1> QED BY <1>1, <1>2, <1>3

\* The first page of a booking is calm.
LEMMA CreateIsCalm ==
    ASSUME Inv, NEW t \in Tabs, GetCreate(t) \/ \E n \in 1 .. MaxSeats : PostCreate(t, n)
    PROVE Calm
<1>1. saving[t] = NotSaving /\ UNCHANGED <<world, res, saving>>
  <2>1. CASE GetCreate(t)
    BY <2>1, AskedIsNotSaving DEF GetCreate, Asks
  <2>2. CASE \E n \in 1 .. MaxSeats : PostCreate(t, n)
    <3>1. PICK n \in 1 .. MaxSeats : PostCreate(t, n)
      BY <2>2
    <3> QED BY <3>1 DEF PostCreate, Shows, Idle
  <2> QED BY <2>1, <2>2
<1>2. CASE \E page \in BlockedTo : Show(t, page)
  <2>1. PICK page \in BlockedTo : Show(t, page)
    BY <1>2
  <2>2. page = FlightPage \/ page = Ask("list")
    BY DEF BlockedTo
  <2>3. page \in Page /\ page.at \in {"flight", "list"}
    BY <2>2, AskedPages
  <2> QED BY <1>1, <2>1, <2>3, ShowIsCalm
<1>3. CASE GetCreate(t) /\ Shown(t)
  <2>1. tab[t].at = "create" /\ tab[t] \in Page
    BY <1>3 DEF GetCreate, Asks, Inv, Typing
  <2> DEFINE page == [tab[t] EXCEPT !.asked = FALSE]
  <2>2. page \in Page
    BY <2>1, PageFields
  <2>3. page.at = "create"
    BY <2>1 DEF Page
  <2>4. Show(t, page)
    BY <1>3 DEF Shown
  <2> HIDE DEF page
  <2> QED BY <1>1, <2>2, <2>3, <2>4, ShowIsCalm
<1>4. CASE \E n \in 1 .. MaxSeats : Show(t, SeatMap(n))
  BY <1>1, <1>4, AskedPages, ShowIsCalm
<1> QED BY <1>2, <1>3, <1>4 DEF GetCreate, PostCreate

\* So is the seat map.
LEMMA GetSeatsIsCalm == ASSUME Inv, NEW t \in Tabs, GetSeats(t) PROVE Calm
<1>1. saving[t] = NotSaving /\ UNCHANGED <<world, res, saving>>
  BY AskedIsNotSaving DEF GetSeats, Asks
<1>2. CASE Shown(t)
  <2>1. tab[t].at = "seats" /\ tab[t] \in Page /\ tab[t].count > 0
    BY DEF GetSeats, Asks, Inv, Typing, Fits
  <2> DEFINE page == [tab[t] EXCEPT !.asked = FALSE]
  <2>2. page \in Page
    BY <2>1, PageFields
  <2>3. page.at = "seats" /\ page.count > 0
    BY <2>1 DEF Page
  <2>4. Show(t, page)
    BY <1>2 DEF Shown
  <2> HIDE DEF page
  <2> QED BY <1>1, <2>2, <2>3, <2>4, ShowIsCalm
<1>3. CASE Show(t, FlightPage)
  BY <1>1, <1>3, AskedPages, ShowIsCalm
<1> QED BY <1>2, <1>3 DEF GetSeats

\* A new hold: r was not there, so no form can be about it.
LEMMA PostSeatsIsCalm ==
    ASSUME Inv, NEW t \in Tabs, NEW S \in SUBSET Seats, PostSeats(t, S)
    PROVE Calm
<1>1. saving[t] = NotSaving /\ UNCHANGED <<now, cancelled, saving>>
  BY DEF PostSeats, Shows, Idle
<1>2. CASE Show(t, FlightPage) /\ UNCHANGED <<holder, res>>
  BY <1>1, <1>2, AskedPages, ShowIsCalm DEF world
<1>3. ASSUME NEW r \in Refs, CanHold(tab[t].count, S), res[r].status = "none",
             holder' = [s \in Seats |-> IF s \in S THEN r ELSE holder[s]],
             res' = [res EXCEPT ![r] =
                [status |-> "pending", count |-> Cardinality(S),
                 deadline |-> now + PayWindow, rows |-> <<>>]],
             Show(t, AskFor("passengers", r))
      PROVE Calm
  <2> DEFINE rec == [status |-> "pending", count |-> Cardinality(S),
                     deadline |-> now + PayWindow, rows |-> <<>>]
  <2>1. Cardinality(S) \in 1 .. MaxSeats
    BY <1>3 DEF CanHold
  <2>2. rec \in Record
    BY <2>1 DEF Record, Inv, Typing
  <2>3. res'[r] = rec /\ \A q \in Refs \ {r} : res'[q] = res[q]
    BY <1>3 DEF Inv, Typing
  <2>4. Typing'
    <3>1. res' \in [Refs -> Record]
      BY <1>3, <2>2 DEF Inv, Typing
    <3>2. holder' \in [Seats -> Refs \cup {Others, None}]
      BY <1>3 DEF Inv, Typing
    <3>3. tab' \in [Tabs -> Page]
      BY <1>3, AskedPages DEF Show, Inv, Typing
    <3> QED BY <1>1, <3>1, <3>2, <3>3 DEF Inv, Typing
  <2>5. RowsOK(r)'
    BY <2>1, <2>3 DEF RowsOK
  <2>6. CanLock(r)
    <3> SUFFICES ASSUME NEW u \in Tabs, saving[u].ref = r PROVE FALSE
      BY DEF CanLock
    <3>1. saving[u] # NotSaving
      BY DEF NotSaving
    <3> QED BY <3>1, <1>3 DEF Inv, FormOK
  <2>7. ASSUME NEW u \in Tabs, tab'[u] # tab[u] PROVE saving[u] = NotSaving /\ Fits(u)'
    <3>1. u = t /\ tab'[t] = AskFor("passengers", r)
      BY <1>3, <2>7 DEF Show, Inv, Typing
    <3> QED BY <1>1, <2>3, <3>1, AskedPages DEF Fits
  <2> QED BY <1>1, <1>3, <2>3, <2>4, <2>5, <2>6, <2>7 DEF Calm
<1> QED BY <1>2, <1>3 DEF PostSeats

\* An overdue hold is given back, and a page about it, or another, is shown.
LEMMA LapsedIsPending ==
    ASSUME NEW r \in Refs, Lapsed(r) PROVE res[r].status = "pending"
BY DEF Lapsed, Overdue

\* So is an answer that first releases holds that ran out.
LEMMA ReleaseAndShowIsCalm ==
    ASSUME Inv, NEW t \in Tabs, NEW page \in Page, NEW R \in SUBSET Refs,
           saving[t] = NotSaving, Show(t, page), Release(R),
           \A r \in R : res[r].status \in {"pending", "reserved"} /\ CanLock(r),
           UNCHANGED <<now, cancelled, saving>>,
           page.at \in {"passengers", "payment", "detail"} =>
             page.ref \in Refs /\ res[page.ref].status # "none",
           page.at = "seats" => page.count > 0
    PROVE Calm
<1>1. tab' \in [Tabs -> Page]
  BY DEF Show, Inv, Typing
<1>2. \A r \in Refs : res[r].status # "none" => res'[r].status # "none"
  <2> SUFFICES ASSUME NEW r \in Refs, res[r].status # "none" PROVE res'[r].status # "none"
    OBVIOUS
  <2>1. res[r] \in Record
    BY DEF Inv, Typing
  <2>2. CASE r \in R
    <3>1. res'[r] = [res[r] EXCEPT !.status = "cancelled"]
      BY <2>2 DEF Release
    <3> QED BY <2>1, <3>1 DEF Record
  <2>3. CASE r \notin R
    BY <2>3 DEF Release
  <2> QED BY <2>2, <2>3
<1>3. ASSUME NEW u \in Tabs, tab'[u] # tab[u] PROVE saving[u] = NotSaving /\ Fits(u)'
  <2>1. u = t /\ tab'[t] = page
    BY <1>3 DEF Show, Inv, Typing
  <2> QED BY <1>2, <2>1 DEF Fits
<1> QED BY <1>1, <1>3, ReleaseIsCalm

\* The pages about one reservation ask for it, or for another page about it.
LEMMA PageRef ==
    ASSUME Inv, NEW t \in Tabs, tab[t].at \in {"passengers", "payment", "detail"}
    PROVE tab[t].ref \in Refs /\ res[tab[t].ref].status # "none" /\ tab[t] \in Page
BY DEF Inv, Fits, Typing

\* The passenger page is calm.
LEMMA GetPassengersIsCalm == ASSUME Inv, NEW t \in Tabs, GetPassengers(t) PROVE Calm
<1> DEFINE r == tab[t].ref
<1>1. /\ saving[t] = NotSaving /\ UNCHANGED <<now, cancelled, saving>>
      /\ tab[t].at = "passengers"
  BY AskedIsNotSaving DEF GetPassengers, Asks
<1>2. r \in Refs /\ res[r].status # "none" /\ res[r] \in Record
  BY <1>1, PageRef DEF Inv, Typing
<1>3. CASE ExpireInstead(t, r) /\ Show(t, AskFor("detail", r))
  <2>1. /\ Release({r}) /\ {r} \in SUBSET Refs
        /\ \A q \in {r} : res[q].status \in {"pending", "reserved"} /\ CanLock(q)
    BY <1>2, <1>3, LapsedIsPending DEF ExpireInstead
  <2>2. AskFor("detail", r) \in Page /\ AskFor("detail", r).at = "detail" /\ AskFor("detail", r).ref = r
    BY <1>2, AskedPages
  <2> QED BY <1>1, <1>2, <1>3, <2>1, <2>2, ReleaseAndShowIsCalm
<1>4. CASE UNCHANGED <<holder, res>> /\ \E at \in GuardedTo(r) : Show(t, AskFor(at, r))
  <2>1. Show(t, AskFor("detail", r))
    BY <1>4 DEF GuardedTo
  <2> QED BY <1>1, <1>2, <1>4, <2>1, AskedPages, ShowIsCalm DEF world
<1>5. CASE /\ UNCHANGED <<holder, res>> /\ CanEditPassengers(r)
           /\ Show(t, [tab[t] EXCEPT !.asked = FALSE, !.entered = Len(res[r].rows)])
  <2>1. RowsOK(r) /\ Len(res[r].rows) \in 0 .. MaxSeats
    BY <1>2 DEF Inv, RowsOK, Record
  <2>2. tab[t] \in Page
    BY DEF Inv, Typing
  <2> DEFINE length == Len(res[r].rows)
             base == [tab[t] EXCEPT !.asked = FALSE]
             page == [base EXCEPT !.entered = length]
  <2>3. Show(t, page)
    BY <1>5
  <2>4. base \in Page
    BY <2>2, PageFields
  <2>5. base.at = "passengers" /\ base.ref = r
    BY <1>1, <2>2 DEF Page
  <2>6. length \in 0 .. MaxSeats
    BY <2>1
  <2> HIDE DEF base, length
  <2>7. page \in Page
    BY <2>4, <2>6, PageFields
  <2>8. page.at = "passengers" /\ page.ref = r
    BY <2>4, <2>5 DEF Page
  <2> HIDE DEF page
  <2> QED BY <1>1, <1>2, <1>5, <2>3, <2>7, <2>8, ShowIsCalm DEF world
<1> QED BY <1>3, <1>4, <1>5 DEF GetPassengers, GuardedTo

\* The payment page is calm.
LEMMA GetPaymentIsCalm == ASSUME Inv, NEW t \in Tabs, GetPayment(t) PROVE Calm
<1> DEFINE r == tab[t].ref
<1>1. /\ saving[t] = NotSaving /\ UNCHANGED <<now, cancelled, saving>>
      /\ tab[t].at = "payment"
  BY AskedIsNotSaving DEF GetPayment, Asks
<1>2. r \in Refs /\ res[r].status # "none" /\ tab[t] \in Page
  BY <1>1, PageRef
<1>3. CASE ExpireInstead(t, r) /\ Show(t, AskFor("detail", r))
  <2>1. /\ Release({r}) /\ {r} \in SUBSET Refs
        /\ \A q \in {r} : res[q].status \in {"pending", "reserved"} /\ CanLock(q)
    BY <1>2, <1>3, LapsedIsPending DEF ExpireInstead
  <2>2. AskFor("detail", r) \in Page /\ AskFor("detail", r).at = "detail" /\ AskFor("detail", r).ref = r
    BY <1>2, AskedPages
  <2> QED BY <1>1, <1>2, <1>3, <2>1, <2>2, ReleaseAndShowIsCalm
<1>4. CASE /\ UNCHANGED <<holder, res>>
           /\ \E at \in {"passengers", "detail"} : Show(t, AskFor(at, r))
  BY <1>1, <1>2, <1>4, AskedPages, ShowIsCalm DEF world
<1>5. CASE UNCHANGED <<holder, res>> /\ Shown(t)
  <2> DEFINE page == [tab[t] EXCEPT !.asked = FALSE]
  <2>1. page \in Page
    BY <1>2, PageFields
  <2>2. page.at = "payment" /\ page.ref = r
    BY <1>1, <1>2 DEF Page
  <2>3. Show(t, page)
    BY <1>5 DEF Shown
  <2> HIDE DEF page
  <2> QED BY <1>1, <1>2, <1>5, <2>1, <2>2, <2>3, ShowIsCalm DEF world
<1> QED BY <1>3, <1>4, <1>5 DEF GetPayment

\* A payment is calm.
LEMMA PostPaymentIsCalm == ASSUME Inv, NEW t \in Tabs, PostPayment(t) PROVE Calm
<1> DEFINE r == tab[t].ref
<1>1. /\ saving[t] = NotSaving /\ UNCHANGED <<now, cancelled, saving>>
      /\ tab[t].at = "payment" /\ CanLock(r)
  BY DEF PostPayment, Shows, Idle
<1>2. r \in Refs /\ res[r].status # "none" /\ tab[t] \in Page
  BY <1>1, PageRef
<1>3. /\ \A at \in {"passengers", "payment", "detail"} :
            AskFor(at, r) \in Page /\ AskFor(at, r).at = at /\ AskFor(at, r).ref = r
      /\ res[r] \in Record /\ RowsOK(r)
  BY <1>2, AskedPages DEF Inv, Typing
<1>4. CASE Overdue(r) /\ Release({r}) /\ Show(t, AskFor("detail", r))
  <2>1. /\ {r} \in SUBSET Refs
        /\ \A q \in {r} : res[q].status \in {"pending", "reserved"} /\ CanLock(q)
    BY <1>1, <1>2, <1>4 DEF Overdue
  <2> QED BY <1>1, <1>2, <1>3, <1>4, <2>1, ReleaseAndShowIsCalm
<1>5. CASE /\ UNCHANGED <<holder, res>>
           /\ \E at \in {"passengers", "payment", "detail"} : Show(t, AskFor(at, r))
  BY <1>1, <1>2, <1>3, <1>5, ShowIsCalm DEF world
<1>6. CASE /\ res[r].status = "pending" /\ PassengersComplete(r) /\ holder' = holder
           /\ res' = [res EXCEPT ![r].status = "reserved"] /\ Show(t, AskFor("detail", r))
  <2> DEFINE rec == [res[r] EXCEPT !.status = "reserved"]
  <2>0. res[r] \in Record /\ RowsOK(r)
    BY <1>3
  <2>2. /\ rec \in Record /\ rec.status = "reserved" /\ rec.count = res[r].count
        /\ rec.rows = res[r].rows
    <3>1. \A x \in Record, k \in {"none", "pending", "reserved", "cancelled"} :
            /\ [x EXCEPT !.status = k] \in Record /\ [x EXCEPT !.status = k].status = k
            /\ [x EXCEPT !.status = k].count = x.count /\ [x EXCEPT !.status = k].rows = x.rows
      BY StatusKept
    <3> QED BY <2>0, <3>1, Zenon
  <2>3. res'[r] = rec /\ \A q \in Refs \ {r} : res'[q] = res[q]
    BY <1>2, <1>6 DEF Inv, Typing
  <2>4. res[r].count > 0 /\ Len(res[r].rows) = res[r].count
    BY <1>2, <2>0, <1>6 DEF RowsOK, PassengersComplete
  <2> HIDE DEF rec
  <2>5. res' \in [Refs -> Record]
    <3>1. \A q \in Refs : res'[q] \in Record
      BY <2>2, <2>3 DEF Inv, Typing
    <3>2. res' = [q \in Refs |-> res'[q]]
      BY <1>6 DEF Inv, Typing
    <3> QED BY <3>1, <3>2
  <2>6. res[r].rows # <<>>
    BY <2>4
  <2>7. ASSUME NEW q \in Refs, q = r PROVE RowsOK(q)'
    <3>1. IsInjective(res[r].rows)
      BY <2>0, <2>6 DEF RowsOK
    <3>2. /\ res'[q].status = "reserved" /\ res'[q].count = res[r].count
          /\ res'[q].rows = res[r].rows
      BY <2>2, <2>3, <2>7
    <3> QED BY <2>4, <2>6, <3>1, <3>2 DEF RowsOK
  <2>8. Typing'
    <3>1. tab' \in [Tabs -> Page]
      BY <1>3, <1>6 DEF Show, Inv, Typing
    <3> QED BY <1>1, <1>6, <2>5, <3>1 DEF Inv, Typing
  <2>9. ASSUME NEW u \in Tabs, tab'[u] # tab[u] PROVE saving[u] = NotSaving /\ Fits(u)'
    <3>1. u = t /\ tab'[t] = AskFor("detail", r)
      BY <1>6, <2>9 DEF Show, Inv, Typing
    <3> QED BY <1>1, <1>2, <1>3, <2>2, <2>3, <3>1 DEF Fits
  <2>10. ASSUME NEW q \in Refs, res'[q] # res[q]
         PROVE /\ RowsOK(q)' /\ CanLock(q)
               /\ res[q].status # "cancelled" /\ res'[q].status # "none"
    <3>1. q = r
      BY <2>3, <2>10
    <3>2. res'[r].status = "reserved"
      BY <2>2, <2>3
    <3> QED BY <1>1, <1>6, <2>7, <3>1, <3>2
  <2> QED BY <1>1, <2>8, <2>9, <2>10 DEF Calm
<1>7. CASE ~(res[r].status = "pending" /\ ~Overdue(r))
  BY <1>4, <1>5, <1>7 DEF PostPayment
<1>8. CASE res[r].status = "pending" /\ ~Overdue(r) /\ ~PassengersComplete(r)
  BY <1>5, <1>8 DEF PostPayment
<1>9. CASE res[r].status = "pending" /\ ~Overdue(r) /\ PassengersComplete(r)
  BY <1>5, <1>6, <1>9 DEF PostPayment
<1> QED BY <1>7, <1>8, <1>9

\* The page of a reservation is calm.
LEMMA GetDetailIsCalm == ASSUME Inv, NEW t \in Tabs, GetDetail(t) PROVE Calm
<1> DEFINE r == tab[t].ref
<1>1. /\ saving[t] = NotSaving /\ UNCHANGED <<now, cancelled, saving>>
      /\ tab[t].at = "detail"
  BY AskedIsNotSaving DEF GetDetail, Asks
<1>2. r \in Refs /\ res[r].status # "none" /\ tab[t] \in Page
  BY <1>1, PageRef
<1>3. CASE ExpireInstead(t, r) /\ Shown(t)
  <2> DEFINE page == [tab[t] EXCEPT !.asked = FALSE]
  <2>4. Show(t, page)
    BY <1>3 DEF Shown
  <2>1. /\ Release({r}) /\ {r} \in SUBSET Refs
        /\ \A q \in {r} : res[q].status \in {"pending", "reserved"} /\ CanLock(q)
    BY <1>2, <1>3, LapsedIsPending DEF ExpireInstead
  <2>2. page \in Page
    BY <1>2, PageFields
  <2>3. page.at = "detail" /\ page.ref = r
    BY <1>1, <1>2 DEF Page
  <2> HIDE DEF page
  <2> QED BY <1>1, <1>2, <2>1, <2>2, <2>3, <2>4, ReleaseAndShowIsCalm
<1>4. CASE /\ UNCHANGED <<holder, res>>
           /\ Show(t, [tab[t] EXCEPT !.asked = FALSE, !.offered = Cancellable(r)])
  <2> DEFINE offer == Cancellable(r)
             base == [tab[t] EXCEPT !.asked = FALSE]
             page == [base EXCEPT !.offered = offer]
  <2>1. offer \in BOOLEAN
    BY DEF Cancellable
  <2>4. Show(t, page)
    BY <1>4
  <2>5. base \in Page
    BY <1>2, PageFields
  <2>6. base.at = "detail" /\ base.ref = r
    BY <1>1, <1>2 DEF Page
  <2> HIDE DEF offer, base
  <2>2. page \in Page
    BY <2>1, <2>5, PageFields
  <2>3. page.at = "detail" /\ page.ref = r
    BY <2>5, <2>6 DEF Page
  <2> HIDE DEF page
  <2> QED BY <1>1, <1>2, <1>4, <2>2, <2>3, <2>4, ShowIsCalm DEF world
<1> QED BY <1>3, <1>4 DEF GetDetail

\* A cancellation is calm.
LEMMA PressCancelIsCalm == ASSUME Inv, NEW t \in Tabs, PressCancel(t) PROVE Calm
<1> DEFINE r == tab[t].ref
<1>1. /\ saving[t] = NotSaving /\ UNCHANGED <<now, cancelled, saving>>
      /\ tab[t].at = "detail" /\ CanLock(r)
  BY DEF PressCancel, Shows, Idle
<1>2. r \in Refs /\ res[r].status # "none"
  BY <1>1, PageRef
<1>3. CASE Cancellable(r) /\ Release({r}) /\ Show(t, Ask("list"))
  <2>1. /\ {r} \in SUBSET Refs
        /\ \A q \in {r} : res[q].status \in {"pending", "reserved"} /\ CanLock(q)
    BY <1>1, <1>2, <1>3 DEF Cancellable
  <2> QED BY <1>1, <1>3, <2>1, AskedPages, ReleaseAndShowIsCalm
<1>4. CASE UNCHANGED <<holder, res>> /\ Show(t, AskFor("detail", r))
  BY <1>1, <1>2, <1>4, AskedPages, ShowIsCalm DEF world
<1> QED BY <1>3, <1>4 DEF PressCancel

\* The list of reservations is calm.
LEMMA GetListIsCalm == ASSUME Inv, NEW t \in Tabs, GetList(t) PROVE Calm
<1> DEFINE R == {r \in Refs : Lapsed(r)}
           page == [tab[t] EXCEPT !.asked = FALSE]
<1>1. /\ saving[t] = NotSaving /\ UNCHANGED <<now, cancelled, saving>>
      /\ tab[t].at = "list" /\ Release(R) /\ Show(t, page)
  BY AskedIsNotSaving DEF GetList, Asks, Shown
<1>6. tab[t] \in Page
  BY DEF Inv, Typing
<1>2. page \in Page
  BY <1>6, PageFields
<1>3. page.at = "list"
  BY <1>1, <1>6 DEF Page
<1>4. ASSUME NEW r \in R PROVE res[r].status \in {"pending", "reserved"} /\ CanLock(r)
  BY LapsedIsPending DEF GetList
<1> HIDE DEF R, page
<1>5. R \in SUBSET Refs
  BY DEF R
<1> QED BY <1>1, <1>2, <1>3, <1>4, <1>5, ReleaseAndShowIsCalm

\* Nobody's browser changes.
LEMMA OutsideIsCalm ==
    ASSUME Inv,
           \/ \E s \in Seats : OthersTake(s) \/ OthersGiveBack(s)
           \/ CancelFlight \/ Tick
    PROVE Calm
<1>1. res' = res /\ saving' = saving /\ tab' = tab
  BY DEF OthersTake, OthersGiveBack, CancelFlight, Tick
<1>2. Typing'
  <2>1. CASE \E s \in Seats : OthersTake(s) \/ OthersGiveBack(s)
    BY <1>1, <2>1 DEF OthersTake, OthersGiveBack, Inv, Typing
  <2>2. CASE CancelFlight
    BY <1>1, <2>2 DEF CancelFlight, Inv, Typing
  <2>3. CASE Tick
    BY <1>1, <2>3 DEF Tick, Inv, Typing
  <2> QED BY <2>1, <2>2, <2>3
<1> QED BY <1>1, <1>2 DEF Calm

\* The sweep of a cancelled flight is calm.
LEMMA SweepIsCalm == ASSUME Inv, NEW r \in Refs, SweepOne(r) PROVE Calm
<1>1. /\ Release({r}) /\ {r} \in SUBSET Refs /\ UNCHANGED <<now, cancelled, saving, tab>>
      /\ \A q \in {r} : res[q].status \in {"pending", "reserved"} /\ CanLock(q)
  BY DEF SweepOne
<1>2. tab' \in [Tabs -> Page] /\ \A t \in Tabs : tab'[t] = tab[t]
  BY <1>1 DEF Inv, Typing
<1> QED BY <1>1, <1>2, ReleaseIsCalm

-----------------------------------------------------------------------------
(* The passenger form.                                                     *)

\* The rows of a form are a sequence of as many ids as it has rows.
LEMMA RowsAreASequence ==
    ASSUME NEW n \in Nat, NEW rows \in [1 .. n -> Ids]
    PROVE rows \in Seq(Ids) /\ Len(rows) = n
OBVIOUS

\* The passenger form that begins to be saved keeps the invariant.
LEMMA PostPassengersKeepsInv ==
    ASSUME Inv, NEW t \in Tabs, NEW n \in 1 .. MaxSeats, NEW rows \in [1 .. n -> Ids],
           PostPassengers(t, rows)
    PROVE Inv' /\ res' = res
<1> DEFINE r == tab[t].ref
           form == [ref |-> r, rows |-> rows]
<1>1. /\ saving[t] = NotSaving /\ UNCHANGED <<world, res>>
      /\ tab[t].at = "passengers" /\ ~tab[t].asked /\ CanLock(r)
  BY DEF PostPassengers, Shows, Idle
<1>2. r \in Refs /\ res[r].status # "none" /\ tab[t] \in Page /\ res[r] \in Record /\ RowsOK(r)
  BY <1>1, PageRef DEF Inv, Typing
<1>3. CASE UNCHANGED saving /\ Show(t, AskFor("detail", r))
  BY <1>1, <1>2, <1>3, AskedPages, ShowIsCalm, CalmKeepsInv
<1>4. CASE UNCHANGED saving /\ Show(t, [tab[t] EXCEPT !.entered = Len(res[r].rows)])
  <2> DEFINE page == [tab[t] EXCEPT !.entered = Len(res[r].rows)]
  <2>1. Len(res[r].rows) \in 0 .. MaxSeats
    BY <1>2 DEF RowsOK, Record
  <2>2. page \in Page
    BY <1>2, <2>1, PageFields
  <2>3. page.at = "passengers" /\ page.ref = r
    BY <1>1, <1>2 DEF Page
  <2>4. Show(t, page)
    BY <1>4
  <2> HIDE DEF page
  <2> QED BY <1>1, <1>2, <1>4, <2>2, <2>3, <2>4, ShowIsCalm, CalmKeepsInv
<1>5. CASE /\ CanEditPassengers(r) /\ ~IsStale(r, tab[t].entered) /\ FormIsValid(r, rows)
           /\ saving' = [saving EXCEPT ![t] = form] /\ UNCHANGED tab
  <2>1. rows \in Seq(Ids) /\ Len(rows) = res[r].count /\ IsInjective(rows)
    BY <1>5, RowsAreASequence DEF FormIsValid
  <2>2. form \in Form
    BY <1>2, <2>1 DEF Form
  <2>3. /\ saving' \in [Tabs -> Form] /\ saving'[t] = form
        /\ \A u \in Tabs \ {t} : saving'[u] = saving[u]
    BY <1>5, <2>2 DEF Inv, Typing
  <2>4. Typing'
    BY <1>1, <1>5, <2>3 DEF Inv, Typing, world
  <2>5. tab[t].entered = 0 => res[r].rows = <<>>
    BY <1>2, <1>5 DEF IsStale, RowsOK, Record
  <2>6. res[r].status \in {"pending", "reserved"}
    BY <1>5 DEF CanEditPassengers
  <2>7. FormOK(t)'
    BY <1>1, <1>2, <1>5, <2>1, <2>3, <2>5, <2>6 DEF FormOK
  <2>8. ASSUME NEW u \in Tabs PROVE FormOK(u)'
    <3>1. CASE u = t
      BY <3>1, <2>7
    <3>2. CASE u # t
      <4>1. FormOK(u) /\ saving'[u] = saving[u] /\ tab'[u] = tab[u] /\ res' = res
        BY <1>1, <1>5, <2>3, <3>2 DEF Inv
      <4> QED BY <4>1 DEF FormOK
    <3> QED BY <3>1, <3>2
  <2>9. OneSaver'
    <3> SUFFICES ASSUME NEW u \in Tabs, NEW v \in Tabs,
                        saving'[u].ref # None, saving'[u].ref = saving'[v].ref
                 PROVE u = v
      BY DEF OneSaver
    <3>1. CASE u = t /\ v # t
      BY <1>1, <2>3, <3>1 DEF CanLock
    <3>2. CASE u # t /\ v = t
      <4>1. saving'[u] = saving[u] /\ saving'[v].ref = r
        BY <2>3, <3>2
      <4> QED BY <1>1, <4>1 DEF CanLock
    <3>3. CASE u # t /\ v # t
      BY <2>3, <3>3 DEF Inv, OneSaver
    <3> QED BY <3>1, <3>2, <3>3
  <2>10. \A u \in Tabs : Fits(u)'
    BY <1>1, <1>5 DEF Inv, Fits
  <2>11. \A q \in Refs : RowsOK(q)'
    BY <1>1 DEF Inv, RowsOK
  <2> QED BY <1>1, <2>4, <2>8, <2>9, <2>10, <2>11 DEF Inv
<1> QED BY <1>1, <1>3, <1>4, <1>5 DEF PostPassengers

\* The rows that were there are written over, or there were none.
LEMMA SavePassengersKeepsInv ==
    ASSUME Inv, NEW t \in Tabs, SavePassengers(t)
    PROVE /\ Inv'
          /\ \A r \in Refs : res[r].status = "cancelled" => res'[r] = res[r]
<1> DEFINE r == saving[t].ref
           rec == [res[r] EXCEPT !.rows = saving[t].rows]
           page == AskFor(IF res[r].status = "reserved" THEN "detail" ELSE "payment", r)
<1>1. /\ saving[t] # NotSaving /\ UNCHANGED world
      /\ saving' = [saving EXCEPT ![t] = NotSaving] /\ Show(t, page)
  BY DEF SavePassengers
<1>2. /\ r \in Refs /\ res[r] \in Record /\ RowsOK(r) /\ saving[t] \in Form
      /\ res[r].status \in {"pending", "reserved"}
      /\ Len(saving[t].rows) = res[r].count /\ IsInjective(saving[t].rows)
      /\ tab[t].entered = 0 => res[r].rows = <<>>
  BY <1>1 DEF Inv, Typing, FormOK
<1>3. saving[t].rows \in Seq(Ids) /\ Len(saving[t].rows) > 0 /\ saving[t].rows # <<>>
  BY <1>2 DEF Form, RowsOK
<1>4. res' = [res EXCEPT ![r] = rec]
  <2>1. CASE tab[t].entered = 0
    <3>1. res[r].rows \o saving[t].rows = saving[t].rows
      BY <1>2, <1>3, <2>1, ConcatEmptySeq
    <3> QED BY <2>1, <3>1 DEF SavePassengers
  <2>2. CASE tab[t].entered # 0
    BY <2>2 DEF SavePassengers
  <2> QED BY <2>1, <2>2
<1>6. /\ rec \in Record /\ rec.status = res[r].status /\ rec.count = res[r].count
      /\ rec.rows = saving[t].rows
  <2>1. res[r] \in Record /\ saving[t].rows \in Seq(Ids)
    BY <1>2, <1>3
  <2>2. \A x \in Record, q \in Seq(Ids) :
          /\ [x EXCEPT !.rows = q] \in Record /\ [x EXCEPT !.rows = q].rows = q
          /\ [x EXCEPT !.rows = q].status = x.status /\ [x EXCEPT !.rows = q].count = x.count
    BY RowsKept
  <2> QED BY <2>1, <2>2, Zenon
<1>7. page \in Page /\ page.at \in {"detail", "payment"} /\ page.ref = r
  BY <1>2, AskedPages
<1> HIDE DEF rec, page
<1>8. res'[r] = rec /\ \A q \in Refs \ {r} : res'[q] = res[q]
  BY <1>2, <1>4 DEF Inv, Typing
<1>9. tab'[t] = page /\ \A u \in Tabs \ {t} : tab'[u] = tab[u]
  BY <1>1 DEF Show, Inv, Typing
<1>10. saving'[t] = NotSaving /\ \A u \in Tabs \ {t} : saving'[u] = saving[u]
  BY <1>1 DEF Inv, Typing
<1>11. Typing'
  <2>1. res' \in [Refs -> Record]
    BY <1>4, <1>6 DEF Inv, Typing
  <2>2. tab' \in [Tabs -> Page]
    BY <1>1, <1>7 DEF Show, Inv, Typing
  <2>3. NotSaving \in Form
    BY DEF NotSaving, Form
  <2>4. saving' \in [Tabs -> Form]
    BY <1>1, <2>3 DEF Inv, Typing
  <2> QED BY <1>1, <2>1, <2>2, <2>4 DEF world, Inv, Typing
<1>12. ASSUME NEW q \in Refs PROVE RowsOK(q)'
  <2>1. CASE q = r
    BY <1>2, <1>3, <1>6, <1>8, <2>1 DEF RowsOK
  <2>2. CASE q # r
    <3>1. res'[q] = res[q] /\ RowsOK(q)
      BY <1>8, <2>2 DEF Inv
    <3> QED BY <3>1 DEF RowsOK
  <2> QED BY <2>1, <2>2
<1>13. ASSUME NEW q \in Refs, res[q].status # "none" PROVE res'[q].status # "none"
  BY <1>2, <1>6, <1>8, <1>13
<1>14. ASSUME NEW u \in Tabs PROVE Fits(u)'
  <2>1. CASE u = t
    BY <1>2, <1>7, <1>9, <1>13, <2>1 DEF Fits
  <2>2. CASE u # t
    <3>1. tab'[u] = tab[u] /\ Fits(u)
      BY <1>9, <2>2 DEF Inv
    <3> QED BY <1>13, <3>1 DEF Fits
  <2> QED BY <2>1, <2>2
<1>15. ASSUME NEW u \in Tabs PROVE FormOK(u)'
  <2>1. CASE u = t
    BY <1>10, <2>1 DEF FormOK
  <2>2. CASE u # t
    <3> SUFFICES ASSUME saving[u] # NotSaving PROVE FormOK(u)'
      BY <1>10, <2>2 DEF FormOK
    <3>1. FormOK(u) /\ saving'[u] = saving[u] /\ tab'[u] = tab[u]
      BY <1>9, <1>10, <2>2 DEF Inv
    <3>2. saving[u].ref \in Refs /\ saving[u].ref # None
      BY <3>1 DEF FormOK
    <3>3. saving[u].ref # r
      BY <2>2, <3>2 DEF Inv, OneSaver
    <3>4. res'[saving[u].ref] = res[saving[u].ref]
      BY <1>8, <3>2, <3>3
    <3> QED BY <3>1, <3>4 DEF FormOK
  <2> QED BY <2>1, <2>2
<1>16. OneSaver'
  <2> SUFFICES ASSUME NEW u \in Tabs, NEW v \in Tabs,
                      saving'[u].ref # None, saving'[u].ref = saving'[v].ref
               PROVE u = v
    BY DEF OneSaver
  <2>1. u # t /\ v # t
    BY <1>10 DEF NotSaving
  <2>2. saving'[u] = saving[u] /\ saving'[v] = saving[v]
    BY <1>10, <2>1
  <2> QED BY <2>2 DEF Inv, OneSaver
<1>17. \A q \in Refs : res[q].status = "cancelled" => res'[q] = res[q]
  BY <1>2, <1>8
<1> QED BY <1>11, <1>12, <1>14, <1>15, <1>16, <1>17 DEF Inv

-----------------------------------------------------------------------------
(* The theorems.                                                           *)

\* Every step keeps the invariant, and leaves cancelled reservations alone.
LEMMA StepHolds ==
    ASSUME Inv, [Next]_vars
    PROVE /\ Inv'
          /\ \A r \in Refs : res[r].status = "cancelled" => res'[r] = res[r]
<1>1. CASE Calm
  BY <1>1, CalmKeepsInv DEF Calm
<1>2. CASE UNCHANGED vars
  <2>1. /\ now' = now /\ cancelled' = cancelled /\ holder' = holder
        /\ res' = res /\ saving' = saving /\ tab' = tab
    BY <1>2 DEF vars, world
  <2>2. Calm
    BY <2>1 DEF Inv, Typing, Calm
  <2> QED BY <1>1, <2>2
<1>3. ASSUME NEW t \in Tabs, Visit(t) PROVE Calm
  BY <1>3, VisitIsCalm
<1>4. ASSUME NEW t \in Tabs, Get(t) PROVE Calm
  BY <1>4, CreateIsCalm, GetSeatsIsCalm, GetPassengersIsCalm, GetPaymentIsCalm,
     GetDetailIsCalm, GetListIsCalm DEF Get
<1>5. ASSUME NEW t \in Tabs, SavePassengers(t)
      PROVE /\ Inv'
            /\ \A r \in Refs : res[r].status = "cancelled" => res'[r] = res[r]
  BY <1>5, SavePassengersKeepsInv
<1>6. ASSUME NEW t \in Tabs, Post(t)
      PROVE /\ Inv'
            /\ \A r \in Refs : res[r].status = "cancelled" => res'[r] = res[r]
  <2>1. CASE \E n \in 1 .. MaxSeats : PostCreate(t, n)
    BY <1>1, <2>1, CreateIsCalm
  <2>2. CASE \E S \in SUBSET Seats : PostSeats(t, S)
    BY <1>1, <2>2, PostSeatsIsCalm
  <2>3. CASE \E n \in 1 .. MaxSeats : \E rows \in [1 .. n -> Ids] : PostPassengers(t, rows)
    BY <2>3, PostPassengersKeepsInv
  <2>4. CASE PostPayment(t) \/ PressCancel(t)
    BY <1>1, <2>4, PostPaymentIsCalm, PressCancelIsCalm
  <2> QED BY <1>6, <2>1, <2>2, <2>3, <2>4 DEF Post
<1>7. ASSUME NEW r \in Refs, SweepOne(r) PROVE Calm
  BY <1>7, SweepIsCalm
<1> QED BY <1>1, <1>2, <1>3, <1>4, <1>5, <1>6, <1>7, OutsideIsCalm DEF Next, Answer

\* The invariant holds throughout.
THEOREM InvHolds == Spec => []Inv
<1>1. Init => Inv
  BY InitHolds
<1>2. Inv /\ [Next]_vars => Inv'
  BY StepHolds
<1> QED BY <1>1, <1>2, PTL DEF Spec

\* The type invariant of the run holds for any number of tabs, reservations and
\* seats: no request leaves a page, a form or a reservation of another shape.
THEOREM Typed == Spec => []PagesTypeOK
<1>1. Inv => PagesTypeOK
  <2> SUFFICES ASSUME Inv PROVE PagesTypeOK
    OBVIOUS
  <2>1. ASSUME NEW r \in Refs
        PROVE /\ res[r].status \in {"none", "pending", "reserved", "cancelled"}
              /\ res[r].count \in 0 .. MaxSeats /\ res[r].deadline \in 0 .. MaxTime + PayWindow
              /\ ToSet(res[r].rows) \subseteq Ids
    <3>1. res[r] \in Record
      BY DEF Inv, Typing
    <3>2. res[r].rows \in Seq(Ids)
      BY <3>1 DEF Record
    <3>3. ToSet(res[r].rows) \subseteq Ids
      BY <3>2 DEF ToSet
    <3> QED BY <3>1, <3>3 DEF Record
  <2>2. \A t \in Tabs : tab[t].at = "seats" => tab[t].count > 0
    BY DEF Inv, Fits
  <2>3. \A t \in Tabs : saving[t] # NotSaving =>
          ~tab[t].asked /\ tab[t].at = "passengers" /\ saving[t].ref = tab[t].ref
    BY DEF Inv, FormOK
  <2>4. /\ now \in 0 .. MaxTime /\ cancelled \in BOOLEAN
        /\ holder \in [Seats -> Refs \cup {Others, None}] /\ tab \in [Tabs -> Page]
    BY DEF Inv, Typing
  <2> QED BY <2>1, <2>2, <2>3, <2>4 DEF PagesTypeOK
<1> QED BY <1>1, InvHolds, PTL

\* A reservation has no passengers or exactly one for each seat, all different,
\* and a paid one has them, whatever forms are submitted twice, at once or from
\* pages that are out of date.
THEOREM AllOrNone == Spec => []PassengersAllOrNone
<1>1. Inv => PassengersAllOrNone
  BY DEF Inv, RowsOK, PassengersAllOrNone
<1> QED BY <1>1, InvHolds, PTL

\* No request, however old the page it comes from, changes a reservation that
\* has been cancelled: not even the form that was being saved at the time.
THEOREM CancelledIsFinal == Spec => CancelledStays
<1>1. Inv /\ [Next]_vars =>
        [\A r \in Refs : res[r].status = "cancelled" => res'[r] = res[r]]_vars
  BY StepHolds
<1> QED BY <1>1, InvHolds, PTL DEF Spec, CancelledStays

-----------------------------------------------------------------------------
(* Pages are true when they are shown.                                     *)

\* A page that has not been answered offers nothing yet.
Blank(page) == page.asked => ~page.offered

FreshInv == Inv /\ \A t \in Tabs : Blank(tab[t])

\* What a step does to the tabs: pages asked for are blank, pages shown are true.
Truthful ==
    \A t \in Tabs : tab'[t] # tab[t] =>
        Blank(tab'[t]) /\ (tab[t].asked /\ ~tab'[t].asked => Fresh(t)')

\* A page that is asked for offers nothing yet.
LEMMA RequestsAreBlank ==
    /\ ~FlightPage.asked
    /\ \A at : Ask(at).asked /\ ~Ask(at).offered
    /\ \A at, r : AskFor(at, r).asked /\ ~AskFor(at, r).offered
    /\ \A n : SeatMap(n).asked /\ ~SeatMap(n).offered
BY DEF FlightPage, Ask, AskFor, SeatMap, Request

\* Showing a page that is asked for, or shown in a tab that asks for nothing.
LEMMA ShowIsTruthful ==
    ASSUME Inv, NEW t \in Tabs, NEW page, Show(t, page), Blank(page),
           tab[t].asked /\ ~page.asked => Fresh(t)'
    PROVE  Truthful
<1>1. \A u \in Tabs : tab'[u] = IF u = t THEN page ELSE tab[u]
  BY DEF Show, Inv, Typing
<1> QED BY <1>1 DEF Truthful

\* So to ask for one is truthful.
LEMMA AskIsTruthful ==
    ASSUME Inv, NEW t \in Tabs, NEW page, Show(t, page), page.asked /\ ~page.offered
    PROVE  Truthful
BY ShowIsTruthful DEF Blank

\* A step that shows nothing is.
LEMMA SameTabsAreTruthful == UNCHANGED tab => Truthful
BY DEF Truthful

\* A tab that asks for nothing cannot be shown anything it asked for.
LEMMA IdleIsTruthful ==
    ASSUME Inv, NEW t \in Tabs, NEW page, Show(t, page), ~tab[t].asked, Blank(page)
    PROVE  Truthful
BY ShowIsTruthful

\* A page that is shown as it was asked for is answered.
LEMMA ShownFacts ==
    ASSUME Inv, NEW t \in Tabs, Shown(t)
    PROVE  /\ tab'[t].at = tab[t].at /\ tab'[t].ref = tab[t].ref /\ ~tab'[t].asked
           /\ tab'[t].offered = tab[t].offered
           /\ Show(t, [tab[t] EXCEPT !.asked = FALSE])
           /\ ~[tab[t] EXCEPT !.asked = FALSE].asked
<1>1. tab[t] \in Page
  BY DEF Inv, Typing
<1>2. tab'[t] = [tab[t] EXCEPT !.asked = FALSE]
  BY DEF Shown, Show, Inv, Typing
<1> QED BY <1>1, <1>2 DEF Shown, Page

\* The page itself is shown.
LEMMA ShownIsTruthful ==
    ASSUME Inv, NEW t \in Tabs, Shown(t), Fresh(t)'
    PROVE  Truthful
BY ShownFacts, ShowIsTruthful DEF Blank

\* Asking and saving show no answer.
LEMMA StepsOfOthers ==
    ASSUME Inv, NEW t \in Tabs,
           Visit(t) \/ SavePassengers(t)
    PROVE  Truthful
<1>1. CASE Visit(t)
  <2>1. PICK page : Show(t, page) /\ page.asked /\ ~page.offered
    BY <1>1, RequestsAreBlank DEF Visit
  <2> QED BY <2>1, AskIsTruthful
<1>2. CASE SavePassengers(t)
  BY <1>2, RequestsAreBlank, AskIsTruthful DEF SavePassengers
<1> QED BY <1>1, <1>2

\* Nor do the forms that are posted, before their redirect is followed.
LEMMA PostIsTruthful ==
    ASSUME Inv, NEW t \in Tabs, Post(t)
    PROVE  Truthful
<1> USE RequestsAreBlank
<1>1. ASSUME NEW n \in 1 .. MaxSeats, PostCreate(t, n) PROVE Truthful
  <2>1. PICK page : Show(t, page) /\ Blank(page)
    BY <1>1 DEF PostCreate, BlockedTo, Blank
  <2>2. ~tab[t].asked
    BY <1>1 DEF PostCreate, Shows, Idle
  <2> QED BY <2>1, <2>2, IdleIsTruthful
<1>2. ASSUME NEW S \in SUBSET Seats, PostSeats(t, S) PROVE Truthful
  <2>1. PICK page : Show(t, page) /\ Blank(page)
    BY <1>2 DEF PostSeats, Blank
  <2>2. ~tab[t].asked
    BY <1>2 DEF PostSeats, Shows, Idle
  <2> QED BY <2>1, <2>2, IdleIsTruthful
<1>3. ASSUME NEW rows, PostPassengers(t, rows) PROVE Truthful
  <2>2. ~tab[t].asked
    BY <1>3 DEF PostPassengers, Shows, Idle
  <2>3. CASE UNCHANGED tab
    BY <2>3, SameTabsAreTruthful
  <2>4. CASE Show(t, AskFor("detail", tab[t].ref))
    BY <2>4, AskIsTruthful
  <2>5. CASE Show(t, [tab[t] EXCEPT !.entered = Len(res[tab[t].ref].rows)])
    <3>1. ~[tab[t] EXCEPT !.entered = Len(res[tab[t].ref].rows)].asked
      BY <2>2 DEF Inv, Typing, Page
    <3> QED BY <2>5, <3>1, <2>2, IdleIsTruthful DEF Blank
  <2> QED BY <1>3, <2>3, <2>4, <2>5 DEF PostPassengers
<1>4. CASE PostPayment(t)
  <2>1. PICK page : Show(t, page) /\ page.asked /\ ~page.offered
    BY <1>4 DEF PostPayment
  <2> QED BY <2>1, AskIsTruthful
<1>5. CASE PressCancel(t)
  <2>1. PICK page : Show(t, page) /\ page.asked /\ ~page.offered
    BY <1>5 DEF PressCancel
  <2> QED BY <2>1, AskIsTruthful
<1> QED BY <1>1, <1>2, <1>3, <1>4, <1>5 DEF Post

\* The first page and the seat map offer what can be had.
LEMMA GetCreateIsTruthful ==
    ASSUME Inv, NEW t \in Tabs, GetCreate(t) \/ GetSeats(t)
    PROVE  Truthful
<1>1. tab[t].at \in {"create", "seats"}
  BY DEF GetCreate, GetSeats, Asks
<1>2. CASE Shown(t)
  <2>1. tab'[t].at = tab[t].at
    BY <1>2, ShownFacts
  <2>2. Fresh(t)'
    BY <1>1, <2>1 DEF Fresh
  <2> QED BY <1>2, <2>2, ShownIsTruthful
<1>3. CASE Show(t, FlightPage)
  <2>1. tab'[t] = FlightPage
    BY <1>3 DEF Show, Inv, Typing
  <2>2. tab'[t].at = "flight"
    BY <2>1 DEF FlightPage
  <2>3. Fresh(t)'
    BY <2>2 DEF Fresh
  <2> QED BY <1>3, <2>3, RequestsAreBlank, ShowIsTruthful DEF Blank
<1>4. CASE Show(t, Ask("list"))
  BY <1>4, RequestsAreBlank, AskIsTruthful
<1> QED BY <1>2, <1>3, <1>4 DEF GetCreate, GetSeats, BlockedTo

\* The passenger page offers what can be filled in.
LEMMA GetPassengersIsTruthful ==
    ASSUME Inv, NEW t \in Tabs, GetPassengers(t)
    PROVE  Truthful
<1> PICK r : r = tab[t].ref
  OBVIOUS
<1> DEFINE page == [tab[t] EXCEPT !.asked = FALSE, !.entered = Len(res[r].rows)]
<1>1. ASSUME NEW at, Show(t, AskFor(at, r)) PROVE Truthful
  BY <1>1, RequestsAreBlank, AskIsTruthful
<1>2. CASE Show(t, page) /\ ~Lapsed(r) /\ CanEditPassengers(r) /\ UNCHANGED <<holder, res, now, cancelled>>
  <2>1. tab[t] \in Page /\ tab[t].at = "passengers"
    BY DEF Inv, Typing, GetPassengers, Asks
  <2>2. tab'[t] = page
    BY <1>2 DEF Show, Inv, Typing
  <2>3. /\ page.at = "passengers" /\ page.ref = r /\ page.entered = Len(res[r].rows)
        /\ ~page.asked
    BY <2>1 DEF Page
  <2>7. res' = res
    BY <1>2
  <2> HIDE DEF page
  <2>4. tab'[t].at = "passengers" /\ tab'[t].ref = r /\ tab'[t].entered = Len(res'[r].rows)
    BY <2>2, <2>3, <2>7
  <2>5. (~Overdue(r))' /\ CanEditPassengers(r)'
    BY <1>2 DEF Lapsed, Overdue, CanEditPassengers, Bookable
  <2>6. Fresh(t)'
    BY <2>4, <2>5 DEF Fresh
  <2> QED BY <1>2, <2>3, <2>6, ShowIsTruthful DEF Blank
<1>3. CASE ExpireInstead(t, r) /\ Show(t, AskFor("detail", r))
  BY <1>3, <1>1
<1>4. CASE ~Lapsed(r)
  <2>1. CASE GuardedTo(r) # {}
    BY <1>4, <2>1, <1>1 DEF GetPassengers, ExpireInstead
  <2>2. CASE GuardedTo(r) = {}
    BY <1>2, <1>4, <2>2 DEF GetPassengers, GuardedTo, ExpireInstead
  <2> QED BY <2>1, <2>2
<1> QED BY <1>3, <1>4 DEF GetPassengers

\* The payment page offers what can be paid.
LEMMA GetPaymentIsTruthful ==
    ASSUME Inv, NEW t \in Tabs, GetPayment(t)
    PROVE  Truthful
<1> PICK r : r = tab[t].ref
  OBVIOUS
<1>1. ASSUME NEW at, Show(t, AskFor(at, r)) PROVE Truthful
  BY <1>1, RequestsAreBlank, AskIsTruthful
<1>2. CASE Shown(t) /\ ~Lapsed(r) /\ res[r].status = "pending" /\ PassengersComplete(r)
           /\ UNCHANGED <<holder, res, now, cancelled>>
  <2>1. tab'[t].at = "payment" /\ tab'[t].ref = r
    BY <1>2, ShownFacts DEF GetPayment, Asks
  <2>2. (~Overdue(r))' /\ res'[r].status = "pending" /\ PassengersComplete(r)'
    BY <1>2 DEF Lapsed, Overdue, PassengersComplete
  <2>3. Fresh(t)'
    BY <2>1, <2>2 DEF Fresh
  <2> QED BY <1>2, <2>3, ShownIsTruthful
<1>3. CASE ~Lapsed(r)
  BY <1>1, <1>2, <1>3 DEF GetPayment, ExpireInstead
<1>4. CASE Lapsed(r)
  BY <1>1, <1>4 DEF GetPayment
<1> QED BY <1>3, <1>4

\* The page of a reservation offers what can be cancelled.
LEMMA GetDetailIsTruthful ==
    ASSUME Inv, NEW t \in Tabs, Blank(tab[t]), GetDetail(t)
    PROVE  Truthful
<1> PICK r : r = tab[t].ref
  OBVIOUS
<1>1. tab[t] \in Page /\ tab[t].at = "detail" /\ r \in Refs /\ res[r] \in Record
      /\ now' = now /\ cancelled' = cancelled
  BY DEF Inv, Typing, Fits, GetDetail, Asks
<1>2. CASE Lapsed(r)
  <2>1. Release({r}) /\ Shown(t)
    BY <1>2 DEF GetDetail, ExpireInstead
  <2>2. res'[r] = [res[r] EXCEPT !.status = "cancelled"]
    BY <1>1, <2>1 DEF Release
  <2>3. res'[r].status = "cancelled"
    BY <1>1, <2>2, StatusKept
  <2>4. /\ tab'[t].at = "detail" /\ tab'[t].ref = r /\ ~tab'[t].offered
    BY <1>1, <2>1, ShownFacts DEF GetDetail, Asks, Blank
  <2>5. Fresh(t)'
    BY <2>3, <2>4 DEF Fresh, Overdue, Cancellable
  <2> QED BY <2>1, <2>5, ShownIsTruthful
<1>3. CASE ~Lapsed(r)
  <2> DEFINE page == [tab[t] EXCEPT !.asked = FALSE, !.offered = Cancellable(r)]
  <2>1. Show(t, page) /\ res' = res
    BY <1>3 DEF GetDetail
  <2>2. tab'[t] = page
    BY <2>1 DEF Show, Inv, Typing
  <2>3. /\ page.at = "detail" /\ page.ref = r /\ page.offered = Cancellable(r) /\ ~page.asked
    BY <1>1 DEF Page
  <2> HIDE DEF page
  <2>4. tab'[t].at = "detail" /\ tab'[t].ref = r /\ tab'[t].offered = Cancellable(r)
    BY <2>2, <2>3
  <2>5. (~Overdue(r))' /\ (Cancellable(r)' <=> Cancellable(r))
    BY <1>1, <1>3, <2>1 DEF Lapsed, Overdue, Cancellable, Bookable
  <2>6. Fresh(t)'
    BY <2>4, <2>5 DEF Fresh
  <2> QED BY <2>1, <2>3, <2>6, ShowIsTruthful DEF Blank
<1> QED BY <1>2, <1>3

\* The list offers nothing that can be had no more.
LEMMA GetListIsTruthful ==
    ASSUME Inv, NEW t \in Tabs, GetList(t)
    PROVE  Truthful
<1> DEFINE R == {r \in Refs : Lapsed(r)}
<1>1. Release(R) /\ Shown(t) /\ now' = now /\ tab[t].at = "list"
  BY DEF GetList, Asks
<1>2. ASSUME NEW q \in Refs, res'[q].status # "none"
      PROVE  \/ (q \in Upcoming \cup Past \cup CancelledOnes)'
             \/ res'[q].status = "pending" /\ IsLive(q)'
  <2>1. res[q] \in Record /\ now \in Nat
    BY DEF Inv, Typing
  <2>2. CASE q \in R
    <3>1. res'[q] = [res[q] EXCEPT !.status = "cancelled"]
      BY <1>1, <2>2 DEF Release
    <3>2. res'[q].status = "cancelled"
      BY <2>1, <3>1, StatusKept
    <3> QED BY <3>2 DEF CancelledOnes
  <2>3. CASE q \notin R
    <3>1. res'[q] = res[q]
      BY <1>1, <2>3 DEF Release
    <3>2. CASE res[q].status = "pending"
      <4>1. res[q].deadline > now
        BY <2>1, <2>3, <3>2 DEF Lapsed, Overdue, Record
      <4> QED BY <1>1, <3>1, <3>2, <4>1 DEF IsLive
    <3>3. CASE res[q].status = "reserved"
      BY <1>1, <2>1, <3>1, <3>3 DEF Upcoming, Past
    <3>4. CASE res[q].status = "cancelled"
      BY <3>1, <3>4 DEF CancelledOnes
    <3> QED BY <1>2, <2>1, <3>1, <3>2, <3>3, <3>4 DEF Record
  <2> QED BY <2>2, <2>3
<1>3. tab'[t].at = "list"
  BY <1>1, ShownFacts
<1>4. Fresh(t)'
  BY <1>2, <1>3 DEF Fresh
<1> QED BY <1>1, <1>4, ShownIsTruthful

\* Every step is truthful.
LEMMA StepIsTruthful ==
    ASSUME FreshInv, [Next]_vars
    PROVE  Truthful
<1>1. Inv /\ \A t \in Tabs : Blank(tab[t])
  BY DEF FreshInv
<1>2. ASSUME NEW t \in Tabs, Visit(t) \/ Post(t) \/ SavePassengers(t) PROVE Truthful
  BY <1>1, <1>2, StepsOfOthers, PostIsTruthful
<1>3. ASSUME NEW t \in Tabs, Get(t) PROVE Truthful
  BY <1>1, <1>3, GetCreateIsTruthful, GetPassengersIsTruthful, GetPaymentIsTruthful,
     GetDetailIsTruthful, GetListIsTruthful DEF Get
<1>4. CASE UNCHANGED tab
  BY <1>4, SameTabsAreTruthful
<1> QED BY <1>2, <1>3, <1>4 DEF Next, Answer, vars, OthersTake, OthersGiveBack, SweepOne,
           CancelFlight, Tick

\* Whatever else happens meanwhile, a page is true at the moment it is shown: it
\* offers no payment for a hold that has expired and no form that would be refused,
\* has a cancel button exactly when cancelling is accepted, and lists every
\* reservation.
THEOREM PagesAreTrue == Spec => FreshPagesAreTrue
<1>1. Init => FreshInv
  BY InitHolds, RequestsAreBlank DEF Init, FreshInv, Blank
<1>2. FreshInv /\ [Next]_vars => FreshInv'
  <2> SUFFICES ASSUME FreshInv, [Next]_vars PROVE FreshInv'
    OBVIOUS
  <2>1. Inv' /\ Truthful
    BY StepHolds, StepIsTruthful DEF FreshInv
  <2>2. \A t \in Tabs : Blank(tab'[t])
    BY <2>1 DEF FreshInv, Truthful
  <2>3. \A t \in Tabs : Blank(tab[t])'
    BY <2>2 DEF Blank
  <2> QED BY <2>1, <2>3 DEF FreshInv
<1>3. FreshInv /\ [Next]_vars =>
        [\A t \in Tabs : tab[t].asked /\ ~tab'[t].asked => Fresh(t)']_vars
  <2> SUFFICES ASSUME FreshInv, [Next]_vars
               PROVE  \A t \in Tabs : tab[t].asked /\ ~tab'[t].asked => Fresh(t)'
    OBVIOUS
  <2>1. Truthful
    BY StepIsTruthful
  <2> QED BY <2>1 DEF Truthful
<1> QED BY <1>1, <1>2, <1>3, PTL DEF Spec, FreshPagesAreTrue

-----------------------------------------------------------------------------
(* Runs of free seats.                                                     *)

\* Induction over the natural numbers, from their well-foundedness.
LEMMA LeastNumber ==
    ASSUME NEW T \in SUBSET Nat, T # {}
    PROVE  \E x \in T : \A y \in T : x <= y
<1> DEFINE R == OpToRel(<, Nat)
<1>1. IsWellFoundedOn(R, Nat)
  BY NatLessThanWellFounded
<1>2. \A x, y \in Nat : x < y => <<x, y>> \in R
  BY DEF OpToRel
<1> HIDE DEF R
<1>3. PICK x \in T : \A y \in T : ~ (<<y, x>> \in R)
  BY <1>1, WFMin
<1>4. ASSUME NEW y \in T PROVE ~(y < x)
  <2>1. x \in Nat /\ y \in Nat
    OBVIOUS
  <2>2. <<y, x>> \notin R
    BY <1>3
  <2>3. y < x => <<y, x>> \in R
    BY <1>2, <2>1
  <2> QED BY <2>2, <2>3
<1>5. x \in Nat OBVIOUS
<1> QED BY <1>4, <1>5

\* Induction, as a statement about a set of numbers.
LEMMA SetInduction ==
    ASSUME NEW T, 0 \in T, \A n \in Nat : n \in T => n + 1 \in T
    PROVE  Nat \subseteq T
<1> SUFFICES ASSUME Nat \ T # {} PROVE FALSE
  OBVIOUS
<1>1. PICK x \in Nat \ T : \A y \in Nat \ T : x <= y
  BY LeastNumber
<1> QED BY <1>1

\* The numbers of a finite set in their order.
Lists(g, X, k) ==
    /\ g \in [1 .. k -> X]
    /\ \A i, j \in 1 .. k : i < j => g[i] < g[j]
    /\ \A x \in X : \E i \in 1 .. k : g[i] = x

\* A finite set of numbers can be put in order.
LEMMA SortExists ==
    ASSUME NEW Y \in SUBSET Nat, IsFiniteSet(Y)
    PROVE  \E g : Lists(g, Y, Cardinality(Y))
<1> DEFINE T == {n \in Nat : \A X \in SUBSET Nat :
                    IsFiniteSet(X) /\ Cardinality(X) = n => \E g : Lists(g, X, n)}
<1>1. 0 \in T
  <2> SUFFICES ASSUME NEW X \in SUBSET Nat, IsFiniteSet(X), Cardinality(X) = 0
               PROVE  \E g : Lists(g, X, 0)
    OBVIOUS
  <2>1. X = {}
    BY FS_EmptySet
  <2>2. [i \in 1 .. 0 |-> i] \in [1 .. 0 -> X]
    OBVIOUS
  <2>3. Lists([i \in 1 .. 0 |-> i], X, 0)
    BY <2>1, <2>2 DEF Lists
  <2> QED BY <2>3
<1>2. ASSUME NEW n \in Nat, n \in T
      PROVE  n + 1 \in T
  <2> SUFFICES ASSUME NEW X \in SUBSET Nat, IsFiniteSet(X), Cardinality(X) = n + 1
               PROVE  \E g : Lists(g, X, n + 1)
    OBVIOUS
  <2>1. X # {}
    BY FS_EmptySet
  <2>2. PICK x \in X : \A y \in X : x <= y
    BY <2>1, LeastNumber
  <2>3. IsFiniteSet(X \ {x}) /\ Cardinality(X \ {x}) = n
    <3>1. IsFiniteSet(X \ {x}) /\ Cardinality(X \ {x}) = Cardinality(X) - 1
      BY FS_RemoveElement
    <3> QED BY <3>1
  <2>4. PICK g : Lists(g, X \ {x}, n)
    BY <1>2, <2>3
  <2> DEFINE h == [i \in 1 .. n + 1 |-> IF i = 1 THEN x ELSE g[i - 1]]
  <2>5. \A i \in 2 .. n + 1 : i - 1 \in 1 .. n /\ h[i] = g[i - 1] /\ g[i - 1] \in X /\ x < g[i - 1]
    <3> TAKE i \in 2 .. n + 1
    <3>1. i - 1 \in 1 .. n
      OBVIOUS
    <3>2. g[i - 1] \in X \ {x}
      BY <2>4, <3>1 DEF Lists
    <3>3. x \in Nat /\ g[i - 1] \in Nat /\ x <= g[i - 1] /\ x # g[i - 1]
      BY <2>2, <3>2
    <3>4. h[i] = g[i - 1]
      OBVIOUS
    <3> QED BY <3>1, <3>2, <3>3, <3>4
  <2>6. h[1] = x /\ \A i \in 1 .. n + 1 : i = 1 \/ i \in 2 .. n + 1
    OBVIOUS
  <2>7. h \in [1 .. n + 1 -> X]
    BY <2>5, <2>6
  <2>8. ASSUME NEW i \in 1 .. n + 1, NEW j \in 1 .. n + 1, i < j
        PROVE  h[i] < h[j]
    <3>1. CASE i = 1
      <4>1. j \in 2 .. n + 1
        BY <2>8, <3>1
      <4> QED BY <2>5, <2>6, <3>1, <4>1
    <3>2. CASE i # 1
      <4>1. i \in 2 .. n + 1 /\ j \in 2 .. n + 1 /\ i - 1 < j - 1
        BY <2>8, <3>2
      <4>2. g[i - 1] < g[j - 1]
        BY <2>4, <2>5, <4>1 DEF Lists
      <4> QED BY <2>5, <4>1, <4>2
    <3> QED BY <3>1, <3>2
  <2>9. ASSUME NEW y \in X
        PROVE  \E i \in 1 .. n + 1 : h[i] = y
    <3>1. CASE y = x
      BY <2>6, <3>1
    <3>2. CASE y # x
      <4>1. PICK i \in 1 .. n : g[i] = y
        BY <2>4, <3>2 DEF Lists
      <4>2. i + 1 \in 2 .. n + 1 /\ (i + 1) - 1 = i
        OBVIOUS
      <4> QED BY <2>5, <4>1, <4>2
    <3> QED BY <3>1, <3>2
  <2> HIDE DEF h
  <2>10. Lists(h, X, n + 1)
    BY <2>7, <2>8, <2>9 DEF Lists
  <2> QED BY <2>10
<1> HIDE DEF T
<1>3. Nat \subseteq T
  BY <1>1, <1>2, SetInduction
<1> QED BY <1>3, FS_CardinalityType DEF T

\* The sequence that is chosen has all the numbers, since it has as many.
LEMMA SortedFacts ==
    ASSUME NEW X \in SUBSET Nat, IsFiniteSet(X), NEW k \in Nat, k = Cardinality(X)
    PROVE  Lists(Sorted(X), X, k)
<1> DEFINE Ordered(c) == \A i, j \in DOMAIN c : i < j => c[i] < c[j]
<1>1. PICK g : Lists(g, X, k)
  BY SortExists
<1>2. g \in [1 .. k -> X] /\ Ordered(g)
  BY <1>1 DEF Lists
<1>3. Sorted(X) = CHOOSE c \in [1 .. k -> X] : Ordered(c)
  BY DEF Sorted
<1> PICK c : c = Sorted(X)
  OBVIOUS
<1>4. c \in [1 .. k -> X] /\ Ordered(c)
  BY <1>2, <1>3
<1>5. \A i, j \in 1 .. k : i < j => c[i] < c[j]
  BY <1>4
<1>6. c \in Injection(1 .. k, X)
  <2>1. \A i, j \in 1 .. k : c[i] = c[j] => i = j
    <3> SUFFICES ASSUME NEW i \in 1 .. k, NEW j \in 1 .. k, c[i] = c[j] PROVE i = j
      OBVIOUS
    <3>1. c[i] \in Nat /\ c[j] \in Nat
      BY <1>4
    <3>2. ~(i < j) /\ ~(j < i)
      BY <1>5, <3>1
    <3> QED BY <3>2
  <2> QED BY <1>4, <2>1 DEF Injection, IsInjective
<1>7. Cardinality(1 .. k) = k
  BY FS_Interval
<1>8. c \in Surjection(1 .. k, X)
  BY <1>6, <1>7, FS_Injection
<1>9. \A x \in X : \E i \in 1 .. k : c[i] = x
  BY <1>8 DEF Surjection
<1> QED BY <1>4, <1>5, <1>9 DEF Lists

\* The length of the run that ends at each place.
IsRun(g, c, k) ==
    g = [i \in 1 .. k |-> IF i > 1 /\ c[i] = c[i - 1] + 1 THEN g[i - 1] + 1 ELSE 1]

\* There is a function that counts the runs of a sequence.
LEMMA RunExists ==
    ASSUME NEW c, NEW k \in Nat
    PROVE  \E g : IsRun(g, c, k)
<1> DEFINE T == {n \in Nat : \E g : IsRun(g, c, n)}
           Grows(x, i) == IF i > 1 /\ c[i] = c[i - 1] + 1 THEN x + 1 ELSE 1
<1>1. 0 \in T
  <2> DEFINE g == [i \in 1 .. 0 |-> 1]
  <2>1. IsRun(g, c, 0)
    BY DEF IsRun
  <2> QED BY <2>1
<1>2. ASSUME NEW n \in Nat, n \in T
      PROVE  n + 1 \in T
  <2> PICK g : IsRun(g, c, n)
    BY <1>2
  <2> DEFINE h == [i \in 1 .. n + 1 |-> Grows(g[i - 1], i)]
  <2>1. \A i \in 1 .. n : h[i] = g[i]
    BY DEF IsRun
  <2>2. \A i \in 1 .. n + 1 : i > 1 => i - 1 \in 1 .. n
    OBVIOUS
  <2>3. h = [i \in 1 .. n + 1 |-> Grows(h[i - 1], i)]
    BY <2>1, <2>2
  <2> HIDE DEF h
  <2>4. IsRun(h, c, n + 1)
    BY <2>3 DEF IsRun
  <2> QED BY <2>4
<1> HIDE DEF T
<1>3. Nat \subseteq T
  BY <1>1, <1>2, SetInduction
<1> QED BY <1>3 DEF T

\* Runs is that function.
LEMMA RunsFacts ==
    ASSUME NEW k \in Nat, NEW c \in [1 .. k -> Nat]
    PROVE  IsRun(Runs(c), c, k)
<1> DEFINE g == CHOOSE g : IsRun(g, c, k)
<1>1. IsRun(g, c, k)
  BY RunExists
<1>2. DOMAIN c = 1 .. k
  OBVIOUS
<1>3. Runs(c) = g
  BY <1>2 DEF Runs, IsRun
<1> QED BY <1>1, <1>3

\* One step of its recursion.
LEMMA RunStep ==
    ASSUME NEW g, NEW c, NEW k, IsRun(g, c, k), NEW i \in 1 .. k
    PROVE  g[i] = IF i > 1 /\ c[i] = c[i - 1] + 1 THEN g[i - 1] + 1 ELSE 1
BY DEF IsRun

\* A run consists of consecutive numbers.
Consecutive(run, c, k, m) ==
    /\ run[m] \in 1 .. m
    /\ \A j \in 0 .. run[m] - 1 : m - j \in 1 .. k /\ c[m - j] = c[m] - j

\* The run that ends at a place is made of neighbouring columns.
LEMMA RunIsConsecutive ==
    ASSUME NEW k \in Nat, NEW c \in [1 .. k -> Nat], NEW m \in 1 .. k
    PROVE  Consecutive(Runs(c), c, k, m)
<1> PICK run : run = Runs(c)
  OBVIOUS
<1>0. IsRun(run, c, k)
  BY RunsFacts
<1> DEFINE Good(i) == run[i] \in 1 .. i /\ \A j \in 0 .. run[i] - 1 : c[i - j] = c[i] - j
           T == {i \in Nat : i \in 1 .. k => Good(i)}
<1>1. 0 \in T
  OBVIOUS
<1>2. ASSUME NEW i \in Nat, i \in T
      PROVE  i + 1 \in T
  <2> SUFFICES ASSUME i + 1 \in 1 .. k PROVE Good(i + 1)
    OBVIOUS
  <2>1. run[i + 1] = IF i > 0 /\ c[i + 1] = c[i] + 1 THEN run[i] + 1 ELSE 1
    <3> PICK l \in 1 .. k : l = i + 1
      OBVIOUS
    <3>1. run[l] = IF l > 1 /\ c[l] = c[l - 1] + 1 THEN run[l - 1] + 1 ELSE 1
      BY <1>0, RunStep
    <3>2. l - 1 = i /\ (l > 1 <=> i > 0)
      OBVIOUS
    <3> QED BY <3>1, <3>2
  <2>2. c[i + 1] \in Nat
    OBVIOUS
  <2>3. CASE i > 0 /\ c[i + 1] = c[i] + 1
    <3>1. Good(i) /\ c[i] \in Nat /\ run[i + 1] = run[i] + 1
      BY <1>2, <2>1, <2>3
    <3>2. ASSUME NEW j \in 0 .. run[i]
          PROVE  c[(i + 1) - j] = c[i + 1] - j
      <4>1. CASE j = 0
        BY <2>2, <4>1
      <4>2. CASE j # 0
        <5>1. j - 1 \in 0 .. run[i] - 1
          BY <3>1, <3>2, <4>2
        <5>2. c[i - (j - 1)] = c[i] - (j - 1)
          BY <3>1, <5>1
        <5>3. i - (j - 1) = (i + 1) - j /\ c[i] - (j - 1) = (c[i] + 1) - j
          <6>1. run[i] \in Nat /\ c[i] \in Nat
            BY <3>1
          <6>2. j \in Int
            BY <6>1
          <6>3. \A x \in Int : x - (j - 1) = (x + 1) - j
            BY <6>2
          <6>4. i \in Int /\ c[i] \in Int
            BY <6>1
          <6> QED BY <6>3, <6>4, Zenon
        <5>4. c[(i + 1) - j] = (c[i] + 1) - j
          BY <5>2, <5>3
        <5> QED BY <2>3, <5>4
      <4> QED BY <4>1, <4>2
    <3>3. run[i + 1] - 1 = run[i] /\ run[i + 1] \in 1 .. i + 1
      <4>1. run[i] \in 1 .. i /\ run[i + 1] = run[i] + 1
        BY <3>1
      <4> QED BY ONLY <4>1, i \in Nat
    <3> QED BY <3>2, <3>3
  <2>4. CASE ~(i > 0 /\ c[i + 1] = c[i] + 1)
    BY <2>1, <2>2, <2>4
  <2> QED BY <2>3, <2>4
<1> HIDE DEF T
<1>6. Nat \subseteq T
  BY <1>1, <1>2, SetInduction
<1>3. m \in T
  BY <1>6
<1>4. Good(m)
  BY <1>3 DEF T
<1>5. \A j \in 0 .. run[m] - 1 : m - j \in 1 .. k
  BY <1>4
<1> QED BY <1>4, <1>5 DEF Consecutive

\* Consecutive numbers of a sorted sequence are a run.
LEMMA ConsecutiveIsRun ==
    ASSUME NEW X \in SUBSET Nat, NEW k \in Nat, NEW c, Lists(c, X, k),
           NEW n \in Nat \ {0}, NEW low \in Nat, low .. low + n - 1 \subseteq X
    PROVE  \E i \in 1 .. k : Runs(c)[i] >= n
<1> PICK run : run = Runs(c)
  OBVIOUS
<1>1. /\ c \in [1 .. k -> Nat] /\ \A i, j \in 1 .. k : i < j => c[i] < c[j]
      /\ \A x \in X : \E i \in 1 .. k : c[i] = x
  BY DEF Lists
<1> DEFINE T == {m \in Nat : m < n =>
                   \E i \in 1 .. k : c[i] = low + m /\ run[i] \in Nat /\ run[i] >= m + 1}
<1>2. 0 \in T
  <2>1. PICK i \in 1 .. k : c[i] = low
    <3>1. low \in low .. low + n - 1
      OBVIOUS
    <3> QED BY <1>1, <3>1
  <2>2. run[i] \in 1 .. i
    <3>1. Consecutive(run, c, k, i)
      BY <1>1, RunIsConsecutive
    <3> QED BY <3>1 DEF Consecutive
  <2> QED BY <2>1, <2>2
<1>3. ASSUME NEW m \in Nat, m \in T
      PROVE  m + 1 \in T
  <2> SUFFICES ASSUME m + 1 < n
               PROVE  \E i \in 1 .. k : c[i] = low + (m + 1) /\ run[i] \in Nat /\ run[i] >= (m + 1) + 1
    OBVIOUS
  <2>1. PICK j \in 1 .. k : c[j] = low + m /\ run[j] \in Nat /\ run[j] >= m + 1
    BY <1>3
  <2>2. PICK i \in 1 .. k : c[i] = low + (m + 1)
    <3>1. low + (m + 1) \in low .. low + n - 1
      OBVIOUS
    <3> QED BY <1>1, <3>1
  <2>3. i = j + 1
    <3>1. ~(i < j) /\ i # j
      <4>1. i < j => c[i] < c[j]
        BY <1>1
      <4> QED BY <2>1, <2>2, <4>1
    <3>2. CASE j + 1 < i
      <4>1. j + 1 \in 1 .. k /\ j < j + 1
        BY <3>2
      <4>2. c[j] < c[j + 1] /\ c[j + 1] < c[i] /\ c[j + 1] \in Nat
        BY <1>1, <3>2, <4>1
      <4> QED BY <2>1, <2>2, <4>2
    <3> QED BY <3>1, <3>2
  <2>4. run[i] = run[j] + 1
    <3>1. i > 1 /\ i - 1 = j /\ c[i] = c[i - 1] + 1
      BY <2>1, <2>2, <2>3
    <3>3. IsRun(run, c, k)
      BY <1>1, RunsFacts
    <3>2. run[i] = IF i > 1 /\ c[i] = c[i - 1] + 1 THEN run[i - 1] + 1 ELSE 1
      BY <3>3, RunStep
    <3> QED BY <3>1, <3>2
  <2> QED BY <2>1, <2>2, <2>4
<1> HIDE DEF T
<1>4. n - 1 \in T
  BY <1>2, <1>3, SetInduction
<1>5. n - 1 < n /\ (n - 1) + 1 = n
  OBVIOUS
<1> QED BY <1>4, <1>5 DEF T

\* There is a run of n exactly when n neighbouring columns are there.
LEMMA RunIff ==
    ASSUME NEW X \in SUBSET Nat, IsFiniteSet(X), NEW n \in Nat \ {0},
           NEW c, c = Sorted(X), NEW run, run = Runs(c)
    PROVE  (\E i \in DOMAIN run : run[i] >= n) <=> \E low \in Nat : low .. low + n - 1 \subseteq X
<1> PICK k \in Nat : k = Cardinality(X)
  BY FS_CardinalityType
<1>1. Lists(c, X, k) /\ c \in [1 .. k -> Nat]
  <2>1. Lists(c, X, k)
    BY SortedFacts
  <2> QED BY <2>1 DEF Lists
<1>2. DOMAIN run = 1 .. k
  <2>1. DOMAIN c = 1 .. k
    BY <1>1
  <2>4. IsRun(run, c, k)
    BY <1>1, RunsFacts
  <2> QED BY <2>4 DEF IsRun
<1>3. ASSUME NEW i \in 1 .. k, run[i] >= n
      PROVE  \E low \in Nat : low .. low + n - 1 \subseteq X
  <2> PICK low : low = c[i] - n + 1
    OBVIOUS
  <2>1. /\ run[i] \in 1 .. i
        /\ \A j \in 0 .. run[i] - 1 : i - j \in 1 .. k /\ c[i - j] = c[i] - j
    <3>1. Consecutive(run, c, k, i)
      BY <1>1, RunIsConsecutive
    <3> QED BY <3>1 DEF Consecutive
  <2>2. \A j \in 0 .. n - 1 : c[i] - j \in X
    <3> TAKE j \in 0 .. n - 1
    <3>1. j \in 0 .. run[i] - 1
      BY <1>3, <2>1
    <3>2. i - j \in 1 .. k /\ c[i - j] = c[i] - j
      BY <2>1, <3>1
    <3>3. c[i - j] \in X
      BY <1>1, <3>2 DEF Lists
    <3> QED BY <3>2, <3>3
  <2>3. c[i] \in Nat /\ n - 1 \in 0 .. n - 1
    BY <1>1
  <2>4. low \in Nat
    <3>1. c[i] - (n - 1) \in Nat
      BY <2>2, <2>3
    <3> QED BY <2>3, <3>1
  <2>5. ASSUME NEW v \in low .. low + n - 1
        PROVE  v \in X
    <3>1. c[i] - v \in 0 .. n - 1 /\ c[i] - (c[i] - v) = v
      <4>1. c[i] \in Nat /\ low = c[i] - n + 1 /\ v \in Int /\ low <= v /\ v <= low + n - 1
        BY <2>3, <2>4
      <4> QED BY ONLY <4>1, n \in Nat
    <3> QED BY <2>2, <3>1
  <2> QED BY <2>4, <2>5
<1> QED BY <1>1, <1>2, <1>3, ConsecutiveIsRun

-----------------------------------------------------------------------------
(* Seats and runs.                                                         *)

Columns(row) == {Col[s] : s \in {q \in Free : Row[q] = row}}

\* The free columns of a row are finitely many numbers.
LEMMA ColumnsFacts ==
    ASSUME NEW row
    PROVE  Columns(row) \in SUBSET Nat /\ IsFiniteSet(Columns(row))
<1> DEFINE D == {q \in Free : Row[q] = row}
           f == [s \in D |-> Col[s]]
<1>1. D \subseteq Seats
  BY DEF Free
<1>2. IsFiniteSet(D)
  BY <1>1, FS_Subset
<1>3. Columns(row) \in SUBSET Nat
  BY <1>1 DEF Columns
<1>4. f \in Surjection(D, Columns(row))
  <2>1. f \in [D -> Columns(row)]
    BY DEF Columns
  <2>2. \A x \in Columns(row) : \E s \in D : f[s] = x
    BY DEF Columns
  <2> QED BY <2>1, <2>2 DEF Surjection
<1> HIDE DEF f, D
<1> QED BY <1>2, <1>3, <1>4, FS_Surjection

\* Consecutive free columns of a row are those of free seats side by side.
LEMMA ChooseSeats ==
    ASSUME NEW row, NEW n \in Nat \ {0}, NEW low \in Nat, low .. low + n - 1 \subseteq Columns(row)
    PROVE  \E S \in SUBSET Seats : S \subseteq Free /\ Cardinality(S) = n /\ SideBySide(S)
<1> PICK V : V = low .. low + n - 1
  OBVIOUS
<1>1. IsFiniteSet(V) /\ Cardinality(V) = n /\ low \in V
  BY FS_Interval
<1> DEFINE At(v, s) == s \in Free /\ Row[s] = row /\ Col[s] = v
           seat == [v \in V |-> CHOOSE s \in Seats : At(v, s)]
           S == {seat[v] : v \in V}
<1>2. \A v \in V : seat[v] \in Seats /\ At(v, seat[v])
  <2> TAKE v \in V
  <2>1. \E s \in Seats : At(v, s)
    BY DEF Columns, Free
  <2> QED BY <2>1
<1>3. seat \in Bijection(V, S)
  <2>1. seat \in [V -> S]
    OBVIOUS
  <2>2. \A v, w \in V : seat[v] = seat[w] => v = w
    BY <1>2
  <2>3. \A s \in S : \E v \in V : seat[v] = s
    OBVIOUS
  <2> HIDE DEF S, seat
  <2>4. seat \in Injection(V, S)
    BY <2>1, <2>2 DEF Injection, IsInjective
  <2>5. seat \in Surjection(V, S)
    BY <2>1, <2>3 DEF Surjection
  <2> QED BY <2>4, <2>5 DEF Bijection
<1> HIDE DEF seat
<1>4. S \subseteq Seats /\ S \subseteq Free /\ (\A s \in S : Row[s] = row) /\ {Col[s] : s \in S} = V
  BY <1>2
<1>5. Cardinality(S) = n
  <2>1. ExistsBijection(V, S)
    BY <1>3 DEF ExistsBijection
  <2> QED BY <1>1, <2>1, FS_Bijection
<1> HIDE DEF S
<1>6. SideBySide(S)
  <2>1. low \in {Col[s] : s \in S} /\ {Col[s] : s \in S} = low .. (low + Cardinality(S) - 1)
    BY <1>1, <1>4, <1>5
  <2>2. \A s, t \in S : Row[s] = Row[t]
    BY <1>4
  <2> QED BY <2>1, <2>2 DEF SideBySide
<1> QED BY <1>4, <1>5, <1>6

\* The block that is looked for is there exactly when seats side by side are.
LEMMA BlockIff ==
    ASSUME NEW n \in Nat \ {0}
    PROVE  Cardinality(Free) >= n /\ HasAdjacentBlock(n)
             <=> \E S \in SUBSET Seats : S \subseteq Free /\ Cardinality(S) = n /\ SideBySide(S)
<1>1. Free \subseteq Seats /\ IsFiniteSet(Free) /\ Cardinality(Free) \in Nat
  BY FS_Subset, FS_CardinalityType DEF Free
<1>2. ASSUME NEW S \in SUBSET Seats, S \subseteq Free, Cardinality(S) = n, SideBySide(S)
      PROVE  Cardinality(Free) >= n /\ HasAdjacentBlock(n)
  <2>1. Cardinality(Free) >= n
    <3>1. Cardinality(S) <= Cardinality(Free)
      BY <1>1, <1>2, FS_Subset
    <3> QED BY <1>1, <1>2, <3>1
  <2>2. CASE n <= 1
    BY <2>1, <2>2 DEF HasAdjacentBlock
  <2>3. CASE ~(n <= 1)
    <3>1. PICK low \in {Col[s] : s \in S} : {Col[s] : s \in S} = low .. (low + n - 1)
      BY <1>2, <2>3 DEF SideBySide
    <3>2. PICK s \in S : Col[s] = low
      BY <3>1
    <3>3. \A t \in S : Row[t] = Row[s]
      BY <1>2, <2>3 DEF SideBySide
    <3>4. low \in Nat /\ s \in Free
      BY <1>2, <3>2
    <3>5. low .. low + n - 1 \subseteq Columns(Row[s])
      BY <1>2, <3>1, <3>3 DEF Columns
    <3>6. \E i \in DOMAIN Runs(Sorted(Columns(Row[s]))) : Runs(Sorted(Columns(Row[s])))[i] >= n
      BY <3>4, <3>5, ColumnsFacts, RunIff
    <3> QED BY <2>1, <2>3, <3>4, <3>6 DEF HasAdjacentBlock, FreeColumns, Columns
  <2> QED BY <2>2, <2>3
<1>3. ASSUME Cardinality(Free) >= n, HasAdjacentBlock(n)
      PROVE  \E S \in SUBSET Seats : S \subseteq Free /\ Cardinality(S) = n /\ SideBySide(S)
  <2>1. CASE n <= 1
    <3>1. n = 1 /\ Free # {}
      BY <1>1, <1>3, <2>1, FS_EmptySet
    <3>2. PICK s \in Free : TRUE
      BY <3>1
    <3>3. Cardinality({s}) = 1
      BY FS_Singleton
    <3>4. SideBySide({s})
      BY <3>3 DEF SideBySide
    <3> QED BY <1>1, <3>1, <3>3, <3>4
  <2>2. CASE ~(n <= 1)
    <3>1. PICK row : \E i \in DOMAIN Runs(FreeColumns(row)) : Runs(FreeColumns(row))[i] >= n
      BY <1>3, <2>2 DEF HasAdjacentBlock
    <3> PICK run : run = Runs(Sorted(Columns(row)))
      OBVIOUS
    <3>3. \E i \in DOMAIN run : run[i] >= n
      BY <3>1 DEF FreeColumns, Columns
    <3>2. PICK low \in Nat : low .. low + n - 1 \subseteq Columns(row)
      BY <3>3, ColumnsFacts, RunIff
    <3> QED BY <3>2, ChooseSeats
  <2> QED BY <2>1, <2>2
<1> QED BY <1>2, <1>3

\* In any state of the cabin, and whatever its size and its gaps, a group is sent
\* on to the seat map exactly when there is a choice of seats that would be held.
THEOREM PrecheckHolds == Spec => []PrecheckIsRight
<1>1. PrecheckIsRight
  <2> SUFFICES ASSUME NEW n \in 1 .. MaxSeats
               PROVE  LET possible == \E S \in SUBSET Seats : CanHold(n, S) IN
                      (MayChooseSeats(n) <=> possible) /\ (possible => SearchFinds(n))
    BY DEF PrecheckIsRight
  <2>1. n \in Nat \ {0}
    OBVIOUS
  <2> QED BY <2>1, BlockIff DEF MayChooseSeats, CanHold, SearchFinds
<1> QED BY <1>1, PTL

=============================================================================
