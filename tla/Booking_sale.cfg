SPECIFICATION Spec
CONSTANTS
    None = None
    Users = {u1, u2}  Refs = {r1, r2}  NationalIds = {p1}  Workers = {w1, w2}
    Classes = {"c1", "c2"}  Seats = {"s1", "s2", "s3"}
    Flights = {"f1"}
    FlightOf <- TwoFlightOf  Fare <- TwoFare  ClassOf <- TwoClassOf  Row <- TwoRow  Col <- TwoCol
    Departure <- LateDeparture  Arrival <- LateArrival  Penalty <- HalfPenalty
    PayWindow = 1  WarnWindow = 1  ActiveLead = 1  MaxSeats = 2  MaxPending = 1
    InitialBalance = 6  TopUps = {}  MaxTime = 2  MaxTopUps = 1
    Ops = {"create", "passengers", "pay", "expire", "cancel", "crash"}
INVARIANTS TypeOK ReadsStayTrue SeatsMatchReservations CounterMatchesSeats MoneyMatchesReservations PendingLimit SharedPersonWasPaidLate
PROPERTIES ImplementsSale
SYMMETRY Interchangeable
