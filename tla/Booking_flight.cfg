SPECIFICATION Spec
CONSTANTS
    None = None
    Users = {u1}  Refs = {r1, r2}  NationalIds = {p1, p2}  Workers = {w1, w2}
    Classes = {"c1"}  Seats = {"s1", "s2"}
    Flights = {"f1"}
    FlightOf <- OneFlightOf  Fare <- OneFare  ClassOf <- OneClassOf  Row <- OneRow  Col <- OneCol
    Departure <- EarlyDeparture  Arrival <- EarlyArrival  Penalty <- HalfPenalty
    PayWindow = 1  WarnWindow = 1  ActiveLead = 0  MaxSeats = 1  MaxPending = 2
    InitialBalance = 10  TopUps = {}  MaxTime = 2  MaxTopUps = 1
    Ops = {"create", "passengers", "pay", "cancel", "cancelFlight", "sync", "fail"}
INVARIANTS LedgerExplainsWallet NotesAreTrue SweptFlightIsRefunded ReportsAreTrue
SYMMETRY Interchangeable
