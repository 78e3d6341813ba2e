SPECIFICATION FairSpec
CONSTANTS
    None = None
    Users = {u1}  Refs = {r1}  NationalIds = {p1}  Workers = {w1, w2}
    Classes = {"c1"}  Seats = {"s1", "s2"}
    Flights = {"f1"}
    FlightOf <- OneFlightOf  Fare <- OneFare  ClassOf <- OneClassOf  Row <- OneRow  Col <- OneCol
    Departure <- EarlyDeparture  Arrival <- EarlyArrival  Penalty <- HalfPenalty
    PayWindow = 1  WarnWindow = 1  ActiveLead = 1  MaxSeats = 1  MaxPending = 2
    InitialBalance = 5  TopUps = {2}  MaxTime = 2  MaxTopUps = 1
    Ops = {"create", "passengers", "pay", "cancel", "expire", "warn", "deposit"}
PROPERTIES HoldsEnd
