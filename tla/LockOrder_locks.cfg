SPECIFICATION FairSpec
CONSTANTS
    None = None  Processes = {p1, p2, p3}
    Reservations = {"r1", "r2"}  Flights = {"f1", "f2"}  Classes = {"c1", "c2"}  Users = {"u1", "u2"}
    ClassFor <- ClassForValue  OwnerOf <- OwnerOfValue  FlightOf <- FlightOfValue
    ScanOrder <- ScanOrderValue
    Ops = {}
INVARIANTS NoWaitCycle
PROPERTIES EveryTransactionEnds
