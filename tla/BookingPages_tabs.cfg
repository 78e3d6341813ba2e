SPECIFICATION FairSpec
CONSTANTS
    None = None  Others = Others
    Tabs = {t1, t2}  Refs = {r1}  Ids = {p1, p2}
    Seats = {"s1", "s2", "s3"}  Row <- CabinRow  Col <- CabinCol
    Departure = 2  PayWindow = 1  MaxSeats = 2  MaxPending = 1  MaxTime = 2  MaxOthers = 1
INVARIANTS PagesTypeOK PassengersAllOrNone PrecheckIsRight
PROPERTIES CancelledStays FreshPagesAreTrue EveryClickEndsOnAPage
