SPECIFICATION FairSpec
CONSTANTS
    None = None  Paying = Paying
    Managers = {m1, m2}  Refs = {r1}  Classes = {"c1"}
    Departures = {1, 2}  FlightTime = 1  ActiveLead = 0
    MaxTime = 3  MaxMishaps = 2
INVARIANTS FlightDeskTypeOK
PROPERTIES PaidRowsStay NotReopened EveryoneIsRefunded ArrivedFlightsComplete
