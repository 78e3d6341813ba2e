SPECIFICATION Spec
CONSTANTS
    None = None  Flight = Flight
    Refs = {r1}  Managers = {m1, m2}
    PkOrder <- TwoByPk  CabinOrder <- TwoInCabin  InitialCapacity <- TwoCapacities
    Columns = 2  MaxCapacity = 3  MaxRow = 3
    Ops = {"edit", "generate"}
INVARIANTS InventoryTypeOK CounterAndFlagsMatchLinks SeatsFillCapacity RowsAreOfOneClass BookedSeatsStay
SYMMETRY Interchangeable
