SPECIFICATION Spec
CONSTANTS
    None = None  Flight = Flight
    Refs = {r1, r2}  Managers = {m1, m2}
    PkOrder <- One  CabinOrder <- One  InitialCapacity <- OneCapacity
    Columns = 2  MaxCapacity = 2  MaxRow = 2
    Ops = {"recount", "lapse", "handEdit", "admin"}
PROPERTIES RecountRepairs
SYMMETRY Interchangeable
