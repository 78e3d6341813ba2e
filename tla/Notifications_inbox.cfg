SPECIFICATION Spec
CONSTANTS
    None = None
    Users = {"u1"}  Workers = {w1, w2}
    InTxn = {"paid"}  AfterCommit = {"wallet"}  Warnings = {"soon", "later"}
    Owner <- OneOwner  Deadline <- TwoDeadlines
    WarnWindow = 2  Patience = 1  KeepRead = 3  MaxTime = 6
INVARIANTS NotificationsTypeOK ToldAtMostOnce ToldIffCommitted
PROPERTIES ReadingIsFinal
SYMMETRY Interchangeable
