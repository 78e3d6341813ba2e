SPECIFICATION Spec
CONSTANTS
    None = None  Workers = {"w1", "w2"}  Tokens = {t1, t2}  Addresses = {a, b}
    MaxAttempts = 2  MaxBalance = 1
    Ops <- OnePageAtATime
INVARIANTS AccountTypeOK VerifiedWasProven OnlyLatestIsValid GuessesAreBounded
SYMMETRY Interchangeable
VIEW WhatMatters
