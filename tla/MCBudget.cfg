CONSTANTS
    Targets = {1, 3}
    Candidates = {1, 3}
    Digests = {d1, d2}
    MaxHeld = 2
    MaxRecords = 3
    NoState = NoState
SPECIFICATION Spec
SYMMETRY DigestSymmetry
INVARIANTS TypeOK BooksBalance ChargedOnce ChargedAsReserved
PROPERTIES OnlyUpdatesInvalidate
CHECK_DEADLOCK FALSE
