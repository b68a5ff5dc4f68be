CONSTANTS
    Targets = {2}
    Candidates = {1}
    Digests = {d1}
    MaxHeld = 1
    MaxRecords = 2
    NoState = NoState
SPECIFICATION HistorySpec
PROPERTIES OldReservationStaysDead
CHECK_DEADLOCK FALSE
