CONSTANTS
    Places = {p1}
    NoPlace = NoPlace
    MaxReading = 3
    HistoryLimit = 2
SPECIFICATION Spec
INVARIANTS
    ErrorIsEarned
PROPERTY Freshness
CHECK_DEADLOCK FALSE
