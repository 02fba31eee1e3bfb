CONSTANTS
    MaxChanges = 2
    MaxPending = 1
    MaxFetches = 2
SPECIFICATION PlacesSpec
INVARIANTS
    ListsAreTrue
CHECK_DEADLOCK FALSE
