CONSTANTS
    Terms = {blank, brand}
    Blank = blank
    Nothing = nothing
    Queries = {empty, street, station}
    Addresses = {street}
    NoQuery = empty
SPECIFICATION Spec
INVARIANTS
    ListMatchesTerm
    CoordinatesMatchTab
CHECK_DEADLOCK FALSE
